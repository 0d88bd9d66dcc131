---------------------------- MODULE AgentLoopProofs ----------------------------
(***************************************************************************)
(* Theorems about AgentLoop and the LLM client below it, for any number of  *)
(* investigations, retries, steps and tokens, and whatever a request takes. *)
(***************************************************************************)
EXTENDS AgentLoop, TLAPS

\* Where a call is says which method it is and what it may have sent.
CallInv ==
  \A c \in Caller :
    /\ at[c] \in {"sent", "backoff"} => kind[c] # "stream" /\ shown[c] = 0
    /\ at[c] = "streaming" => kind[c] = "stream"
    /\ at[c] = "backoff" => attempt[c] < MaxRetries
    /\ at[c] = "answer" => usage[c] \in Cost[c]
    /\ corrective[c] => kind[c] = "structured"
    /\ sent[c] <= attempt[c] + 1 + (IF corrective[c] THEN MaxRetries + 1 ELSE 0)

Fresh(t) ==
  /\ step[t] = 0 /\ calls[t] = 0 /\ tokens[t] = 0 /\ results[t] = <<>>
  /\ billed[t] = 0 /\ wasted[t] = 0 /\ reason[t] = "none"

\* A running investigation is in a call, of the method its place in run says,
\* and has made one tool call for every step but the one it is in.
InPhase(t) ==
  /\ Running(t) <=> at[t] # "idle"
  /\ pc[t] = "idle" => Fresh(t)
  /\ pc[t] = "plan" => kind[t] = "structured"
  /\ pc[t] = "sql" => kind[t] = "call"
  /\ pc[t] = "land" => kind[t] # "structured" /\ reason[t] # "none"
  /\ pc[t] \in {"plan", "sql"} => calls[t] + 1 = step[t]

\* Two investigations at once are on record.
OverlapInv ==
  \A t, u \in Caller : Running(t) /\ Running(u) /\ t # u => t \in overlapped

\* A reply that is there and not counted yet.
Uncounted(t) == IF at[t] = "answer" THEN usage[t] ELSE 0

\* What an investigation that is alone has counted, and will count.
Accounted(t) ==
  /\ \/ Running(t) /\ at[t] \in Awaiting \cup {"answer"}
     \/ pc[t] = "sql" /\ at[t] = "error"
     => tokens[t] + sqlTokens + Uncounted(t) + wasted[t] = billed[t]
  /\ pc[t] \in {"answered", "landed"} => tokens[t] + wasted[t] = billed[t]

\* The planning call's reply that was discarded, and the one it gave up on.
Discarded(t) ==
  (IF corrective[t] THEN Dearest(t) ELSE 0) + (IF at[t] = "error" THEN Dearest(t) ELSE 0)

\* Beyond what is counted a step costs a discarded reply and an SQL reply.
Spends(t) ==
  /\ pc[t] = "plan" =>
       /\ tokens[t] <= TokenBudget
       /\ billed[t] <= tokens[t] + 2 * (calls[t] * Dearest(t)) + Discarded(t) + Uncounted(t)
  /\ pc[t] = "sql" =>
       /\ tokens[t] <= TokenBudget + Dearest(t)
       /\ billed[t] <= tokens[t] + 2 * (calls[t] * Dearest(t)) + Dearest(t) + Uncounted(t)
  /\ pc[t] = "land" =>
       /\ tokens[t] <= TokenBudget + Dearest(t)
       /\ billed[t] <= tokens[t] + 2 * (calls[t] * Dearest(t)) + Uncounted(t)
  /\ billed[t] <= TokenBudget + 2 * Dearest(t) + 2 * (MaxSteps * Dearest(t))

\* What the run's invariants say of one investigation.
Own(t) ==
  /\ \A i \in DOMAIN results[t] : results[t][i] = t
  /\ Running(t) => turnResults = results[t] /\ workingSet = t
Survives(t) == pc[t] = "failed" => kind[t] = "structured" \/ reason[t] # "none"

TurnInv(t) ==
  /\ InPhase(t)
  /\ Survives(t)
  /\ Spends(t)
  /\ t \notin overlapped => Own(t) /\ Accounted(t)

AgentInv ==
  /\ AgentTypeOK
  /\ CallInv
  /\ OverlapInv
  /\ \A t \in Caller : TurnInv(t)

-----------------------------------------------------------------------------
(* The LLM client                                                            *)

\* The dearest reply is one, and no reply is dearer.
LEMMA DearestFacts ==
  ASSUME NEW t \in Caller
  PROVE  Dearest(t) \in Nat /\ \A c \in Cost[t] : c \in Nat /\ c <= Dearest(t)
<1>1. Cost[t] \subseteq Nat
  BY ClientAssumption
<1>2. \E c \in Cost[t] : \A d \in Cost[t] : d <= c
  BY ClientAssumption
<1>3. Dearest(t) \in Cost[t] /\ \A d \in Cost[t] : d <= Dearest(t)
  BY <1>2 DEF Dearest
<1> QED
  BY <1>1, <1>3

\* Products of naturals, as the bound on the work needs them.
LEMMA ProductFacts ==
  ASSUME NEW m \in Nat, NEW n \in Nat
  PROVE  /\ m * n \in Nat
         /\ (m + 1) * n = m * n + n
         /\ (2 + 2 * m) * n = 2 * n + 2 * (m * n)
OBVIOUS

\* They grow with their first factor.
LEMMA ProductGrows ==
  ASSUME NEW m \in Nat, NEW k \in Nat, NEW n \in Nat, m <= k
  PROVE  m * n <= k * n
OBVIOUS

ClientInv == ClientTypeOK /\ CallInv

\* A step of a call moves its caller only, from an await to an await or an end.
Moves(t) ==
  /\ at[t] \in Awaiting /\ at'[t] \in Awaiting \cup Ended
  /\ kind' = kind
  /\ \A u \in Caller \ {t} :
       /\ at'[u] = at[u] /\ corrective'[u] = corrective[u]
       /\ usage'[u] = usage[u] /\ billed'[u] = billed[u] /\ wasted'[u] = wasted[u]

\* What the caller's turn has paid changes by one reply at most: none, the answer,
\* one that structured_call discards, or the second of those, which it gives up on.
Outcome(t) ==
  \/ /\ at'[t] # "answer" /\ corrective'[t] = corrective[t]
     /\ usage'[t] = usage[t] /\ billed'[t] = billed[t] /\ wasted'[t] = wasted[t]
  \/ \E reply \in Cost[t] :
       /\ usage'[t] = reply /\ billed'[t] = billed[t] + reply
       /\ \/ /\ at'[t] = "answer"
             /\ wasted'[t] = wasted[t] /\ corrective'[t] = corrective[t]
          \/ /\ kind[t] = "structured" /\ at'[t] = "sent"
             /\ wasted'[t] = wasted[t] + reply /\ ~corrective[t] /\ corrective'[t]
          \/ /\ kind[t] = "structured" /\ at'[t] = "error"
             /\ wasted'[t] = wasted[t] /\ corrective'[t] = corrective[t]

\* Any step of a call keeps the client's invariant, and is of that form.
LEMMA CallStepFacts ==
  ASSUME ClientInv, NEW t \in Caller, CallStep(t)
  PROVE  ClientInv' /\ Moves(t) /\ Outcome(t)
<1> USE ClientAssumption DEF ClientInv, Awaiting, Ended, Goto, Await, Pay, callVars, moneyVars
<1>1. ASSUME NEW d \in Duration, NEW reply \in Cost[t], NEW valid \in BOOLEAN,
             Reply(t, d, reply, valid)
      PROVE  ClientInv' /\ Moves(t) /\ Outcome(t)
  <2>1. d \in Nat /\ reply \in Nat
    OBVIOUS
  <2>2. CASE valid
    <3>1. ClientTypeOK' /\ Moves(t)
      BY <1>1, <2>1, <2>2 DEF Reply, ClientTypeOK, Moves
    <3>2. CallInv'
      BY <1>1, <2>1, <2>2 DEF Reply, ClientTypeOK, CallInv
    <3>3. Outcome(t)
      BY <1>1, <2>1, <2>2 DEF Reply, ClientTypeOK, Outcome
    <3> QED
      BY <3>1, <3>2, <3>3
  <2>3. CASE ~valid /\ corrective[t]
    <3>1. ClientTypeOK' /\ Moves(t)
      BY <1>1, <2>1, <2>3 DEF Reply, ClientTypeOK, Moves
    <3>2. CallInv'
      BY <1>1, <2>1, <2>3 DEF Reply, ClientTypeOK, CallInv
    <3>3. Outcome(t)
      BY <1>1, <2>1, <2>3 DEF Reply, ClientTypeOK, Outcome
    <3> QED
      BY <3>1, <3>2, <3>3
  <2>4. CASE ~valid /\ ~corrective[t]
    <3>1. ClientTypeOK' /\ Moves(t)
      <4>1. /\ billed' \in [Caller -> Nat] /\ wasted' \in [Caller -> Nat] /\ sent' \in [Caller -> Nat]
            /\ usage' \in [Caller -> Nat] /\ elapsed' \in [Caller -> 0..Deadline]
        BY <1>1, <2>1, <2>4 DEF Reply, ClientTypeOK
      <4>2. /\ at' \in [Caller -> {"idle"} \cup Awaiting \cup Ended]
            /\ attempt' \in [Caller -> 0..MaxRetries]
            /\ UNCHANGED <<kind, shown>>
        BY <1>1, <2>4 DEF Reply, ClientTypeOK
      <4>3. corrective' \in [Caller -> BOOLEAN]
        <5>1. corrective' = [corrective EXCEPT ![t] = TRUE]
          BY <1>1, <2>4 DEF Reply
        <5> QED
          BY <5>1 DEF ClientTypeOK
      <4>4. Moves(t)
        BY <1>1, <2>4 DEF Reply, ClientTypeOK, Moves
      <4> QED
        BY <4>1, <4>2, <4>3, <4>4 DEF ClientTypeOK
    <3>2. CallInv'
      BY <1>1, <2>1, <2>4 DEF Reply, ClientTypeOK, CallInv
    <3>3. Outcome(t)
      BY <1>1, <2>1, <2>4 DEF Reply, ClientTypeOK, Outcome
    <3> QED
      BY <3>1, <3>2, <3>3
  <2> QED
    BY <2>2, <2>3, <2>4
<1>2. ASSUME NEW d \in Duration, NEW reply \in Cost[t], StreamEnds(t, d, reply)
      PROVE  ClientInv' /\ Moves(t) /\ Outcome(t)
  <2>1. ClientTypeOK' /\ Moves(t)
    BY <1>2 DEF StreamEnds, ClientTypeOK, Moves
  <2>2. CallInv'
    BY <1>2 DEF StreamEnds, ClientTypeOK, CallInv
  <2>3. Outcome(t)
    BY <1>2 DEF StreamEnds, ClientTypeOK, Outcome
  <2> QED
    BY <2>1, <2>2, <2>3
<1>3. ASSUME NEW d \in Duration, Refused(t, d) \/ Fails(t, d) \/ Chunk(t, d) \/ StreamBreaks(t, d)
      PROVE  ClientInv' /\ Moves(t) /\ Outcome(t)
  <2> USE DEF Refused, Fails, AttemptsLeft, Chunk, StreamBreaks
  <2>1. ClientTypeOK'
    <3>1. CASE Refused(t, d) \/ StreamBreaks(t, d)
      BY <3>1 DEF ClientTypeOK
    <3>2. CASE Fails(t, d)
      BY <3>2 DEF ClientTypeOK
    <3>3. CASE Chunk(t, d)
      BY <3>3 DEF ClientTypeOK
    <3> QED
      BY <1>3, <3>1, <3>2, <3>3
  <2>2. Moves(t)
    BY <1>3 DEF ClientTypeOK, Moves
  <2>3. CallInv'
    BY <1>3 DEF ClientTypeOK, CallInv
  <2>4. Outcome(t)
    BY <1>3 DEF ClientTypeOK, Outcome
  <2> QED
    BY <2>1, <2>2, <2>3, <2>4
<1>4. ASSUME NEW d \in {0, 1}, Wake(t, d) \/ Cancel(t)
      PROVE  ClientInv' /\ Moves(t) /\ Outcome(t)
  <2> USE DEF Wake, Cancel
  <2>1. ClientTypeOK'
    <3>1. CASE Wake(t, d)
      BY <3>1 DEF ClientTypeOK, CallInv
    <3>2. CASE Cancel(t)
      BY <3>2 DEF ClientTypeOK
    <3> QED
      BY <1>4, <3>1, <3>2
  <2>2. Moves(t)
    BY <1>4 DEF ClientTypeOK, Moves
  <2>3. CallInv'
    BY <1>4 DEF ClientTypeOK, CallInv
  <2>4. Outcome(t)
    BY <1>4 DEF ClientTypeOK, Outcome
  <2> QED
    BY <2>1, <2>2, <2>3, <2>4
<1> QED
  BY <1>1, <1>2, <1>3, <1>4 DEF CallStep

\* A call begins with one request, whatever the last one left behind.
LEMMA BeginFacts ==
  ASSUME ClientInv, NEW t \in Caller, NEW method \in {"call", "structured", "stream"},
         BeginCall(t, method), UNCHANGED <<moneyVars, elapsed>>
  PROVE  ClientInv'
<1> USE ClientAssumption DEF ClientInv, BeginCall, Awaiting, Ended, moneyVars
<1>1. ClientTypeOK'
  BY DEF ClientTypeOK
<1>2. CallInv'
  BY DEF ClientTypeOK, CallInv
<1> QED
  BY <1>1, <1>2

\* Leaving run forgets the call.
LEMMA LeaveFacts ==
  ASSUME ClientInv, NEW t \in Caller, Leave(t)
  PROVE  ClientInv'
<1> USE ClientAssumption DEF ClientInv, Leave, Goto, Awaiting, Ended
<1>1. ClientTypeOK'
  BY DEF ClientTypeOK
<1>2. CallInv'
  BY DEF ClientTypeOK, CallInv
<1> QED
  BY <1>1, <1>2

-----------------------------------------------------------------------------
(* The loop                                                                  *)

\* The types of the loop's own variables.
LoopTypeOK ==
  /\ pc \in [Caller -> {"idle", "plan", "sql", "land", "answered", "landed",
                        "failed", "cancelled"}]
  /\ step \in [Caller -> 0..MaxSteps]
  /\ tokens \in [Caller -> Nat]
  /\ calls \in [Caller -> 0..MaxSteps]
  /\ results \in [Caller -> Seq(Caller)]
  /\ workingSet \in Caller \cup {NoTurn}
  /\ turnResults \in Seq(Caller)
  /\ sqlTokens \in Nat
  /\ overlapped \subseteq Caller
  /\ reason \in [Caller -> {"none", "answered", "step_budget", "time_budget",
                            "token_budget"}]

\* The type invariant has the client's part and the loop's, now and after a step.
LEMMA TypeParts == AgentTypeOK <=> ClientTypeOK /\ LoopTypeOK
BY DEF AgentTypeOK, LoopTypeOK

\* The same of the next state.
LEMMA TypePartsNext == AgentTypeOK' <=> ClientTypeOK' /\ LoopTypeOK'
BY DEF AgentTypeOK, LoopTypeOK

\* Nothing has run yet.
LEMMA AgentInit == LoopInit => AgentInv
<1> SUFFICES ASSUME LoopInit PROVE AgentInv
  OBVIOUS
<1> USE ClientAssumption, LoopAssumption DEF LoopInit, ClientInit
<1>1. ClientTypeOK
  BY DEF ClientTypeOK, Awaiting, Ended
<1>2. LoopTypeOK
  <2>1. results \in [Caller -> Seq(Caller)] /\ turnResults \in Seq(Caller)
    OBVIOUS
  <2>2. step \in [Caller -> 0..MaxSteps] /\ calls \in [Caller -> 0..MaxSteps]
    OBVIOUS
  <2> QED
    BY <2>1, <2>2 DEF LoopTypeOK
<1>3. CallInv
  <2> SUFFICES ASSUME NEW c \in Caller
               PROVE  /\ at[c] = "idle" /\ corrective[c] = FALSE
                      /\ sent[c] <= attempt[c] + 1 + (IF corrective[c] THEN MaxRetries + 1 ELSE 0)
    BY DEF CallInv
  <2>1. at[c] = "idle" /\ sent[c] = 0 /\ attempt[c] = 0 /\ corrective[c] = FALSE
    OBVIOUS
  <2>2. (IF corrective[c] THEN MaxRetries + 1 ELSE 0) = 0
    BY ONLY <2>1
  <2> QED
    BY ONLY <2>1, <2>2
<1>4. OverlapInv
  BY DEF OverlapInv, Running
<1>5. ASSUME NEW t \in Caller PROVE TurnInv(t)
  <2>1. InPhase(t) /\ Survives(t)
    BY DEF InPhase, Survives, Running, Fresh
  <2>2. Own(t) /\ Accounted(t)
    BY DEF Own, Accounted, Running
  <2>3. MaxSteps * Dearest(t) \in Nat /\ Dearest(t) \in Nat
    BY DearestFacts, ProductFacts
  <2>4. Spends(t)
    BY <2>3 DEF Spends
  <2> QED
    BY <2>1, <2>2, <2>4 DEF TurnInv
<1> QED
  BY <1>1, <1>2, <1>3, <1>4, <1>5, TypeParts DEF AgentInv

\* A step of one investigation leaves the locals of the others alone.
Frame(t) ==
  \A u \in Caller \ {t} :
    /\ pc'[u] = pc[u] /\ step'[u] = step[u] /\ tokens'[u] = tokens[u]
    /\ calls'[u] = calls[u] /\ results'[u] = results[u] /\ reason'[u] = reason[u]
    /\ at'[u] = at[u] /\ kind'[u] = kind[u] /\ corrective'[u] = corrective[u]
    /\ usage'[u] = usage[u] /\ billed'[u] = billed[u] /\ wasted'[u] = wasted[u]

\* Whoever runs beside it is on record.
Recorded(t) ==
  /\ overlapped \subseteq overlapped'
  /\ \A u \in Caller \ {t} : Running(u) => u \in overlapped' /\ t \in overlapped'

\* So the others keep their invariants, whatever happens to the agent's fields.
LEMMA OthersKept ==
  ASSUME AgentInv, NEW t \in Caller, Frame(t), Recorded(t)
  PROVE  OverlapInv' /\ \A u \in Caller \ {t} : TurnInv(u)'
<1>1. OverlapInv'
  BY DEF AgentInv, OverlapInv, Running, Frame, Recorded
<1>2. ASSUME NEW u \in Caller \ {t} PROVE TurnInv(u)'
  <2>1. TurnInv(u) /\ (Running(u)' <=> Running(u)) /\ (u \notin overlapped' => u \notin overlapped /\ ~Running(u))
    BY DEF AgentInv, Frame, Recorded, Running
  <2>2. InPhase(u)' /\ Survives(u)'
    BY <2>1 DEF TurnInv, InPhase, Survives, Fresh, Frame
  <2>3. Spends(u)'
    BY <2>1 DEF TurnInv, Spends, Uncounted, Discarded, Frame
  <2>4. u \notin overlapped' => Own(u)' /\ Accounted(u)'
    <3> SUFFICES ASSUME u \notin overlapped' PROVE Own(u)' /\ Accounted(u)'
      OBVIOUS
    <3>1. Own(u) /\ Accounted(u) /\ ~Running(u) /\ ~Running(u)' /\ pc'[u] # "sql"
      BY <2>1 DEF TurnInv, Running
    <3> QED
      BY <3>1 DEF Own, Accounted, Frame
  <2> QED
    BY <2>2, <2>3, <2>4 DEF TurnInv
<1> QED
  BY <1>1, <1>2

\* An investigation that is running already is on record with the others.
LEMMA RunningRecorded ==
  ASSUME AgentInv, NEW t \in Caller, Running(t), UNCHANGED overlapped
  PROVE  Recorded(t)
BY DEF AgentInv, OverlapInv, Recorded

\* Values at one investigation.
LEMMA ValueTypes ==
  ASSUME AgentTypeOK, NEW t \in Caller
  PROVE  /\ tokens[t] \in Nat /\ sqlTokens \in Nat /\ calls[t] \in 0..MaxSteps /\ step[t] \in 0..MaxSteps
         /\ billed[t] \in Nat /\ wasted[t] \in Nat /\ usage[t] \in Nat /\ corrective[t] \in BOOLEAN
         /\ MaxSteps \in Nat /\ TokenBudget \in Nat /\ Dearest(t) \in Nat
         /\ \A reply \in Cost[t] : reply \in Nat /\ reply <= Dearest(t)
         /\ calls[t] * Dearest(t) \in Nat /\ MaxSteps * Dearest(t) \in Nat
         /\ calls[t] * Dearest(t) <= MaxSteps * Dearest(t)
<1>1. Dearest(t) \in Nat /\ \A reply \in Cost[t] : reply \in Nat /\ reply <= Dearest(t)
  BY DearestFacts
<1>2. MaxSteps \in Nat /\ TokenBudget \in Nat
  BY LoopAssumption
<1>3. /\ tokens[t] \in Nat /\ sqlTokens \in Nat /\ calls[t] \in 0..MaxSteps /\ step[t] \in 0..MaxSteps
      /\ billed[t] \in Nat /\ wasted[t] \in Nat /\ usage[t] \in Nat
  BY DEF AgentTypeOK, ClientTypeOK
<1>4. corrective[t] \in BOOLEAN
  BY DEF AgentTypeOK, ClientTypeOK
<1> QED
  BY <1>1, <1>2, <1>3, <1>4, ProductFacts, ProductGrows

\* A step that is under way is within the budget, with all it may cost.
LEMMA StepLeft ==
  ASSUME AgentTypeOK, NEW t \in Caller, InPhase(t), pc[t] \in {"plan", "sql"}
  PROVE  /\ calls[t] + 1 <= MaxSteps
         /\ (calls[t] + 1) * Dearest(t) = calls[t] * Dearest(t) + Dearest(t)
         /\ calls[t] * Dearest(t) + Dearest(t) <= MaxSteps * Dearest(t)
<1>1. calls[t] + 1 <= MaxSteps /\ calls[t] \in Nat /\ Dearest(t) \in Nat /\ MaxSteps \in Nat
  BY ValueTypes DEF InPhase
<1>2. (calls[t] + 1) * Dearest(t) = calls[t] * Dearest(t) + Dearest(t)
  BY ONLY <1>1, ProductFacts
<1>3. (calls[t] + 1) * Dearest(t) <= MaxSteps * Dearest(t)
  <2>1. calls[t] + 1 \in Nat
    BY <1>1
  <2> QED
    BY ONLY <1>1, <2>1, ProductGrows
<1> QED
  BY ONLY <1>1, <1>2, <1>3

\* A step of a call under way: the reply is uncounted, discarded, or lost.
LEMMA LlmKeeps ==
  ASSUME AgentInv, NEW t \in Caller, LlmStep(t)
  PROVE  AgentInv'
<1>1. ClientInv' /\ Moves(t) /\ Outcome(t)
  BY CallStepFacts, TypeParts DEF AgentInv, ClientInv, LlmStep
<1>2. UNCHANGED <<pc, step, tokens, calls, results, workingSet, turnResults, sqlTokens, overlapped, reason>>
  BY DEF LlmStep, loopVars, traceVars, agentVars
<1>3. Running(t) /\ Running(t)' /\ TurnInv(t)
  BY <1>1, <1>2 DEF AgentInv, TurnInv, InPhase, Moves, Running, Awaiting
<1>4. OverlapInv' /\ \A u \in Caller \ {t} : TurnInv(u)'
  <2>1. Frame(t)
    BY <1>1, <1>2 DEF Frame, Moves
  <2> QED
    BY <2>1, <1>2, <1>3, RunningRecorded, OthersKept
<1>5. InPhase(t)' /\ Survives(t)'
  BY <1>1, <1>2, <1>3 DEF TurnInv, InPhase, Survives, Fresh, Moves, Running, Awaiting, Ended
<1>v. AgentTypeOK
  BY DEF AgentInv
<1>6. t \notin overlapped' => Own(t)' /\ Accounted(t)'
  <2> SUFFICES ASSUME t \notin overlapped PROVE Own(t)' /\ Accounted(t)'
    BY <1>2
  <2>1. Own(t) /\ Accounted(t) /\ InPhase(t)
    BY <1>3 DEF TurnInv
  <2>2. Own(t)'
    BY <2>1, <1>2, <1>3 DEF Own
  <2>3. tokens[t] + sqlTokens + wasted[t] = billed[t]
    BY ONLY <2>1, <1>1, <1>3, <1>v, ValueTypes DEF Accounted, Moves, Uncounted, Awaiting
  <2> QED
    BY ONLY <2>1, <2>2, <2>3, <1>1, <1>2, <1>3, <1>v, ValueTypes
    DEF Outcome, InPhase, Accounted, Uncounted, Running, Awaiting
<1>7. Spends(t)'
  <2>1. pc[t] \in {"plan", "sql"} => calls[t] * Dearest(t) + Dearest(t) <= MaxSteps * Dearest(t)
    BY <1>3, <1>v, StepLeft DEF TurnInv
  <2> QED
    BY ONLY <2>1, <1>1, <1>2, <1>3, <1>v, ValueTypes
    DEF Outcome, Moves, TurnInv, InPhase, Spends, Uncounted, Discarded, Running, Awaiting, Ended
<1>8. LoopTypeOK'
  BY <1>2, <1>v DEF AgentTypeOK, LoopTypeOK
<1> QED
  BY ONLY <1>1, <1>4, <1>5, <1>6, <1>7, <1>8, TypePartsNext DEF AgentInv, TurnInv, ClientInv

\* An investigation begins: it takes the agent over, and is on record with those
\* that it takes it from.
LEMMA StartKeeps ==
  ASSUME AgentInv, NEW t \in Caller, Start(t)
  PROVE  AgentInv'
<1> USE DEF Start, To, StartFields, BeginCall, moneyVars
<1>v. AgentTypeOK /\ TurnInv(t)
  BY DEF AgentInv
<1>1. ClientInv'
  BY BeginFacts, TypeParts DEF AgentInv, ClientInv, moneyVars
<1>2. LoopTypeOK'
  <2>1. pc' \in [Caller -> {"idle", "plan", "sql", "land", "answered", "landed", "failed", "cancelled"}]
    BY <1>v DEF AgentTypeOK
  <2>2. step' \in [Caller -> 0..MaxSteps] /\ turnResults' \in Seq(Caller)
    BY <1>v, LoopAssumption DEF AgentTypeOK
  <2>3. overlapped' \subseteq Caller
    BY <1>v DEF AgentTypeOK
  <2> QED
    BY <2>1, <2>2, <2>3, <1>v DEF LoopTypeOK, AgentTypeOK
<1>3. /\ pc'[t] = "plan" /\ step'[t] = 1 /\ kind'[t] = "structured" /\ at'[t] = "sent"
      /\ corrective'[t] = FALSE
      /\ UNCHANGED <<tokens, calls, results, reason, usage, billed, wasted>>
      /\ Running(t)' /\ Fresh(t)
  BY <1>v DEF AgentTypeOK, ClientTypeOK, TurnInv, InPhase, Running
<1>4. Frame(t) /\ Recorded(t)
  BY <1>v DEF AgentTypeOK, ClientTypeOK, Frame, Recorded, Running
<1>5. OverlapInv' /\ \A u \in Caller \ {t} : TurnInv(u)'
  BY <1>4, OthersKept
<1>6. InPhase(t)' /\ Survives(t)'
  BY ONLY <1>3 DEF InPhase, Survives, Fresh
<1>7. t \notin overlapped' => Own(t)' /\ Accounted(t)'
  BY <1>3, <1>v, ValueTypes DEF Own, Accounted, Fresh, Uncounted
<1>8. Spends(t)'
  <2>1. Discarded(t)' = 0 /\ Uncounted(t)' = 0
    BY ONLY <1>3 DEF Discarded, Uncounted
  <2>2. tokens'[t] = 0 /\ billed'[t] = 0 /\ calls'[t] = calls[t] /\ pc'[t] = "plan"
    BY ONLY <1>3 DEF Fresh
  <2> QED
    BY ONLY <2>1, <2>2, <1>v, ValueTypes DEF Spends
<1> QED
  BY ONLY <1>1, <1>2, <1>5, <1>6, <1>7, <1>8, TypePartsNext DEF AgentInv, TurnInv, ClientInv

\* run_sql: the planning reply is counted, the generator's is asked for.
LEMMA AskKeeps ==
  ASSUME AgentInv, NEW t \in Caller, AskSql(t)
  PROVE  AgentInv'
<1> USE DEF AskSql, Planned, CountPlan, To, BeginCall, moneyVars, agentVars
<1>v. AgentTypeOK /\ TurnInv(t)
  BY DEF AgentInv
<1>1. ClientInv'
  BY BeginFacts, TypeParts DEF AgentInv, ClientInv, moneyVars
<1>2. LoopTypeOK'
  <2>1. pc' \in [Caller -> {"idle", "plan", "sql", "land", "answered", "landed", "failed", "cancelled"}]
    BY <1>v DEF AgentTypeOK
  <2>2. tokens' \in [Caller -> Nat]
    <3>1. tokens' = [tokens EXCEPT ![t] = tokens[t] + usage[t]] /\ tokens \in [Caller -> Nat]
      BY <1>v DEF AgentTypeOK
    <3>2. tokens[t] + usage[t] \in Nat
      BY <1>v, ValueTypes
    <3> QED
      BY ONLY <3>1, <3>2
  <2> QED
    BY <2>1, <2>2, <1>v DEF LoopTypeOK, AgentTypeOK
<1>3. /\ pc[t] = "plan" /\ at[t] = "answer" /\ Running(t)
      /\ pc'[t] = "sql" /\ kind'[t] = "call" /\ at'[t] = "sent"
      /\ tokens'[t] = tokens[t] + usage[t]
      /\ UNCHANGED <<step, calls, results, reason, usage, billed, wasted, workingSet, turnResults, sqlTokens, overlapped>>
      /\ Running(t)'
  BY <1>v DEF AgentTypeOK, ClientTypeOK, Running
<1>4. Frame(t)
  BY <1>v DEF AgentTypeOK, ClientTypeOK, Frame
<1>5. OverlapInv' /\ \A u \in Caller \ {t} : TurnInv(u)'
  BY <1>3, <1>4, RunningRecorded, OthersKept
<1>6. InPhase(t)' /\ Survives(t)'
  BY ONLY <1>3, <1>v DEF TurnInv, InPhase, Survives
<1>7. t \notin overlapped' => Own(t)' /\ Accounted(t)'
  BY ONLY <1>3, <1>v, ValueTypes DEF TurnInv, Own, Accounted, Uncounted, Awaiting
<1>8. Spends(t)'
  <2>1. usage[t] <= Dearest(t)
    BY <1>3, <1>v, ValueTypes DEF AgentInv, CallInv
  <2> QED
    BY ONLY <2>1, <1>3, <1>v, ValueTypes DEF TurnInv, Spends, Uncounted, Discarded
<1> QED
  BY ONLY <1>1, <1>2, <1>5, <1>6, <1>7, <1>8, TypePartsNext DEF AgentInv, TurnInv, ClientInv

\* The ways out of run.
LEMMA EndKeeps ==
  ASSUME AgentInv, NEW t \in Caller,
         AnswerStep(t) \/ Landed(t) \/ RunRaises(t) \/ RunCancelled(t)
  PROVE  AgentInv'
<1> DEFINE paid == tokens[t] + usage[t] + sqlTokens
<1>v. AgentTypeOK /\ TurnInv(t)
  BY DEF AgentInv
<1>p. PICK end \in {"answered", "landed", "failed", "cancelled"} : pc' = [pc EXCEPT ![t] = end]
  BY DEF AnswerStep, Landed, RunRaises, RunCancelled, To
<1>l. Leave(t) /\ Running(t)
  BY DEF AnswerStep, Landed, RunRaises, RunCancelled, Planned, Running
<1>r. \/ tokens' = [tokens EXCEPT ![t] = paid] /\ reason' \in {reason, [reason EXCEPT ![t] = "answered"]}
      \/ tokens' = tokens /\ reason' = reason
  BY DEF AnswerStep, Landed, RunRaises, RunCancelled, traceVars
<1>u. UNCHANGED <<kind, billed, wasted, step, calls, results, workingSet, turnResults, sqlTokens, overlapped>>
  BY <1>l DEF Leave, AnswerStep, Landed, RunRaises, RunCancelled, traceVars, agentVars
<1>f. LoopTypeOK /\ ClientInv
  BY <1>v, TypeParts DEF AgentInv, ClientInv
<1>1. ClientInv'
  BY ONLY <1>f, <1>l, t \in Caller, LeaveFacts
<1>2. LoopTypeOK'
  <2>1. paid \in Nat
    BY ONLY <1>v, t \in Caller, ValueTypes
  <2> HIDE DEF paid
  <2>2. pc' \in [Caller -> {"idle", "plan", "sql", "land", "answered", "landed", "failed", "cancelled"}]
    BY ONLY <1>f, <1>p, t \in Caller DEF LoopTypeOK
  <2>3. tokens' \in [Caller -> Nat]
    BY ONLY <1>f, <1>r, <2>1, t \in Caller DEF LoopTypeOK
  <2>4. reason' \in [Caller -> {"none", "answered", "step_budget", "time_budget", "token_budget"}]
    BY ONLY <1>f, <1>r, t \in Caller DEF LoopTypeOK
  <2> QED
    BY ONLY <1>f, <1>u, <2>2, <2>3, <2>4 DEF LoopTypeOK
<1>3. /\ Running(t) /\ pc'[t] \in {"answered", "landed", "failed", "cancelled"} /\ at'[t] = "idle"
      /\ UNCHANGED <<kind, step, calls, results, billed, wasted, workingSet, turnResults, sqlTokens, overlapped>>
      /\ ~Running(t)'
  <2>1. pc'[t] = end /\ at'[t] = "idle"
    BY ONLY <1>f, <1>p, <1>l, t \in Caller DEF LoopTypeOK, ClientInv, ClientTypeOK, Leave, Goto
  <2> QED
    BY ONLY <1>u, <1>l, <1>p, <2>1 DEF Running
<1>4. Frame(t)
  <2>1. \A u \in Caller \ {t} : pc'[u] = pc[u] /\ tokens'[u] = tokens[u] /\ reason'[u] = reason[u]
    BY ONLY <1>f, <1>p, <1>r, t \in Caller DEF LoopTypeOK
  <2>2. \A u \in Caller \ {t} : at'[u] = at[u] /\ corrective'[u] = corrective[u] /\ usage'[u] = usage[u]
    BY ONLY <1>f, <1>l, t \in Caller DEF ClientInv, ClientTypeOK, Leave, Goto
  <2> QED
    BY ONLY <1>u, <2>1, <2>2 DEF Frame
<1>5. OverlapInv' /\ \A u \in Caller \ {t} : TurnInv(u)'
  BY <1>3, <1>4, RunningRecorded, OthersKept
<1>6. InPhase(t)'
  BY ONLY <1>3 DEF InPhase
<1>7. Survives(t)'
  <2>1. CASE AnswerStep(t) \/ Landed(t) \/ RunCancelled(t)
    <3>1. pc'[t] # "failed"
      BY <2>1, <1>f DEF AnswerStep, Landed, RunCancelled, To, LoopTypeOK
    <3> QED
      BY <3>1 DEF Survives
  <2>2. CASE RunRaises(t)
    <3>1. pc[t] \in {"plan", "land"} /\ kind' = kind /\ reason' = reason
      BY <2>2, <1>u DEF RunRaises, traceVars
    <3> QED
      BY ONLY <3>1, <1>v DEF TurnInv, InPhase, Survives
  <2> QED
    BY <2>1, <2>2
<1>8. t \notin overlapped' => Own(t)' /\ Accounted(t)'
  <2>1. pc'[t] \in {"answered", "landed"} =>
          at[t] = "answer" /\ tokens'[t] = tokens[t] + usage[t] + sqlTokens
    <3>1. pc \in [Caller -> {"idle", "plan", "sql", "land", "answered", "landed", "failed", "cancelled"}]
          /\ tokens \in [Caller -> Nat]
      BY ONLY <1>f DEF LoopTypeOK
    <3>2. CASE AnswerStep(t) \/ Landed(t)
      BY <3>1, <3>2 DEF AnswerStep, Landed, Planned
    <3>3. CASE RunRaises(t) \/ RunCancelled(t)
      BY <3>1, <3>3 DEF RunRaises, RunCancelled, To
    <3> QED
      BY <3>2, <3>3
  <2> QED
    BY ONLY <2>1, <1>3, <1>v, ValueTypes DEF TurnInv, Own, Accounted, Uncounted, Running, Awaiting
<1>9. Spends(t)'
  BY ONLY <1>3, <1>v DEF TurnInv, Spends
<1> QED
  BY ONLY <1>1, <1>2, <1>5, <1>6, <1>7, <1>8, <1>9, TypePartsNext DEF AgentInv, TurnInv, ClientInv

-----------------------------------------------------------------------------
(* The end of a step                                                         *)

\* What the tools have in common: what they found, and what they cost.
Gathers(t) ==
  /\ UNCHANGED <<workingSet, overlapped, moneyVars, elapsed>>
  /\ \E found \in Seq(Caller) :
       /\ Observe(t, found)
       /\ (t \notin overlapped => \A i \in DOMAIN found : found[i] = t)
  /\ \/ /\ pc[t] = "plan" /\ at[t] = "answer"
        /\ tokens' = [tokens EXCEPT ![t] = @ + usage[t]] /\ sqlTokens' = sqlTokens
     \/ /\ pc[t] = "sql" /\ at[t] = "answer"
        /\ tokens' = tokens /\ sqlTokens' = sqlTokens + usage[t]
     \/ /\ pc[t] = "sql" /\ at[t] = "error"
        /\ tokens' = tokens /\ sqlTokens' = sqlTokens
  /\ Iterate(t)

\* Whatever the tool: an investigation that is alone finds only results of its
\* own, those that use_previous_result can reach included.
LEMMA ToolsGather ==
  ASSUME AgentInv, NEW t \in Caller,
         \/ Lookup(t) \/ RunView(t) \/ SqlFailed(t)
         \/ \E i \in DOMAIN Pool : RefineResult(t, i)
         \/ \E found \in {<<>>, <<t>>} : SqlAnswered(t, found)
  PROVE  Gathers(t)
<1> USE DEF Planned, CountPlan
<1>1. <<>> \in Seq(Caller) /\ <<t>> \in Seq(Caller)
      /\ (\A i \in DOMAIN <<>> : <<>>[i] = t) /\ (\A i \in DOMAIN <<t>> : <<t>>[i] = t)
  OBVIOUS
<1>2. CASE Lookup(t)
  BY <1>1, <1>2 DEF Lookup, Gathers
<1>3. CASE RunView(t)
  BY <1>1, <1>3 DEF RunView, Gathers
<1>4. CASE SqlFailed(t)
  BY <1>1, <1>4 DEF SqlFailed, Gathers
<1>5. ASSUME NEW i \in DOMAIN Pool, RefineResult(t, i)
      PROVE  Gathers(t)
  <2>1. turnResults \in Seq(Caller) /\ workingSet \in Caller \cup {NoTurn} /\ Running(t)
    BY <1>5 DEF AgentInv, AgentTypeOK, RefineResult, Running
  <2>2. /\ Pool[i] \in Caller
        /\ Pool[i] = workingSet \/ \E j \in DOMAIN turnResults : Pool[i] = turnResults[j]
    BY <2>1 DEF Pool
  <2>3. t \notin overlapped => Pool[i] = t
    BY <2>1, <2>2 DEF AgentInv, TurnInv, Own
  <2>4. <<Pool[i]>> \in Seq(Caller) /\ \A j \in DOMAIN <<Pool[i]>> : <<Pool[i]>>[j] = Pool[i]
    BY <2>2
  <2> QED
    BY <1>5, <2>3, <2>4 DEF RefineResult, Gathers
<1>6. ASSUME NEW found \in {<<>>, <<t>>}, SqlAnswered(t, found)
      PROVE  Gathers(t)
  BY <1>1, <1>6 DEF SqlAnswered, Gathers
<1> QED
  BY <1>2, <1>3, <1>4, <1>5, <1>6

\* A planning call is counted: its reply is at most the dearest, and so is the reply
\* before it that structured_call discarded.
LEMMA PlanSum ==
  ASSUME NEW budget \in Nat, NEW dear \in Nat, NEW earlier \in Nat, NEW counted \in Nat,
         NEW discarded \in Nat, NEW use \in Nat, NEW paid \in Nat,
         counted <= budget, use <= dear, discarded <= dear,
         paid <= counted + 2 * earlier + discarded + use
  PROVE  /\ counted + use <= budget + dear
         /\ paid <= counted + use + 2 * earlier + 2 * dear
OBVIOUS

\* Two lists of one turn's results make a list of its results.
LEMMA ConcatFacts ==
  ASSUME NEW S, NEW q \in Seq(S), NEW r \in Seq(S)
  PROVE  /\ q \o r \in Seq(S)
         /\ \A e : (\A i \in DOMAIN q : q[i] = e) /\ (\A i \in DOMAIN r : r[i] = e)
              => \A i \in DOMAIN (q \o r) : (q \o r)[i] = e
OBVIOUS

\* A step is over: its tool's find is gathered, and the next step's call begins, or
\* the landing's.
LEMMA GatherKeeps ==
  ASSUME AgentInv, NEW t \in Caller, Gathers(t)
  PROVE  AgentInv'
<1>v. AgentTypeOK /\ TurnInv(t) /\ CallInv
  BY DEF AgentInv
<1>1. PICK found \in Seq(Caller) :
        /\ Observe(t, found)
        /\ t \notin overlapped => \A i \in DOMAIN found : found[i] = t
  BY DEF Gathers
<1>2. /\ UNCHANGED <<workingSet, overlapped, usage, billed, wasted, elapsed>>
      /\ pc[t] \in {"plan", "sql"} /\ at[t] \in {"answer", "error"} /\ Running(t)
      /\ t \in Caller
  BY DEF Gathers, moneyVars, Running
<1>3. /\ tokens' \in [Caller -> Nat] /\ sqlTokens' \in Nat
      /\ \A u \in Caller \ {t} : tokens'[u] = tokens[u]
      /\ \/ pc[t] = "plan" /\ at[t] = "answer" /\ tokens'[t] = tokens[t] + usage[t] /\ sqlTokens' = sqlTokens
         \/ pc[t] = "sql" /\ at[t] = "answer" /\ tokens'[t] = tokens[t] /\ sqlTokens' = sqlTokens + usage[t]
         \/ pc[t] = "sql" /\ at[t] = "error" /\ tokens'[t] = tokens[t] /\ sqlTokens' = sqlTokens
  <2>1. tokens \in [Caller -> Nat] /\ tokens[t] + usage[t] \in Nat /\ sqlTokens + usage[t] \in Nat /\ sqlTokens \in Nat
    <3>1. tokens \in [Caller -> Nat]
      BY <1>v DEF AgentTypeOK
    <3> QED
      BY ONLY <1>v, <3>1, <1>2, ValueTypes
  <2> QED
    BY ONLY <2>1, <1>2, Gathers(t) DEF Gathers
<1>4. /\ calls'[t] = calls[t] + 1 /\ calls' \in [Caller -> 0..MaxSteps]
      /\ results'[t] = results[t] \o found /\ turnResults' = turnResults \o found
      /\ results' \in [Caller -> Seq(Caller)] /\ turnResults' \in Seq(Caller)
      /\ \A u \in Caller \ {t} : calls'[u] = calls[u] /\ results'[u] = results[u]
  <2>1. calls[t] + 1 \in 0..MaxSteps
    <3>1. calls[t] + 1 <= MaxSteps
      BY ONLY <1>v, <1>2, StepLeft DEF TurnInv
    <3>2. calls[t] \in 0..MaxSteps /\ MaxSteps \in Nat
      BY ONLY <1>v, <1>2, ValueTypes
    <3> QED
      BY ONLY <3>1, <3>2
  <2>2. calls \in [Caller -> 0..MaxSteps] /\ results \in [Caller -> Seq(Caller)] /\ turnResults \in Seq(Caller)
    BY <1>v DEF AgentTypeOK
  <2>3. results[t] \o found \in Seq(Caller) /\ turnResults \o found \in Seq(Caller)
    BY <2>2
  <2> QED
    BY ONLY <2>1, <2>2, <2>3, <1>1, <1>2 DEF Observe
<1>5. /\ at'[t] \in {"sent", "streaming"} /\ corrective'[t] = FALSE
      /\ \A u \in Caller \ {t} : pc'[u] = pc[u] /\ step'[u] = step[u] /\ reason'[u] = reason[u]
                                 /\ at'[u] = at[u] /\ kind'[u] = kind[u] /\ corrective'[u] = corrective[u]
      /\ pc' \in [Caller -> {"idle", "plan", "sql", "land", "answered", "landed", "failed", "cancelled"}]
      /\ step' \in [Caller -> 0..MaxSteps]
      /\ reason' \in [Caller -> {"none", "answered", "step_budget", "time_budget", "token_budget"}]
      /\ \/ /\ pc'[t] = "plan" /\ kind'[t] = "structured" /\ step'[t] = step[t] + 1
            /\ tokens'[t] <= TokenBudget
         \/ /\ pc'[t] = "land" /\ kind'[t] # "structured" /\ reason'[t] # "none"
      /\ ClientInv'
  <2>0. Iterate(t) /\ UNCHANGED <<moneyVars, elapsed>>
    BY DEF Gathers
  <2>t. ClientInv /\ LoopTypeOK /\ step[t] \in 0..MaxSteps /\ TokenBudget \in Nat /\ tokens'[t] \in Nat
    BY ONLY <1>v, <1>2, <1>3, TypeParts, ValueTypes DEF ClientInv
  <2>1. CASE Exhausted(t) = "none"
    <3>1. step[t] # MaxSteps /\ ~(tokens'[t] > TokenBudget)
      BY <2>1 DEF Exhausted
    <3>2. step[t] + 1 \in 0..MaxSteps /\ tokens'[t] <= TokenBudget
      BY ONLY <3>1, <2>t, LoopAssumption
    <3>3. To(t, "plan") /\ step' = [step EXCEPT ![t] = @ + 1] /\ BeginCall(t, "structured") /\ reason' = reason
      BY <2>0, <2>1 DEF Iterate
    <3>4. ClientInv'
      BY ONLY <2>0, <2>t, <3>3, <1>2, BeginFacts
    <3> QED
      <4>1. /\ pc'[t] = "plan" /\ \A u \in Caller \ {t} : pc'[u] = pc[u]
            /\ pc' \in [Caller -> {"idle", "plan", "sql", "land", "answered", "landed", "failed", "cancelled"}]
        BY ONLY <3>3, <2>t, <1>2 DEF To, LoopTypeOK
      <4>2. /\ step'[t] = step[t] + 1 /\ \A u \in Caller \ {t} : step'[u] = step[u]
            /\ step' \in [Caller -> 0..MaxSteps]
        BY ONLY <3>2, <3>3, <2>t, <1>2 DEF LoopTypeOK
      <4>3. /\ at'[t] = "sent" /\ kind'[t] = "structured" /\ corrective'[t] = FALSE
            /\ \A u \in Caller \ {t} : at'[u] = at[u] /\ kind'[u] = kind[u] /\ corrective'[u] = corrective[u]
        BY ONLY <3>3, <2>t, <1>2 DEF BeginCall, ClientInv, ClientTypeOK
      <4> QED
        BY ONLY <4>1, <4>2, <4>3, <3>2, <3>3, <3>4, <2>t DEF LoopTypeOK
  <2>2. CASE Exhausted(t) # "none"
    <3>1. Exhausted(t) \in {"step_budget", "time_budget", "token_budget"}
      BY <2>2 DEF Exhausted
    <3>2. PICK method \in {"call", "stream"} : BeginCall(t, method)
      BY <2>0, <2>2 DEF Iterate
    <3>3. To(t, "land") /\ reason' = [reason EXCEPT ![t] = Exhausted(t)] /\ step' = step
      BY <2>0, <2>2 DEF Iterate
    <3>4. ClientInv'
      BY ONLY <2>0, <2>t, <3>2, <1>2, BeginFacts
    <3> QED
      <4>1. /\ pc'[t] = "land" /\ \A u \in Caller \ {t} : pc'[u] = pc[u]
            /\ pc' \in [Caller -> {"idle", "plan", "sql", "land", "answered", "landed", "failed", "cancelled"}]
        BY ONLY <3>3, <2>t, <1>2 DEF To, LoopTypeOK
      <4>2. /\ reason'[t] # "none" /\ \A u \in Caller \ {t} : reason'[u] = reason[u]
            /\ reason' \in [Caller -> {"none", "answered", "step_budget", "time_budget", "token_budget"}]
        BY ONLY <3>1, <3>3, <2>t, <1>2 DEF LoopTypeOK
      <4>3. /\ at'[t] \in {"sent", "streaming"} /\ kind'[t] # "structured" /\ corrective'[t] = FALSE
            /\ \A u \in Caller \ {t} : at'[u] = at[u] /\ kind'[u] = kind[u] /\ corrective'[u] = corrective[u]
        BY ONLY <3>2, <2>t, <1>2 DEF BeginCall, ClientInv, ClientTypeOK
      <4> QED
        BY ONLY <4>1, <4>2, <4>3, <3>3, <3>4, <2>t DEF LoopTypeOK
  <2> QED
    BY <2>1, <2>2
<1>6. OverlapInv' /\ \A u \in Caller \ {t} : TurnInv(u)'
  <2>1. Frame(t)
    BY ONLY <1>2, <1>3, <1>4, <1>5 DEF Frame
  <2> QED
    BY <2>1, <1>2, RunningRecorded, OthersKept
<1>7. LoopTypeOK'
  BY ONLY <1>v, <1>2, <1>3, <1>4, <1>5 DEF LoopTypeOK, AgentTypeOK
<1>8. InPhase(t)' /\ Survives(t)'
  BY ONLY <1>v, <1>2, <1>4, <1>5, ValueTypes DEF TurnInv, InPhase, Survives, Running
<1>9. t \notin overlapped' => Own(t)' /\ Accounted(t)'
  <2> SUFFICES ASSUME t \notin overlapped PROVE Own(t)' /\ Accounted(t)'
    BY <1>2
  <2>1. Own(t) /\ Accounted(t) /\ results[t] \in Seq(Caller)
    BY <1>v DEF TurnInv, AgentTypeOK
  <2>2. Own(t)'
    <3>1. turnResults = results[t] /\ workingSet = t /\ \A i \in DOMAIN results[t] : results[t][i] = t
      BY ONLY <2>1, <1>2 DEF Own
    <3>2. \A i \in DOMAIN found : found[i] = t
      BY <1>1
    <3>3. \A i \in DOMAIN (results[t] \o found) : (results[t] \o found)[i] = t
      BY ONLY <2>1, <3>1, <3>2, ConcatFacts, found \in Seq(Caller)
    <3> QED
      BY ONLY <3>1, <3>3, <1>2, <1>4 DEF Own
  <2>3. Accounted(t)'
    <3>1. tokens[t] + sqlTokens + Uncounted(t) + wasted[t] = billed[t]
      BY ONLY <2>1, <1>2 , <1>3 DEF Accounted, Awaiting
    <3>2. tokens'[t] + sqlTokens' + wasted[t] = billed[t]
      <4>1. Uncounted(t) = IF at[t] = "answer" THEN usage[t] ELSE 0
        BY ONLY <1>2 DEF Uncounted
      <4>2. /\ tokens[t] \in Nat /\ sqlTokens \in Nat /\ usage[t] \in Nat
            /\ wasted[t] \in Nat /\ billed[t] \in Nat
        BY ONLY <1>v, <1>2, ValueTypes
      <4> QED
        BY ONLY <3>1, <4>1, <4>2, <1>3
    <3>3. Uncounted(t)' = 0 /\ pc'[t] \notin {"answered", "landed"}
      BY ONLY <1>5 DEF Uncounted
    <3>4. tokens'[t] \in Nat /\ sqlTokens' \in Nat /\ wasted[t] \in Nat /\ billed[t] \in Nat
      BY ONLY <1>v, <1>2, <1>3, ValueTypes
    <3> QED
      BY ONLY <3>2, <3>3, <3>4, <1>2 DEF Accounted
  <2> QED
    BY <2>2, <2>3
<1>10. Spends(t)'
  <2>1. (calls[t] + 1) * Dearest(t) = calls[t] * Dearest(t) + Dearest(t)
    BY ONLY <1>v, <1>2, StepLeft DEF TurnInv
  <2>2. at[t] = "answer" => usage[t] <= Dearest(t)
    BY ONLY <1>v, <1>2, ValueTypes DEF CallInv
  <2>3. Discarded(t)' = 0 /\ Uncounted(t)' = 0
    BY ONLY <1>5 DEF Discarded, Uncounted
  <2>4. /\ pc'[t] \in {"plan", "land"} /\ calls'[t] = calls[t] + 1 /\ billed'[t] = billed[t]
        /\ pc'[t] = "plan" => tokens'[t] <= TokenBudget
    BY ONLY <1>2, <1>4, <1>5
  <2>5. /\ tokens'[t] <= TokenBudget + Dearest(t)
        /\ billed[t] <= tokens'[t] + 2 * (calls[t] * Dearest(t)) + 2 * Dearest(t)
        /\ billed[t] <= TokenBudget + 2 * Dearest(t) + 2 * (MaxSteps * Dearest(t))
    <3> DEFINE C == calls[t] * Dearest(t)
               M == MaxSteps * Dearest(t)
    <3>0. Spends(t)
      BY <1>v DEF TurnInv
    <3>1. /\ C \in Nat /\ M \in Nat /\ Dearest(t) \in Nat /\ TokenBudget \in Nat
          /\ tokens[t] \in Nat /\ billed[t] \in Nat /\ usage[t] \in Nat
      BY ONLY <1>v, <1>2, ValueTypes
    <3>2. pc[t] = "plan" => /\ tokens[t] <= TokenBudget
                            /\ billed[t] <= tokens[t] + 2 * C + Discarded(t) + Uncounted(t)
      BY ONLY <3>0 DEF Spends
    <3>3. pc[t] = "sql" => /\ tokens[t] <= TokenBudget + Dearest(t)
                           /\ billed[t] <= tokens[t] + 2 * C + Dearest(t) + Uncounted(t)
      BY ONLY <3>0 DEF Spends
    <3>4. billed[t] <= TokenBudget + 2 * Dearest(t) + 2 * M
      BY ONLY <3>0 DEF Spends
    <3>5. /\ at[t] = "answer" => Uncounted(t) = usage[t] /\ Discarded(t) \in Nat /\ Discarded(t) <= Dearest(t)
          /\ at[t] # "answer" => Uncounted(t) = 0
      BY ONLY <3>1 DEF Discarded, Uncounted
    <3> HIDE DEF C, M
    <3>6. /\ tokens'[t] <= TokenBudget + Dearest(t)
          /\ billed[t] <= tokens'[t] + 2 * C + 2 * Dearest(t)
      <4>1. CASE pc[t] = "plan"
        <5>1. tokens'[t] = tokens[t] + usage[t] /\ at[t] = "answer"
          BY ONLY <4>1, <1>3
        <5> QED
          <6>1. tokens[t] <= TokenBudget /\ usage[t] <= Dearest(t)
            BY ONLY <4>1, <5>1, <3>2, <2>2
          <6>2. /\ billed[t] <= tokens[t] + 2 * C + Discarded(t) + usage[t]
                /\ Discarded(t) \in Nat /\ Discarded(t) <= Dearest(t)
            BY ONLY <4>1, <5>1, <3>2, <3>5
          <6> QED
            <7>1. /\ tokens[t] + usage[t] <= TokenBudget + Dearest(t)
                  /\ billed[t] <= tokens[t] + usage[t] + 2 * C + 2 * Dearest(t)
              BY ONLY <6>1, <6>2, <3>1, PlanSum
            <7> QED
              BY ONLY <5>1, <7>1
      <4>2. CASE pc[t] = "sql"
        <5>1. tokens'[t] = tokens[t]
          BY ONLY <4>2, <1>3
        <5> QED
          <6>1. tokens[t] <= TokenBudget + Dearest(t)
            BY ONLY <4>2, <3>3
          <6>2. billed[t] <= tokens[t] + 2 * C + Dearest(t) + Dearest(t)
            <7>1. Uncounted(t) \in Nat /\ Uncounted(t) <= Dearest(t)
              BY ONLY <3>1, <3>5, <2>2
            <7> QED
              BY ONLY <4>2, <7>1, <3>1, <3>3
          <6> QED
            BY ONLY <5>1, <6>1, <6>2, <3>1
      <4> QED
        BY <4>1, <4>2, <1>2
    <3> QED
      BY ONLY <3>4, <3>6 DEF C, M
  <2>6. calls'[t] * Dearest(t) = calls[t] * Dearest(t) + Dearest(t)
    BY ONLY <2>1, <2>4
  <2>7. /\ calls[t] * Dearest(t) \in Nat /\ MaxSteps * Dearest(t) \in Nat /\ Dearest(t) \in Nat
        /\ tokens'[t] \in Nat /\ billed[t] \in Nat /\ TokenBudget \in Nat
    BY ONLY <1>v, <1>2, <1>3, ValueTypes
  <2>8. billed'[t] <= tokens'[t] + 2 * (calls'[t] * Dearest(t)) + Discarded(t)' + Uncounted(t)'
    <3> DEFINE C == calls[t] * Dearest(t)
               K == calls'[t] * Dearest(t)
    <3>1. billed'[t] <= tokens'[t] + 2 * C + 2 * Dearest(t) /\ K = C + Dearest(t) /\ C \in Nat
      BY ONLY <2>4, <2>5, <2>6, <2>7
    <3> HIDE DEF C, K
    <3>2. billed'[t] <= tokens'[t] + 2 * K + Discarded(t)' + Uncounted(t)'
      BY ONLY <3>1, <2>3, <2>7
    <3> QED
      BY ONLY <3>2 DEF K
  <2>9. billed'[t] <= tokens'[t] + 2 * (calls'[t] * Dearest(t)) + Uncounted(t)'
    <3> DEFINE K == calls'[t] * Dearest(t)
    <3>1. K \in Nat
      BY ONLY <2>6, <2>7
    <3>2. billed'[t] <= tokens'[t] + 2 * K + Discarded(t)' + Uncounted(t)'
      BY <2>8
    <3> HIDE DEF K
    <3>3. billed'[t] <= tokens'[t] + 2 * K + Uncounted(t)'
      BY ONLY <3>1, <3>2, <2>3, <2>7
    <3> QED
      BY ONLY <3>3 DEF K
  <2> QED
    BY ONLY <2>4, <2>5, <2>8, <2>9 DEF Spends
<1> QED
  BY ONLY <1>5, <1>6, <1>7, <1>8, <1>9, <1>10, TypePartsNext DEF AgentInv, TurnInv, ClientInv

-----------------------------------------------------------------------------
(* The invariants of an investigation                                        *)

\* No step of any investigation breaks the invariant.
LEMMA AgentNext == AgentInv /\ [Next]_vars => AgentInv'
<1> SUFFICES ASSUME AgentInv, [Next]_vars PROVE AgentInv'
  OBVIOUS
<1>1. CASE UNCHANGED vars
  <2> USE <1>1 DEF vars, clientVars, callVars, moneyVars, loopVars, traceVars, agentVars
  <2>1. ClientTypeOK' /\ LoopTypeOK'
    BY TypeParts DEF AgentInv, ClientTypeOK, LoopTypeOK
  <2>2. CallInv' /\ OverlapInv'
    BY DEF AgentInv, CallInv, OverlapInv, Running
  <2>3. ASSUME NEW t \in Caller PROVE TurnInv(t)'
    BY DEF AgentInv, TurnInv, InPhase, Fresh, Survives, Spends, Discarded, Uncounted, Own, Accounted, Running
  <2> QED
    BY <2>1, <2>2, <2>3, TypePartsNext DEF AgentInv
<1>2. ASSUME NEW t \in Caller, Start(t) PROVE AgentInv'
  BY <1>2, StartKeeps
<1>3. ASSUME NEW t \in Caller, RunStep(t) PROVE AgentInv'
  <2>1. CASE LlmStep(t)
    BY <2>1, LlmKeeps
  <2>2. CASE AskSql(t)
    BY <2>2, AskKeeps
  <2>3. CASE AnswerStep(t) \/ Landed(t) \/ RunRaises(t) \/ RunCancelled(t)
    BY <2>3, EndKeeps
  <2>4. CASE \/ Lookup(t) \/ RunView(t) \/ SqlFailed(t)
             \/ \E i \in DOMAIN Pool : RefineResult(t, i)
             \/ \E found \in {<<>>, <<t>>} : SqlAnswered(t, found)
    BY <2>4, ToolsGather, GatherKeeps
  <2> QED
    BY ONLY <1>3, <2>1, <2>2, <2>3, <2>4 DEF RunStep
<1> QED
  BY <1>1, <1>2, <1>3 DEF Next

\* What the theorems below have in common.
LEMMA AgentInvariant == Spec => []AgentInv
BY AgentInit, AgentNext, PTL DEF Spec

\* The client's and the loop's variables have their types: in particular no call
\* is attempted more than MaxRetries times over, and no investigation takes more
\* than MaxSteps steps.
THEOREM AgentTypeCorrect == Spec => []AgentTypeOK
<1>1. AgentInv => AgentTypeOK
  BY DEF AgentInv
<1> QED
  BY <1>1, AgentInvariant, PTL

\* An investigation that has the agent to itself from start to end cites its own
\* session's results only, however many came before it on the same agent (run
\* replaces the fields that they left).
THEOREM SoloCitesItsOwn == Spec => []SoloInvestigationIsItsOwn
<1>1. AgentInv => SoloInvestigationIsItsOwn
  BY DEF AgentInv, TurnInv, Own, SoloInvestigationIsItsOwn
<1> QED
  BY <1>1, AgentInvariant, PTL

\* Such an investigation reports every token it paid for except those of replies
\* that structured_call discarded, on whatever path it ended.
THEOREM SoloCountsItsTokens == Spec => []TokensAccounted
<1>1. ASSUME AgentInv, NEW t \in Caller \ overlapped, pc[t] \in {"answered", "landed"}
      PROVE  tokens[t] = billed[t] - wasted[t]
  <2>1. tokens[t] + wasted[t] = billed[t]
    BY <1>1 DEF AgentInv, TurnInv, Accounted
  <2>2. tokens[t] \in Nat /\ wasted[t] \in Nat /\ billed[t] \in Nat
    BY <1>1, ValueTypes DEF AgentInv
  <2> QED
    BY <2>1, <2>2
<1>2. AgentInv => TokensAccounted
  BY <1>1 DEF TokensAccounted
<1> QED
  BY <1>2, AgentInvariant, PTL

\* The budgets bound every investigation, alone or not: MaxSteps tool calls, and
\* the token budget plus what run looks at too late.
THEOREM InvestigationsAreBounded == Spec => []WorkIsBounded
<1>1. ASSUME AgentInv, NEW t \in Caller
      PROVE  /\ calls[t] <= MaxSteps
             /\ billed[t] <= TokenBudget + (2 + 2 * MaxSteps) * Dearest(t)
  <2>1. /\ calls[t] \in 0..MaxSteps /\ MaxSteps \in Nat /\ Dearest(t) \in Nat
        /\ TokenBudget \in Nat /\ billed[t] \in Nat
    BY <1>1, ValueTypes DEF AgentInv
  <2>2. (2 + 2 * MaxSteps) * Dearest(t) = 2 * Dearest(t) + 2 * (MaxSteps * Dearest(t))
    BY <2>1, ProductFacts
  <2>3. billed[t] <= TokenBudget + 2 * Dearest(t) + 2 * (MaxSteps * Dearest(t))
    BY <1>1 DEF AgentInv, TurnInv, Spends
  <2>4. TokenBudget + 2 * Dearest(t) + 2 * (MaxSteps * Dearest(t))
          = TokenBudget + (2 + 2 * MaxSteps) * Dearest(t)
    BY ONLY <2>1, <2>2, ProductFacts
  <2> QED
    BY ONLY <2>1, <2>3, <2>4
<1>2. AgentInv => WorkIsBounded
  BY <1>1 DEF WorkIsBounded
<1> QED
  BY <1>2, AgentInvariant, PTL

\* A tool that raises, its LLM call included, never ends an investigation.
THEOREM ToolFaultsAreSurvived == Spec => []ToolFaultIsNotFatal
<1>1. AgentInv => ToolFaultIsNotFatal
  BY DEF AgentInv, TurnInv, Survives, ToolFaultIsNotFatal
<1> QED
  BY <1>1, AgentInvariant, PTL

-----------------------------------------------------------------------------
(* The client implements LLMCall                                             *)

ContractVars ==
  <<[c \in Caller |-> IF at[c] \in Awaiting THEN "pending" ELSE at[c]], sent, shown>>

\* A step of a call is a request, a piece of text, an end, or nothing to see.
LEMMA CallRefines ==
  ASSUME ClientInv, NEW t \in Caller, CallStep(t)
  PROVE  Contract!Again(t) \/ Contract!Show(t) \/ Contract!End(t) \/ UNCHANGED ContractVars
<1> USE ClientAssumption DEF Awaiting, Ended, Goto, Await, Pay, callVars, moneyVars
<1>v. /\ at \in [Caller -> {"idle"} \cup Awaiting \cup Ended]
      /\ attempt[t] \in 0..MaxRetries /\ sent[t] \in Nat
      /\ sent \in [Caller -> Nat] /\ shown \in [Caller -> 0..MaxChunks]
  BY DEF ClientInv, ClientTypeOK
<1>1. ASSUME NEW d \in Duration, NEW reply \in Cost[t], NEW valid \in BOOLEAN,
             Reply(t, d, reply, valid)
      PROVE  Contract!Again(t) \/ Contract!End(t)
  <2>1. CASE valid \/ corrective[t]
    BY <1>1, <1>v, <2>1 DEF Reply, Contract!End
  <2>2. CASE ~valid /\ ~corrective[t]
    <3>1. shown[t] = 0 /\ sent[t] < 2 * (MaxRetries + 1)
      BY <1>1, <1>v, <2>2 DEF Reply, ClientInv, CallInv
    <3> QED
      BY <1>1, <1>v, <2>2, <3>1 DEF Reply, Contract!Again
  <2> QED
    BY <2>1, <2>2
<1>2. ASSUME NEW d \in Duration, NEW reply \in Cost[t], StreamEnds(t, d, reply)
      PROVE  Contract!End(t)
  BY <1>2, <1>v DEF StreamEnds, Contract!End
<1>3. ASSUME NEW d \in Duration, Refused(t, d) \/ StreamBreaks(t, d)
      PROVE  Contract!End(t)
  BY <1>3, <1>v DEF Refused, StreamBreaks, Contract!End
<1>4. ASSUME NEW d \in Duration, Fails(t, d)
      PROVE  Contract!End(t) \/ UNCHANGED ContractVars
  BY <1>4, <1>v DEF Fails, Contract!End, ContractVars
<1>5. ASSUME NEW d \in Duration, Chunk(t, d)
      PROVE  Contract!Show(t)
  BY <1>5, <1>v DEF Chunk, Contract!Show
<1>6. ASSUME NEW d \in {0, 1}, Wake(t, d)
      PROVE  Contract!Again(t)
  <2>1. shown[t] = 0 /\ sent[t] < 2 * (MaxRetries + 1)
    BY <1>6, <1>v DEF Wake, ClientInv, CallInv
  <2> QED
    BY <1>6, <1>v, <2>1 DEF Wake, Contract!Again
<1>7. CASE Cancel(t)
  BY <1>7, <1>v DEF Cancel, Contract!End
<1> QED
  BY <1>1, <1>2, <1>3, <1>4, <1>5, <1>6, <1>7 DEF CallStep

\* A call that begins, or is forgotten, was not under way.
LEMMA CallEdges ==
  ASSUME ClientInv, NEW t \in Caller, at[t] \notin Awaiting
  PROVE  /\ \A method \in {"call", "structured", "stream"} : BeginCall(t, method) => Contract!Begin(t)
         /\ Leave(t) => Contract!Forget(t)
<1>v. /\ at \in [Caller -> {"idle"} \cup Awaiting \cup Ended]
      /\ sent \in [Caller -> Nat] /\ shown \in [Caller -> 0..MaxChunks]
  BY DEF ClientInv, ClientTypeOK
<1>1. ASSUME NEW method \in {"call", "structured", "stream"}, BeginCall(t, method)
      PROVE  Contract!Begin(t)
  BY <1>1, <1>v DEF BeginCall, Contract!Begin, Awaiting, Ended
<1>2. ASSUME Leave(t) PROVE Contract!Forget(t)
  BY <1>2, <1>v DEF Leave, Goto, Contract!Forget, Awaiting, Ended
<1> QED
  BY <1>1, <1>2

\* Every step of an investigation keeps its client's contract.
LEMMA ContractNext ==
  ASSUME AgentInv, [Next]_vars
  PROVE  Contract!Next \/ UNCHANGED ContractVars
<1>c. ClientInv
  BY TypeParts DEF AgentInv, ClientInv
<1>1. CASE UNCHANGED vars
  BY <1>1 DEF vars, clientVars, callVars, ContractVars
<1>2. ASSUME NEW t \in Caller, Start(t) PROVE Contract!Next
  <2>1. at[t] \notin Awaiting /\ BeginCall(t, "structured")
    BY <1>2 DEF Start, AgentInv, TurnInv, InPhase, Running, Awaiting
  <2> QED
    BY <1>c, <2>1, CallEdges DEF Contract!Next
<1>3. ASSUME NEW t \in Caller, RunStep(t) PROVE Contract!Next \/ UNCHANGED ContractVars
  <2>1. CASE LlmStep(t)
    BY <2>1, <1>c, CallRefines DEF LlmStep, Contract!Next
  <2>2. CASE AskSql(t)
    <3>1. at[t] \notin Awaiting /\ BeginCall(t, "call")
      BY <2>2 DEF AskSql, Planned, Awaiting
    <3> QED
      BY <1>c, <3>1, CallEdges DEF Contract!Next
  <2>3. CASE AnswerStep(t) \/ Landed(t) \/ RunRaises(t) \/ RunCancelled(t)
    <3>1. at[t] \notin Awaiting /\ Leave(t)
      BY <2>3 DEF AnswerStep, Landed, RunRaises, RunCancelled, Planned, Awaiting
    <3> QED
      BY <1>c, <3>1, CallEdges DEF Contract!Next
  <2>4. CASE \/ Lookup(t) \/ RunView(t) \/ SqlFailed(t)
             \/ \E i \in DOMAIN Pool : RefineResult(t, i)
             \/ \E found \in {<<>>, <<t>>} : SqlAnswered(t, found)
    <3>1. at[t] \notin Awaiting /\ Iterate(t)
      BY <2>4, ToolsGather DEF Gathers, Awaiting
    <3>2. \E method \in {"call", "structured", "stream"} : BeginCall(t, method)
      BY <3>1 DEF Iterate
    <3> QED
      BY <1>c, <3>1, <3>2, CallEdges DEF Contract!Next
  <2> QED
    BY ONLY <1>3, <2>1, <2>2, <2>3, <2>4 DEF RunStep
<1> QED
  BY <1>1, <1>2, <1>3 DEF Next

\* The client implements LLMCall under every investigation: an answer or an error
\* ends a call, at most two calls' worth of retries go out, and none once a piece
\* of the answer was shown.
THEOREM ClientKeepsContract == Spec => KeepsContract
<1>1. LoopInit => Contract!Init
  BY DEF LoopInit, ClientInit, Contract!Init, Awaiting
<1>2. AgentInv /\ [Next]_vars => [Contract!Next]_ContractVars
  BY ContractNext
<1> QED
  BY <1>1, <1>2, AgentInvariant, PTL DEF Spec, KeepsContract, Contract!Spec, ContractVars
=============================================================================
