---------------------------- MODULE ChatTurnsProofs ----------------------------
(***************************************************************************)
(* Theorems about ChatTurns, for every set of turns and sessions, every     *)
(* history and working-set size and any number of chunks.                   *)
(***************************************************************************)
EXTENDS ChatTurns, FiniteSetTheorems, SequenceTheorems, TLAPS

Token == {"message", "late", "caveat", "chunk"}
Place == {"ready", "closing", "ended"} \cup Awaiting \cup Active

TurnRecord ==
  [at : Place, session : Session, streamed : BOOLEAN,
   decision : Decision \cup {"none"}, refinable : BOOLEAN, prefixed : BOOLEAN, rows : BOOLEAN,
   text : Seq(Token), answer : Seq(Token), ending : Endings,
   shown : SUBSET Turn, overlapped : BOOLEAN]

LastRecord ==
  [result : Turn \cup {NoTurn}, rows : BOOLEAN, sql : Turn \cup {NoTurn},
   hit : Turn \cup {NoTurn}, verified : Turn \cup {NoTurn}, outcome : Turn \cup {NoTurn}]

StoreRecord ==
  [history : Seq([role : {"user", "assistant"}, of : Turn]),
   results : Seq([label : Turn, result : Turn])]

\* Places a turn reaches before it has said anything; only routed turns pass the
\* ones between the routing call and the narration.
Silent == {"ready", "dispatch", "routing", "path", "sqlgen", "sqlretry"}

\* A turn under way has no ending and shows nothing yet; its texts are bounded.
Underway(r) ==
  /\ r.ending = "none" <=> r.at \notin {"closing", "ended"}
  /\ r.ending = "none" => r.shown = {} /\ Len(r.text) <= MaxChunks
  /\ Len(r.text) <= MaxChunks + 1
  /\ Len(r.answer) <= MaxChunks + 1
  /\ r.at \in Silent => ~r.prefixed /\ r.text = <<>>

\* What a stream has sent against the answer of its turn, before and after the end.
Said(r) ==
  r.streamed =>
    /\ r.at = "finish" /\ r.text # <<>> =>
         r.answer \in {r.text, r.text \o Caveat} \/ (~r.prefixed /\ r.answer = Message)
    /\ r.ending = "answered" => r.answer \in {r.text, r.text \o Caveat, Message}
    /\ r.ending = "bypassed" => r.answer \in {r.text, r.text \o Caveat}
    /\ r.ending = "timeout" => IsSuffix(Late, r.text)

TurnInv ==
  /\ turn \in [Turn -> TurnRecord]
  /\ last \in LastRecord
  /\ store \in [Session -> StoreRecord]
  /\ loop \in Turn \cup {NoTurn}
  /\ \A t \in Turn : (turn[t].at \in Active <=> loop = t) /\ Underway(turn[t]) /\ Said(turn[t])

\* A turn under way that none overlapped is alone, and what the orchestrator holds
\* since its start, it put there.
SoloInv ==
  \A t \in Turn :
    ~turn[t].overlapped =>
      /\ t \in Running =>
           /\ Running = {t}
           /\ {last.result, last.sql, last.hit, last.verified} \subseteq {NoTurn, t}
           /\ turn[t].at = "closing" /\ turn[t].ending # "raised" => last.outcome = t
      /\ turn[t].ending # "raised" => turn[t].shown \subseteq {t}

\* With auditing on the audit log has made one entry of a routed turn that was answered,
\* none of another, and of a turn that none overlapped it shows that turn's work.
AuditInv ==
  /\ audit \in Seq([of : Turn, shown : SUBSET Turn, stored : BOOLEAN])
  /\ \A i \in DOMAIN audit :
       /\ AuditEnabled
       /\ turn[audit[i].of].ending = "answered"
       /\ ~turn[audit[i].of].overlapped => audit[i].shown \subseteq {audit[i].of}
  /\ \A t \in Turn :
       AuditEnabled /\ turn[t].ending = "answered" => \E i \in DOMAIN audit : audit[i].of = t
  /\ \A i, j \in DOMAIN audit : audit[i].of = audit[j].of => i = j

\* A working set has results of answered turns of its session only.
ResultsInv ==
  \A s \in Session :
    /\ Len(store[s].results) <= WorkingSetSize
    /\ \A i \in DOMAIN store[s].results :
         LET e == store[s].results[i]
         IN /\ turn[e.label].ending = "answered" /\ turn[e.label].session = s
            /\ ~turn[e.label].overlapped => e.result = e.label

\* A history is the end of its session's conversation.
HistoryInv ==
  /\ log \in [Session -> Seq(Turn)]
  /\ \A s \in Session :
       /\ store[s].history = Bounded(HistorySize, Messages(log[s]))
       /\ \A i \in DOMAIN log[s] :
            turn[log[s][i]].session = s /\ turn[log[s][i]].ending \in Conversed

ChatInv ==
  /\ TurnInv
  /\ SoloInv
  /\ AuditInv
  /\ ResultsInv
  /\ HistoryInv

-----------------------------------------------------------------------------
(* What one step does to the turn it is a step of                            *)

\* Turn t has gone on as q: its request is the same, no other turn has changed.
Moves(t, q) ==
  /\ turn' = [turn EXCEPT ![t] = q]
  /\ q \in TurnRecord /\ Underway(q) /\ Said(q)
  /\ q.session = turn[t].session /\ q.overlapped = turn[t].overlapped
  /\ turn[t].at \notin {"ready", "ended"} /\ q.at # "ready"

\* The loop was free or at t, and is at t if and only if t goes on running.
Yields(t, q) ==
  /\ {loop, loop'} \subseteq {t, NoTurn}
  /\ q.at \in Active <=> loop' = t

\* What t leaves on the orchestrator, and what its outcome shows, is what was there or
\* is its own.
Leaves(t, q) ==
  /\ last' \in LastRecord
  /\ last'.result \in {last.result, t, NoTurn} /\ last'.sql \in {last.sql, t, NoTurn}
  /\ last'.hit \in {last.hit, t, NoTurn} /\ last'.verified \in {last.verified, t, NoTurn}
  /\ q.at = "closing" /\ q.ending # "raised" => last'.outcome = t
  /\ q.shown \subseteq turn[t].shown \cup {t, last.result, last.verified}
       \cup (IF turn[t].at = "closing" THEN {last.outcome} ELSE {})

Steps(t, q) == Moves(t, q) /\ Yields(t, q) /\ Leaves(t, q)

\* It is not recorded as answered by this step.
Unrecorded(t, q) ==
  /\ q.ending = "answered" <=> turn[t].ending = "answered"
  /\ turn[t].ending = "raised" => q.ending = "raised"
  /\ turn[t].ending \in Conversed => q.ending \in Conversed

\* The texts: a message, a narration, a narration with the caveat.
LEMMA TextFacts ==
  /\ Message \in Seq(Token) /\ Len(Message) = 1
  /\ <<"chunk">> \in Seq(Token) /\ Len(<<"chunk">>) = 1
  /\ <<>> \in Seq(Token) /\ Len(<<>>) = 0
  /\ \A w \in Seq(Token) :
       /\ Append(w, "chunk") \in Seq(Token) /\ Len(Append(w, "chunk")) = Len(w) + 1
       /\ w \o Caveat \in Seq(Token) /\ Len(w \o Caveat) = Len(w) + 1
       /\ w \o Late \in Seq(Token) /\ Len(w \o Late) = Len(w) + 1
       /\ Len(w) \in Nat /\ (w # <<>> => Len(w) >= 1)
BY DEF Token, Message, Caveat, Late

\* The first element of a sequence, as a sequence.
LEMMA FirstOnly ==
  ASSUME NEW S, NEW q \in Seq(S), 1 <= Len(q)
  PROVE  SubSeq(q, 1, 1) = <<q[1]>>
<1> DEFINE p == SubSeq(q, 1, 1)
            o == <<q[1]>>
<1>1. Len(q) \in Nat /\ 1 \in 1..Len(q) /\ q[1] \in S
  OBVIOUS
<1>2. o \in Seq(S) /\ Len(o) = 1 /\ o[1] = q[1]
  BY <1>1
<1>3. p \in Seq(S) /\ Len(p) = 1 /\ p[1] = q[1]
  BY <1>1
<1> HIDE DEF p, o
<1>4. \A i \in 1..Len(p) : p[i] = o[i]
  BY <1>2, <1>3
<1>5. p = o
  BY ONLY <1>2, <1>3, <1>4, SeqEqual
<1> QED
  BY <1>5 DEF p, o

\* A stream that was cut by the deadline ends with its message.
LEMMA LateIsLast == ASSUME NEW w \in Seq(Token) PROVE IsSuffix(Late, w \o Late)
<1> DEFINE v == w \o Late
<1>1. v \in Seq(Token) /\ Len(v) = Len(w) + 1 /\ v[Len(w) + 1] = "late" /\ Len(w) \in Nat
  BY DEF Late, Token
<1> HIDE DEF v
<1>2. Reverse(Late) = <<"late">>
  BY DEF Reverse, Late
<1>3. Reverse(v) \in Seq(Token) /\ Len(Reverse(v)) = Len(v) /\ Reverse(v)[1] = "late"
  <2>1. Reverse(v) = [j \in 1..Len(v) |-> v[(Len(v) - j) + 1]]
    BY DEF Reverse
  <2>2. \A j \in 1..Len(v) : (Len(v) - j) + 1 \in 1..Len(v)
    BY <1>1
  <2>3. \A j \in 1..Len(v) : v[(Len(v) - j) + 1] \in Token
    BY <1>1, <2>2
  <2>4. Len(v) \in Nat /\ 1 \in 1..Len(v) /\ (Len(v) - 1) + 1 = Len(w) + 1
    BY <1>1
  <2> DEFINE n == Len(v)
  <2>5. n \in Nat
    BY <2>4
  <2>6. Reverse(v) \in Seq(Token)
    BY <2>1, <2>3, <2>5
  <2>7. DOMAIN Reverse(v) = 1..n
    BY <2>1
  <2> HIDE DEF n
  <2>8. Len(Reverse(v)) = n
    BY <2>5, <2>6, <2>7
  <2> QED
    <3>1. Reverse(v)[1] = v[(Len(v) - 1) + 1]
      BY <2>1, <2>4
    <3> QED
      BY <1>1, <2>4, <2>6, <2>8, <3>1 DEF n
<1>4. SubSeq(Reverse(v), 1, 1) = <<"late">>
  BY <1>1, <1>3, FirstOnly
<1> DEFINE l == <<"late">>
<1>5. l \in Seq(Token) /\ Len(l) = 1 /\ l[1] = "late"
  BY DEF Token
<1>7. <<l[1]>> = l
  OBVIOUS
<1>8. SubSeq(Reverse(v), 1, 1) = l
  BY <1>4
<1> HIDE DEF l
<1>6. IsPrefix(l, Reverse(v))
  <2>1. SubSeq(l, 1, 1) = <<l[1]>>
    <3>1. l \in Seq(Token) /\ 1 <= Len(l)
      BY <1>5
    <3> QED
      BY ONLY <3>1, FirstOnly
  <2>2. SubSeq(l, 1, Len(l)) = SubSeq(Reverse(v), 1, Len(l))
    <3>1. SubSeq(l, 1, 1) = SubSeq(Reverse(v), 1, 1)
      BY ONLY <1>7, <1>8, <2>1
    <3> QED
      BY <1>5, <3>1
  <2>3. Len(l) <= Len(Reverse(v))
    <3>1. Len(l) = 1
      BY <1>5
    <3>2. Len(Reverse(v)) = Len(w) + 1
      BY <1>1, <1>3
    <3> QED
      BY ONLY <1>1, <3>1, <3>2
  <2> QED
    BY <2>2, <2>3 DEF IsPrefix
<1> QED
  BY <1>2, <1>6 DEF IsSuffix, v, l

\* What TurnInv says of one turn.
LEMMA OneTurn ==
  ASSUME TurnInv, NEW t \in Turn
  PROVE  /\ turn[t] \in TurnRecord /\ Underway(turn[t]) /\ Said(turn[t])
         /\ turn[t].at \in Active <=> loop = t
         /\ loop \in Turn \cup {NoTurn} /\ last \in LastRecord
         /\ t # NoTurn
BY TurnAssumption DEF TurnInv

\* Turn t, under way, goes on as q: it has said nothing more, and comes to its end with
\* a message only.
Proceeds(t, q) ==
  /\ turn' = [turn EXCEPT ![t] = q]
  /\ turn[t].at \in Awaiting \cup Active
  /\ q \in TurnRecord /\ q.at \in Awaiting \cup Active
  /\ \A f \in {"session", "streamed", "overlapped", "ending", "shown", "text"} : q[f] = turn[t][f]
  /\ q.at \in Silent => turn[t].at \in Silent /\ ~q.prefixed
  /\ q.answer \in {turn[t].answer, Message}
  /\ q.at = "finish" => q.answer = Message /\ (q.text = <<>> \/ ~q.prefixed)

\* Then it keeps what TurnInv says of it.
LEMMA Proceeding ==
  ASSUME TurnInv, NEW t \in Turn, NEW q, Proceeds(t, q), Yields(t, q),
         last' \in LastRecord,
         last'.result \in {last.result, t, NoTurn}, last'.sql \in {last.sql, t, NoTurn},
         last'.hit \in {last.hit, t, NoTurn}, last'.verified \in {last.verified, t, NoTurn}
  PROVE  Steps(t, q) /\ Unrecorded(t, q)
<1> DEFINE r == turn[t]
<1>1. r \in TurnRecord /\ Underway(r) /\ Said(r)
  BY OneTurn
<1>2. q \in TurnRecord /\ r.at \in Awaiting \cup Active /\ q.at \in Awaiting \cup Active
  BY DEF Proceeds
<1>3. q.session = r.session /\ q.streamed = r.streamed /\ q.overlapped = r.overlapped
      /\ q.ending = r.ending /\ q.shown = r.shown /\ q.text = r.text
  BY DEF Proceeds
<1>4. r.ending = "none" /\ q.ending = "none" /\ r.at \notin {"ready", "closing", "ended"}
      /\ q.at \notin {"ready", "closing", "ended"}
  BY <1>1, <1>2, <1>3 DEF Underway, Awaiting, Active
<1>5. Underway(q)
  <2>1. Len(q.answer) <= MaxChunks + 1
    BY <1>1, TextFacts, AgentAssumption DEF Proceeds, Underway
  <2> QED
    BY <1>1, <1>3, <1>4, <2>1 DEF Proceeds, Underway
<1>6. Said(q)
  BY <1>3, <1>4 DEF Proceeds, Said
<1>7. Moves(t, q)
  BY <1>2, <1>3, <1>4, <1>5, <1>6 DEF Proceeds, Moves
<1>8. Leaves(t, q)
  BY <1>3, <1>4 DEF Leaves
<1>9. Unrecorded(t, q)
  BY <1>3 DEF Unrecorded
<1> QED
  BY <1>7, <1>8, <1>9 DEF Steps

\* A prefix decides the turn.
LEMMA DispatchPrefixedSteps ==
  ASSUME TurnInv, NEW t \in Turn, DispatchPrefixed(t)
  PROVE  \E q : Steps(t, q) /\ Unrecorded(t, q)
<1>1. PICK q \in {[turn[t] EXCEPT !.at = "finish", !.prefixed = TRUE, !.answer = Message],
                  [turn[t] EXCEPT !.at = "answering", !.prefixed = TRUE],
                  [turn[t] EXCEPT !.at = "agent", !.prefixed = TRUE]} :
        turn' = [turn EXCEPT ![t] = q] /\ loop' = IF q.at = "finish" THEN loop ELSE NoTurn
  BY OneTurn DEF DispatchPrefixed, Becomes, TurnRecord
<1>2. turn[t] \in TurnRecord /\ Underway(turn[t])
      /\ turn[t].at = "dispatch" /\ loop = t /\ last' = last
  BY OneTurn DEF DispatchPrefixed, Runs
<1>3. turn[t].text = <<>> /\ ~turn[t].prefixed
  BY <1>2 DEF Underway, Silent
<1>4. Proceeds(t, q)
  <2>1. q \in TurnRecord
    <3>1. Message \in Seq(Token)
      BY TextFacts
    <3>2. [turn[t] EXCEPT !.at = "finish", !.prefixed = TRUE, !.answer = Message] \in TurnRecord
      BY <1>2, <3>1 DEF TurnRecord, Place, Active
    <3>3. [turn[t] EXCEPT !.at = "answering", !.prefixed = TRUE] \in TurnRecord
      BY <1>2 DEF TurnRecord, Place, Awaiting
    <3>4. [turn[t] EXCEPT !.at = "agent", !.prefixed = TRUE] \in TurnRecord
      BY <1>2 DEF TurnRecord, Place, Awaiting
    <3> QED
      BY <1>1, <3>2, <3>3, <3>4
  <2>2. \A f \in {"session", "streamed", "overlapped", "ending", "shown", "text"} : q[f] = turn[t][f]
    <3>1. \A f \in {"session", "streamed", "overlapped", "ending", "shown", "text"} :
            /\ [turn[t] EXCEPT !.at = "finish", !.prefixed = TRUE, !.answer = Message][f] = turn[t][f]
            /\ [turn[t] EXCEPT !.at = "answering", !.prefixed = TRUE][f] = turn[t][f]
            /\ [turn[t] EXCEPT !.at = "agent", !.prefixed = TRUE][f] = turn[t][f]
      BY ONLY <1>2 DEF TurnRecord
    <3> QED
      BY ONLY <1>1, <3>1
  <2>3. q.at \in Awaiting \cup Active /\ turn[t].at \in Awaiting \cup Active
    BY <1>1, <1>2 DEF TurnRecord, Awaiting, Active
  <2>4. q.at \in Silent => turn[t].at \in Silent /\ ~q.prefixed
    <3>1. q.at \in {"finish", "answering", "agent"}
      BY ONLY <1>1, <1>2 DEF TurnRecord
    <3> QED
      BY ONLY <3>1 DEF Silent
  <2>5. q.answer \in {turn[t].answer, Message} /\ (q.at = "finish" => q.answer = Message /\ q.text = <<>>)
    BY <1>1, <1>2, <1>3 DEF TurnRecord
  <2> QED
    BY <1>1, <2>1, <2>2, <2>3, <2>4, <2>5 DEF Proceeds
<1>5. Yields(t, q)
  BY <1>1, <1>2, OneTurn DEF TurnRecord, Yields, Awaiting, Active, Place, Silent, Decision, Instant, Narrated
<1> QED
  BY <1>2, <1>4, <1>5, OneTurn, Proceeding DEF LastRecord

\* The routing call is made.
LEMMA DispatchRoutedSteps ==
  ASSUME TurnInv, NEW t \in Turn, DispatchRouted(t)
  PROVE  \E q : Steps(t, q) /\ Unrecorded(t, q)
<1> DEFINE q == [turn[t] EXCEPT !.at = "routing", !.refinable = store[turn[t].session].results # <<>>]
<1>1. turn[t] \in TurnRecord /\ Underway(turn[t]) /\ turn' = [turn EXCEPT ![t] = q]
  BY OneTurn DEF DispatchRouted, Runs, Becomes
<1>2. Proceeds(t, q)
  BY <1>1, TextFacts DEF DispatchRouted, Runs, TurnRecord, Underway, Proceeds, Routed, Over, Awaiting, Active, Place, Silent, Decision, Instant, Narrated
<1>3. Yields(t, q)
  BY <1>1, OneTurn DEF DispatchRouted, Runs, TurnRecord, Yields, Routed, Over, Awaiting, Active, Place, Silent, Decision, Instant, Narrated
<1> QED
  BY <1>2, <1>3, OneTurn, Proceeding DEF DispatchRouted, Runs, LastRecord

\* The router decides.
LEMMA RoutingAnswersSteps ==
  ASSUME TurnInv, NEW t \in Turn, NEW d \in Decision, RoutingAnswers(t, d)
  PROVE  \E q : Steps(t, q) /\ Unrecorded(t, q)
<1> DEFINE q == [turn[t] EXCEPT !.at = "path", !.decision = d]
<1>1. turn[t] \in TurnRecord /\ Underway(turn[t]) /\ turn' = [turn EXCEPT ![t] = q]
  BY OneTurn DEF RoutingAnswers, Resumes, Becomes
<1>2. Proceeds(t, q)
  BY <1>1, TextFacts DEF RoutingAnswers, Resumes, TurnRecord, Underway, Proceeds, Routed, Over, Awaiting, Active, Place, Silent, Decision, Instant, Narrated
<1>3. Yields(t, q)
  BY <1>1, OneTurn DEF RoutingAnswers, Resumes, TurnRecord, Yields, Routed, Over, Awaiting, Active, Place, Silent, Decision, Instant, Narrated
<1> QED
  BY <1>2, <1>3, OneTurn, Proceeding DEF RoutingAnswers, Resumes, LastRecord

\* A path ends with a message.
LEMMA PathEndsAtOnceSteps ==
  ASSUME TurnInv, NEW t \in Turn, PathEndsAtOnce(t)
  PROVE  \E q : Steps(t, q) /\ Unrecorded(t, q)
<1> DEFINE q == [Routed(turn[t]) EXCEPT !.at = "finish", !.answer = Message]
<1>1. turn[t] \in TurnRecord /\ Underway(turn[t]) /\ turn' = [turn EXCEPT ![t] = q]
  BY OneTurn DEF PathEndsAtOnce, Runs, Becomes
<1>2. Proceeds(t, q)
  BY <1>1, TextFacts DEF PathEndsAtOnce, Runs, TurnRecord, Underway, Proceeds, Routed, Over, Awaiting, Active, Place, Silent, Decision, Instant, Narrated
<1>3. Yields(t, q)
  BY <1>1, OneTurn DEF PathEndsAtOnce, Runs, TurnRecord, Yields, Routed, Over, Awaiting, Active, Place, Silent, Decision, Instant, Narrated
<1> QED
  BY <1>2, <1>3, OneTurn, Proceeding DEF PathEndsAtOnce, Runs, LastRecord

\* A playbook finds nothing.
LEMMA PlaybookIsEmptySteps ==
  ASSUME TurnInv, NEW t \in Turn, PlaybookIsEmpty(t)
  PROVE  \E q : Steps(t, q) /\ Unrecorded(t, q)
<1> DEFINE q == [Routed(turn[t]) EXCEPT !.at = "finish", !.answer = Message]
<1>1. turn[t] \in TurnRecord /\ Underway(turn[t]) /\ turn' = [turn EXCEPT ![t] = q]
  BY OneTurn DEF PlaybookIsEmpty, Runs, Becomes
<1>2. Proceeds(t, q)
  BY <1>1, TextFacts DEF PlaybookIsEmpty, Runs, TurnRecord, Underway, Proceeds, Routed, Over, Awaiting, Active, Place, Silent, Decision, Instant, Narrated
<1>3. Yields(t, q)
  BY <1>1, OneTurn DEF PlaybookIsEmpty, Runs, TurnRecord, Yields, Routed, Over, Awaiting, Active, Place, Silent, Decision, Instant, Narrated
<1> QED
  BY <1>2, <1>3, OneTurn, Proceeding DEF PlaybookIsEmpty, Runs, LastRecord

\* A path has a result.
LEMMA PathQueriesSteps ==
  ASSUME TurnInv, NEW t \in Turn, NEW hit \in BOOLEAN, NEW rows \in BOOLEAN,
         PathQueries(t, hit, rows)
  PROVE  \E q : Steps(t, q) /\ Unrecorded(t, q)
<1> DEFINE q == [Routed(turn[t]) EXCEPT !.at = "answering", !.rows = rows]
<1>1. turn[t] \in TurnRecord /\ Underway(turn[t]) /\ turn' = [turn EXCEPT ![t] = q]
  BY OneTurn DEF PathQueries, Runs, Becomes
<1>2. Proceeds(t, q)
  BY <1>1, TextFacts DEF PathQueries, Runs, TurnRecord, Underway, Proceeds, Routed, Over, Awaiting, Active, Place, Silent, Decision, Instant, Narrated
<1>3. Yields(t, q)
  BY <1>1, OneTurn DEF PathQueries, Runs, TurnRecord, Yields, Routed, Over, Awaiting, Active, Place, Silent, Decision, Instant, Narrated
<1> QED
  BY <1>2, <1>3, OneTurn, Proceeding DEF PathQueries, Runs, LastRecord

\* A path awaits a call.
LEMMA PathAwaitsSteps ==
  ASSUME TurnInv, NEW t \in Turn, PathAwaits(t)
  PROVE  \E q : Steps(t, q) /\ Unrecorded(t, q)
<1>1. PICK q \in {[Routed(turn[t]) EXCEPT !.at = "sqlgen"], [Routed(turn[t]) EXCEPT !.at = "agent"]} :
        turn' = [turn EXCEPT ![t] = q]
  BY DEF PathAwaits, Becomes
<1>2. turn[t] \in TurnRecord /\ Underway(turn[t])
      /\ turn[t].at = "path" /\ loop = t /\ loop' = NoTurn /\ last' = last
  BY OneTurn DEF PathAwaits, Runs
<1>3. turn[t].text = <<>> /\ ~turn[t].prefixed
  BY <1>2 DEF Underway, Silent
<1>4. Proceeds(t, q)
  <2>1. q \in TurnRecord
    <3>1. Routed(turn[t]) \in TurnRecord
      BY <1>2 DEF TurnRecord, Routed, Decision
    <3>2. /\ [Routed(turn[t]) EXCEPT !.at = "sqlgen"] \in TurnRecord
          /\ [Routed(turn[t]) EXCEPT !.at = "agent"] \in TurnRecord
      BY ONLY <3>1 DEF TurnRecord, Place, Awaiting
    <3> QED
      BY ONLY <1>1, <3>2
  <2>2. \A f \in {"session", "streamed", "overlapped", "ending", "shown", "text"} : q[f] = turn[t][f]
    <3>1. \A f \in {"session", "streamed", "overlapped", "ending", "shown", "text"} :
            Routed(turn[t])[f] = turn[t][f]
      BY ONLY <1>2 DEF TurnRecord, Routed
    <3>2. \A f \in {"session", "streamed", "overlapped", "ending", "shown", "text"} :
            q[f] = Routed(turn[t])[f]
      BY ONLY <1>1, <1>2 DEF TurnRecord, Routed
    <3> QED
      BY ONLY <3>1, <3>2
  <2>3. q.at \in Awaiting \cup Active /\ turn[t].at \in Awaiting \cup Active
    BY <1>1, <1>2 DEF TurnRecord, Routed, Awaiting, Active
  <2>4. q.at \in Silent => turn[t].at \in Silent /\ ~q.prefixed
    BY <1>1, <1>2, <1>3 DEF TurnRecord, Routed, Silent
  <2>5. q.answer \in {turn[t].answer, Message} /\ (q.at = "finish" => q.answer = Message /\ q.text = <<>>)
    BY <1>1, <1>2, <1>3 DEF TurnRecord, Routed
  <2> QED
    BY <1>1, <2>1, <2>2, <2>3, <2>4, <2>5 DEF Proceeds
<1>5. Yields(t, q)
  BY <1>1, <1>2, OneTurn DEF TurnRecord, Yields, Routed, Awaiting, Active, Place, Silent, Decision, Instant, Narrated
<1> QED
  BY <1>2, <1>4, <1>5, OneTurn, Proceeding DEF LastRecord

\* The validator rejects a statement.
LEMMA SqlRejectedSteps ==
  ASSUME TurnInv, NEW t \in Turn, SqlRejected(t)
  PROVE  \E q : Steps(t, q) /\ Unrecorded(t, q)
<1>1. PICK q \in {[turn[t] EXCEPT !.at = "sqlretry"],
                  [turn[t] EXCEPT !.at = "finish", !.answer = Message]} :
        turn' = [turn EXCEPT ![t] = q] /\ loop' = IF q.at = "finish" THEN t ELSE loop
  BY OneTurn DEF SqlRejected, Becomes, TurnRecord
<1>2. turn[t] \in TurnRecord /\ Underway(turn[t])
      /\ turn[t].at \in {"sqlgen", "sqlretry"} /\ loop = NoTurn /\ last' = last
  BY OneTurn DEF SqlRejected, Resumes
<1>3. turn[t].text = <<>> /\ ~turn[t].prefixed
  BY <1>2 DEF Underway, Silent
<1>4. Proceeds(t, q)
  <2>1. q \in TurnRecord
    <3>1. [turn[t] EXCEPT !.at = "sqlretry"] \in TurnRecord
      BY ONLY <1>2 DEF TurnRecord, Place, Awaiting
    <3>2. [turn[t] EXCEPT !.at = "finish", !.answer = Message] \in TurnRecord
      BY ONLY <1>2, TextFacts DEF TurnRecord, Place, Active
    <3> QED
      BY ONLY <1>1, <3>1, <3>2
  <2>2. \A f \in {"session", "streamed", "overlapped", "ending", "shown", "text"} : q[f] = turn[t][f]
    BY ONLY <1>1, <1>2 DEF TurnRecord
  <2>3. q.at \in Awaiting \cup Active /\ turn[t].at \in Awaiting \cup Active
    BY <1>1, <1>2 DEF TurnRecord, Awaiting, Active
  <2>4. q.at \in Silent => turn[t].at \in Silent /\ ~q.prefixed
    BY <1>1, <1>2, <1>3 DEF TurnRecord, Silent
  <2>5. q.answer \in {turn[t].answer, Message} /\ (q.at = "finish" => q.answer = Message /\ q.text = <<>>)
    BY <1>1, <1>2, <1>3 DEF TurnRecord
  <2> QED
    BY <1>1, <2>1, <2>2, <2>3, <2>4, <2>5 DEF Proceeds
<1>5. Yields(t, q)
  BY <1>1, <1>2, OneTurn DEF TurnRecord, Yields, Awaiting, Active, Place, Silent, Decision, Instant, Narrated
<1> QED
  BY <1>2, <1>4, <1>5, OneTurn, Proceeding DEF LastRecord

\* A generated statement has a result.
LEMMA SqlRunsSteps ==
  ASSUME TurnInv, NEW t \in Turn, NEW hit \in BOOLEAN, NEW rows \in BOOLEAN, SqlRuns(t, hit, rows)
  PROVE  \E q : Steps(t, q) /\ Unrecorded(t, q)
<1> DEFINE q == [turn[t] EXCEPT !.at = "answering", !.rows = rows]
<1>1. turn[t] \in TurnRecord /\ Underway(turn[t]) /\ turn' = [turn EXCEPT ![t] = q]
  BY OneTurn DEF SqlRuns, Becomes
<1>2. Proceeds(t, q)
  BY <1>1, TextFacts DEF SqlRuns, TurnRecord, Underway, Proceeds, Routed, Over, Awaiting, Active, Place, Silent, Decision, Instant, Narrated
<1>3. Yields(t, q)
  BY <1>1, OneTurn DEF SqlRuns, TurnRecord, Yields, Routed, Over, Awaiting, Active, Place, Silent, Decision, Instant, Narrated
<1> QED
  BY <1>2, <1>3, OneTurn, Proceeding DEF SqlRuns, LastRecord

\* A generated statement fails.
LEMMA SqlFailsSteps ==
  ASSUME TurnInv, NEW t \in Turn, SqlFails(t)
  PROVE  \E q : Steps(t, q) /\ Unrecorded(t, q)
<1> DEFINE q == [turn[t] EXCEPT !.at = "finish", !.answer = Message]
<1>1. turn[t] \in TurnRecord /\ Underway(turn[t]) /\ turn' = [turn EXCEPT ![t] = q]
  BY OneTurn DEF SqlFails, Becomes
<1>2. Proceeds(t, q)
  BY <1>1, TextFacts DEF SqlFails, TurnRecord, Underway, Proceeds, Routed, Over, Awaiting, Active, Place, Silent, Decision, Instant, Narrated
<1>3. Yields(t, q)
  BY <1>1, OneTurn DEF SqlFails, TurnRecord, Yields, Routed, Over, Awaiting, Active, Place, Silent, Decision, Instant, Narrated
<1> QED
  BY <1>2, <1>3, OneTurn, Proceeding DEF SqlFails, LastRecord

\* An LLM call of a routed path fails.
LEMMA CallFailsSteps ==
  ASSUME TurnInv, NEW t \in Turn, CallFails(t)
  PROVE  \E q : Steps(t, q) /\ Unrecorded(t, q)
<1> DEFINE q == [Over(turn[t]) EXCEPT !.at = "finish", !.answer = Message]
<1>1. turn[t] \in TurnRecord /\ Underway(turn[t]) /\ turn' = [turn EXCEPT ![t] = q]
  BY OneTurn DEF CallFails, Becomes
<1>2. Proceeds(t, q)
  BY <1>1, TextFacts DEF CallFails, TurnRecord, Underway, Proceeds, Routed, Over, Awaiting, Active, Place, Silent, Decision, Instant, Narrated
<1>3. Yields(t, q)
  BY <1>1, OneTurn DEF CallFails, TurnRecord, Yields, Routed, Over, Awaiting, Active, Place, Silent, Decision, Instant, Narrated
<1> QED
  BY <1>2, <1>3, OneTurn, Proceeding DEF CallFails, LastRecord

\* The end of a narration.
LEMMA AnswerEndsSteps ==
  ASSUME TurnInv, NEW t \in Turn, NEW ungrounded \in BOOLEAN, AnswerEnds(t, ungrounded)
  PROVE  \E q : Steps(t, q) /\ Unrecorded(t, q)
<1> DEFINE r == turn[t]
           w == IF r.streamed THEN r.text ELSE <<"chunk">>
           q == [Over(r) EXCEPT !.at = "finish", !.answer = Verified(w, ungrounded)]
<1>1. r \in TurnRecord /\ Underway(r) /\ Said(r)
  BY OneTurn
<1>2. r.at = "answering" /\ loop = NoTurn /\ turn' = [turn EXCEPT ![t] = q] /\ loop' = t
      /\ last' = IF r.prefixed THEN last ELSE [last EXCEPT !.verified = t]
  BY DEF AnswerEnds, Resumes, Becomes
<1>3. w \in Seq(Token) /\ Len(w) <= MaxChunks
  BY <1>1, <1>2, TextFacts, AgentAssumption DEF TurnRecord, Underway
<1>4. Verified(w, ungrounded) \in Seq(Token) /\ Len(Verified(w, ungrounded)) <= MaxChunks + 1
      /\ Verified(w, ungrounded) \in {w, w \o Caveat}
  BY <1>3, TextFacts, AgentAssumption DEF Verified
<1>5. q \in TurnRecord
  BY <1>1, <1>4 DEF TurnRecord, Over, Routed, Place, Active
<1>6. Underway(q)
  BY <1>1, <1>2, <1>4 DEF TurnRecord, Underway, Over, Routed, Silent
<1>7. Said(q)
  BY <1>1, <1>2, <1>4 DEF TurnRecord, Underway, Said, Over, Routed
<1>8. Moves(t, q)
  BY <1>1, <1>2, <1>5, <1>6, <1>7 DEF TurnRecord, Moves, Over, Routed
<1>9. Yields(t, q)
  BY <1>1, <1>2 DEF TurnRecord, Yields, Over, Routed, Active
<1>10. Leaves(t, q)
  BY <1>1, <1>2, OneTurn DEF TurnRecord, LastRecord, Leaves, Over, Routed
<1>11. Unrecorded(t, q)
  BY <1>1 DEF TurnRecord, Unrecorded, Over, Routed
<1> QED
  BY <1>8, <1>9, <1>10, <1>11 DEF Steps

\* The end of an investigation.
LEMMA AgentEndsSteps ==
  ASSUME TurnInv, NEW t \in Turn, NEW generated \in BOOLEAN, NEW ungrounded \in BOOLEAN,
         AgentEnds(t, generated, ungrounded)
  PROVE  \E q : Steps(t, q) /\ Unrecorded(t, q)
<1> DEFINE r == turn[t]
           w == IF r.text # <<>> THEN r.text ELSE <<"chunk">>
           q == [r EXCEPT !.at = "finish", !.answer = Verified(w, ungrounded)]
<1>1. r \in TurnRecord /\ Underway(r) /\ Said(r)
  BY OneTurn
<1>2. r.at = "agent" /\ r.ending = "none" /\ loop = NoTurn /\ turn' = [turn EXCEPT ![t] = q]
      /\ loop' = t /\ last' = [last EXCEPT !.sql = IF generated THEN t ELSE NoTurn]
  BY <1>1 DEF AgentEnds, Resumes, Becomes, Underway
<1>3. w \in Seq(Token) /\ Len(w) <= MaxChunks
  BY <1>1, <1>2, TextFacts, AgentAssumption DEF TurnRecord, Underway
<1>4. Verified(w, ungrounded) \in Seq(Token) /\ Len(Verified(w, ungrounded)) <= MaxChunks + 1
      /\ Verified(w, ungrounded) \in {w, w \o Caveat}
  BY <1>3, TextFacts, AgentAssumption DEF Verified
<1>5. q \in TurnRecord
  BY <1>1, <1>4 DEF TurnRecord, Place, Active
<1>6. Underway(q)
  BY <1>1, <1>2, <1>4 DEF TurnRecord, Underway, Silent
<1>7. Said(q)
  BY <1>1, <1>2, <1>4 DEF TurnRecord, Underway, Said
<1>8. Moves(t, q)
  BY <1>1, <1>2, <1>5, <1>6, <1>7 DEF TurnRecord, Moves
<1>9. Yields(t, q)
  BY <1>1, <1>2 DEF TurnRecord, Yields, Awaiting, Active
<1>10. Leaves(t, q)
  BY <1>1, <1>2, OneTurn DEF TurnRecord, LastRecord, Leaves
<1>11. Unrecorded(t, q)
  BY <1>1, <1>2 DEF TurnRecord, Unrecorded
<1> QED
  BY <1>8, <1>9, <1>10, <1>11 DEF Steps

\* A chunk of a streamed narration.
LEMMA AnswerChunkSteps ==
  ASSUME TurnInv, NEW t \in Turn, AnswerChunk(t)
  PROVE  \E q : Steps(t, q) /\ Unrecorded(t, q)
<1> DEFINE r == turn[t]
           w == Append(r.text, "chunk")
           q == [r EXCEPT !.text = w]
<1>1. r \in TurnRecord /\ Underway(r) /\ Said(r)
  BY OneTurn
<1>2. r.at \in {"answering", "agent"} /\ r.ending = "none" /\ loop = NoTurn
      /\ turn' = [turn EXCEPT ![t] = q] /\ loop' = loop /\ last' = last
  BY <1>1 DEF AnswerChunk, Resumes, Becomes, Underway
<1>3. Len(r.text) < MaxChunks /\ r.text \in Seq(Token)
  BY <1>1 DEF AnswerChunk, TurnRecord
<1>4. w \in Seq(Token) /\ Len(w) <= MaxChunks
  BY <1>3, TextFacts, AgentAssumption
<1>5. q \in TurnRecord
  BY <1>1, <1>4 DEF TurnRecord
<1>6. Underway(q)
  BY <1>1, <1>2, <1>4, AgentAssumption DEF TurnRecord, Underway, Silent
<1>7. Said(q)
  BY <1>1, <1>2 DEF TurnRecord, Said
<1>8. Moves(t, q)
  BY <1>1, <1>2, <1>5, <1>6, <1>7 DEF TurnRecord, Moves
<1>9. Yields(t, q)
  BY <1>1, <1>2, OneTurn DEF TurnRecord, Yields, Awaiting, Active
<1>10. Leaves(t, q)
  BY <1>1, <1>2, OneTurn DEF TurnRecord, LastRecord, Leaves
<1>11. Unrecorded(t, q)
  BY <1>1, <1>2 DEF TurnRecord, Unrecorded
<1> QED
  BY <1>8, <1>9, <1>10, <1>11 DEF Steps

\* An exception leaves handle().
LEMMA RaisesSteps ==
  ASSUME TurnInv, NEW t \in Turn, Raises(t)
  PROVE  \E q : Steps(t, q) /\ Unrecorded(t, q)
<1> DEFINE r == turn[t]
           q == [Over(r) EXCEPT !.at = IF r.streamed THEN "closing" ELSE "ended", !.ending = "raised"]
<1>1. r \in TurnRecord /\ Underway(r) /\ Said(r)
  BY OneTurn
<1>2. r.at \in {"routing", "answering", "agent"} /\ r.ending = "none" /\ loop = NoTurn
      /\ turn' = [turn EXCEPT ![t] = q] /\ loop' = loop /\ last' = last
  BY <1>1 DEF Raises, Becomes, Underway
<1>5. q \in TurnRecord
  BY <1>1 DEF TurnRecord, Place, Endings, Decision, Over, Routed
<1>6. Underway(q)
  BY <1>1, <1>2 DEF TurnRecord, Underway, Silent, Over, Routed
<1>7. Said(q)
  BY <1>1, <1>2 DEF TurnRecord, Said, Over, Routed
<1>8. Moves(t, q)
  BY <1>1, <1>2, <1>5, <1>6, <1>7 DEF TurnRecord, Moves, Over, Routed
<1>9. Yields(t, q)
  BY <1>1, <1>2, OneTurn DEF TurnRecord, Yields, Awaiting, Active, Over, Routed
<1>10. Leaves(t, q)
  BY <1>1, <1>2, OneTurn DEF TurnRecord, LastRecord, Leaves, Over, Routed
<1>11. Unrecorded(t, q)
  BY <1>1, <1>2 DEF TurnRecord, Underway, Unrecorded, Conversed, Over, Routed
<1> QED
  BY <1>8, <1>9, <1>10, <1>11 DEF Steps

\* A stream has sent its last event.
LEMMA CloseStreamSteps ==
  ASSUME TurnInv, NEW t \in Turn, CloseStream(t)
  PROVE  \E q : Steps(t, q) /\ Unrecorded(t, q)
<1> DEFINE r == turn[t]
           q == [r EXCEPT !.at = "ended", !.shown = @ \cup ({last.outcome} \ {NoTurn})]
<1>1. r \in TurnRecord /\ Underway(r) /\ Said(r)
  BY OneTurn
<1>2. r.at = "closing" /\ r.ending # "none" /\ loop = NoTurn
      /\ turn' = [turn EXCEPT ![t] = q] /\ loop' = loop /\ last' = last
  BY <1>1 DEF CloseStream, Resumes, Becomes, Underway
<1>5. q \in TurnRecord
  <2>1. last.outcome \in Turn \cup {NoTurn}
    BY OneTurn DEF LastRecord
  <2>2. (r.shown \cup ({last.outcome} \ {NoTurn})) \in SUBSET Turn
    BY <1>1, <2>1 DEF TurnRecord
  <2> QED
    BY <1>1, <2>2 DEF TurnRecord, Place
<1>6. Underway(q)
  BY <1>1, <1>2 DEF TurnRecord, Underway, Silent
<1>7. Said(q)
  BY <1>1, <1>2 DEF TurnRecord, Said
<1>8. Moves(t, q)
  BY <1>1, <1>2, <1>5, <1>6, <1>7 DEF TurnRecord, Moves
<1>9. Yields(t, q)
  BY <1>1, <1>2, OneTurn DEF TurnRecord, Yields, Awaiting, Active
<1>10. Leaves(t, q)
  BY <1>1, <1>2, OneTurn DEF TurnRecord, LastRecord, Leaves
<1>11. Unrecorded(t, q)
  BY <1>1, <1>2 DEF TurnRecord, Unrecorded
<1> QED
  BY <1>8, <1>9, <1>10, <1>11 DEF Steps

\* The client of a stream goes away.
LEMMA ClientLeavesSteps ==
  ASSUME TurnInv, NEW t \in Turn, ClientLeaves(t)
  PROVE  \E q : Steps(t, q) /\ Unrecorded(t, q)
<1> DEFINE r == turn[t]
           q == [Over(r) EXCEPT !.at = "ended", !.ending = IF r.at = "closing" THEN @ ELSE "left"]
<1>1. r \in TurnRecord /\ Underway(r) /\ Said(r)
  BY OneTurn
<1>2. r.at \in Awaiting \cup {"closing"} /\ (r.ending = "none" <=> r.at # "closing")
      /\ loop = NoTurn /\ turn' = [turn EXCEPT ![t] = q] /\ loop' = loop /\ last' = last
  BY <1>1 DEF ClientLeaves, Becomes, Underway, Over, Routed, Awaiting, TurnRecord
<1>5. q \in TurnRecord
  <2>1. Over(r) \in TurnRecord
    BY ONLY <1>1 DEF TurnRecord, Decision, Over, Routed
  <2>2. (IF r.at = "closing" THEN Over(r).ending ELSE "left") \in Endings
    BY ONLY <2>1 DEF TurnRecord, Endings
  <2> QED
    BY ONLY <2>1, <2>2 DEF TurnRecord, Place
<1>6. Underway(q)
  BY <1>1, <1>2 DEF TurnRecord, Underway, Silent, Over, Routed
<1>7. Said(q)
  BY <1>1, <1>2 DEF TurnRecord, Said, Over, Routed
<1>8. Moves(t, q)
  BY <1>1, <1>2, <1>5, <1>6, <1>7 DEF TurnRecord, Moves, Over, Routed, Awaiting
<1>9. Yields(t, q)
  BY <1>1, <1>2, OneTurn DEF TurnRecord, Yields, Awaiting, Active, Over, Routed
<1>10. Leaves(t, q)
  BY <1>1, <1>2, OneTurn DEF TurnRecord, LastRecord, Leaves, Over, Routed
<1>11. Unrecorded(t, q)
  BY <1>1, <1>2 DEF TurnRecord, Underway, Unrecorded, Conversed, Over, Routed
<1> QED
  BY <1>8, <1>9, <1>10, <1>11 DEF Steps

\* What the endpoint does with an outcome, if the text it sends is what Said asks of it.
LEMMA Delivering ==
  ASSUME TurnInv, NEW t \in Turn, NEW reported \in {last.verified, NoTurn},
         NEW ending \in {"answered", "bypassed", "timeout"},
         NEW w \in Seq(Token), Len(w) <= MaxChunks + 1,
         Deliver(t, reported, ending, w),
         turn[t].at \in Awaiting \cup {"finish"}, loop \in {t, NoTurn},
         loop' = NoTurn, last' = [last EXCEPT !.outcome = t],
         turn[t].streamed =>
           /\ ending = "answered" => turn[t].answer \in {w, w \o Caveat, Message}
           /\ ending = "bypassed" => turn[t].answer \in {w, w \o Caveat}
           /\ ending = "timeout" => IsSuffix(Late, w)
  PROVE  \E q : Steps(t, q) /\ q.ending = ending
<1> DEFINE r == turn[t]
           answer == IF r.streamed THEN r.answer ELSE <<>>
           shown == {IF r.streamed THEN last.result ELSE t, reported} \ {NoTurn}
           q == [Over(r) EXCEPT !.at = IF r.streamed THEN "closing" ELSE "ended",
                                !.ending = ending, !.text = w,
                                !.answer = answer, !.shown = shown]
<1>1. r \in TurnRecord /\ Underway(r) /\ Said(r)
  BY OneTurn
<1>2. r.at \in Awaiting \cup {"finish"} /\ r.ending = "none"
  BY <1>1 DEF Underway, Awaiting
<1>3. turn' = [turn EXCEPT ![t] = q]
  BY <1>1 DEF Deliver, Becomes, Over, Routed, TurnRecord
<1>4. answer \in Seq(Token) /\ Len(answer) <= MaxChunks + 1
  BY <1>1, TextFacts, AgentAssumption DEF TurnRecord, Underway
<1>5. shown \in SUBSET Turn /\ shown \subseteq {t, last.result, last.verified}
  BY OneTurn DEF LastRecord
<1> HIDE DEF answer, shown
<1>6. q \in TurnRecord
  <2>1. Over(r) \in TurnRecord
    BY ONLY <1>1 DEF TurnRecord, Decision, Over, Routed
  <2>2. w \in Seq(Token) /\ ending \in Endings
    BY DEF Endings
  <2> QED
    BY ONLY <2>1, <2>2, <1>4, <1>5 DEF TurnRecord, Place
<1>7. /\ q.at = IF r.streamed THEN "closing" ELSE "ended"
      /\ q.ending = ending /\ q.text = w /\ q.answer = answer /\ q.shown = shown
      /\ q.session = r.session /\ q.overlapped = r.overlapped /\ q.streamed = r.streamed
  BY <1>1 DEF TurnRecord, Over, Routed
<1> HIDE DEF q
<1>8. Underway(q)
  BY <1>4, <1>7 DEF Underway, Silent
<1>9. Said(q)
  BY <1>7 DEF Said, answer
<1>10. Moves(t, q)
  BY <1>2, <1>3, <1>6, <1>7, <1>8, <1>9 DEF Moves, Awaiting
<1>11. Yields(t, q)
  BY <1>7, OneTurn DEF Yields, Active
<1>12. Leaves(t, q)
  BY <1>5, <1>7, OneTurn DEF LastRecord, Leaves
<1> QED
  BY <1>7, <1>10, <1>11, <1>12 DEF Steps

\* The text a stream has sent when its turn is over.
LEMMA DeliveredFacts ==
  ASSUME TurnInv, NEW t \in Turn, turn[t].at = "finish"
  PROVE  /\ Delivered(t) \in Seq(Token) /\ Len(Delivered(t)) <= MaxChunks + 1
         /\ turn[t].streamed =>
              \/ turn[t].answer \in {Delivered(t), Delivered(t) \o Caveat}
              \/ ~turn[t].prefixed /\ turn[t].answer = Message
<1>1. turn[t] \in TurnRecord /\ Underway(turn[t]) /\ Said(turn[t])
  BY OneTurn
<1> QED
  BY <1>1 DEF TurnRecord, Underway, Said, Delivered

\* A routed turn is recorded.
LEMMA FinishRoutedSteps ==
  ASSUME TurnInv, NEW t \in Turn, NEW stored \in BOOLEAN, FinishRouted(t, stored)
  PROVE  \E q : Steps(t, q) /\ q.ending = "answered"
<1>1. /\ loop = t /\ turn[t].at = "finish" /\ loop' = NoTurn
      /\ last' = [last EXCEPT !.outcome = t]
      /\ Deliver(t, last.verified, "answered", Delivered(t))
  BY DEF FinishRouted, Runs
<1> QED
  BY <1>1, DeliveredFacts, Delivering

\* A prefixed turn is.
LEMMA FinishPrefixedSteps ==
  ASSUME TurnInv, NEW t \in Turn, FinishPrefixed(t)
  PROVE  \E q : Steps(t, q) /\ q.ending = "bypassed"
<1>1. /\ loop = t /\ turn[t].at = "finish" /\ turn[t].prefixed /\ loop' = NoTurn
      /\ last' = [last EXCEPT !.outcome = t]
      /\ Deliver(t, NoTurn, "bypassed", Delivered(t))
  BY DEF FinishPrefixed, Runs
<1> QED
  BY <1>1, DeliveredFacts, Delivering

\* The deadline.
LEMMA TimeoutSteps ==
  ASSUME TurnInv, NEW t \in Turn, Timeout(t)
  PROVE  \E q : Steps(t, q) /\ q.ending = "timeout"
<1> DEFINE w == IF turn[t].streamed THEN turn[t].text \o Late ELSE <<>>
<1>1. /\ loop = NoTurn /\ turn[t].at \in Awaiting /\ loop' = NoTurn
      /\ last' = [last EXCEPT !.outcome = t]
      /\ Deliver(t, NoTurn, "timeout", w)
  BY DEF Timeout
<1>2. turn[t].text \in Seq(Token) /\ Len(turn[t].text) <= MaxChunks
  BY <1>1, OneTurn DEF TurnRecord, Underway, Awaiting
<1>3. w \in Seq(Token) /\ Len(w) <= MaxChunks + 1 /\ (turn[t].streamed => IsSuffix(Late, w))
  BY <1>2, TextFacts, LateIsLast, AgentAssumption
<1> HIDE DEF w
<1> QED
  BY <1>1, <1>3, Delivering

-----------------------------------------------------------------------------
(* What a step does to the turns                                              *)

\* Every step of a turn but its start.
Act(t) == LoopStep(t) \/ LLMStep(t) \/ Timeout(t) \/ CloseStream(t) \/ ClientLeaves(t)

\* A step of a turn records it as answered, or answers it without a record, or leaves
\* the records alone.
Records(t, q) ==
  \/ (\E stored \in BOOLEAN : FinishRouted(t, stored)) /\ q.ending = "answered"
  \/ FinishPrefixed(t) /\ q.ending = "bypassed"
  \/ Unrecorded(t, q) /\ UNCHANGED <<store, written, audit, log>>

\* Every action of the model is one of these steps.
LEMMA ActSteps ==
  ASSUME TurnInv, NEW t \in Turn, Act(t)
  PROVE  \E q : Steps(t, q) /\ Records(t, q)
<1>1. CASE DispatchPrefixed(t)
  BY <1>1, DispatchPrefixedSteps DEF DispatchPrefixed, Records
<1>2. CASE DispatchRouted(t)
  BY <1>2, DispatchRoutedSteps DEF DispatchRouted, Records
<1>3. CASE PathEndsAtOnce(t)
  BY <1>3, PathEndsAtOnceSteps DEF PathEndsAtOnce, Records
<1>4. CASE PlaybookIsEmpty(t)
  BY <1>4, PlaybookIsEmptySteps DEF PlaybookIsEmpty, Records
<1>5. ASSUME NEW hit \in BOOLEAN, NEW rows \in BOOLEAN, PathQueries(t, hit, rows)
      PROVE  \E q : Steps(t, q) /\ Records(t, q)
  BY <1>5, PathQueriesSteps DEF PathQueries, Records
<1>6. CASE PathAwaits(t)
  BY <1>6, PathAwaitsSteps DEF PathAwaits, Records
<1>7. ASSUME NEW stored \in BOOLEAN, FinishRouted(t, stored)
      PROVE  \E q : Steps(t, q) /\ Records(t, q)
  BY <1>7, FinishRoutedSteps DEF Records
<1>8. CASE FinishPrefixed(t)
  BY <1>8, FinishPrefixedSteps DEF Records
<1>9. ASSUME NEW d \in Decision, RoutingAnswers(t, d)
      PROVE  \E q : Steps(t, q) /\ Records(t, q)
  BY <1>9, RoutingAnswersSteps DEF RoutingAnswers, Records
<1>10. CASE SqlRejected(t)
  BY <1>10, SqlRejectedSteps DEF SqlRejected, Records
<1>11. ASSUME NEW hit \in BOOLEAN, NEW rows \in BOOLEAN, SqlRuns(t, hit, rows)
       PROVE  \E q : Steps(t, q) /\ Records(t, q)
  BY <1>11, SqlRunsSteps DEF SqlRuns, Records
<1>12. CASE SqlFails(t)
  BY <1>12, SqlFailsSteps DEF SqlFails, Records
<1>13. CASE AnswerChunk(t)
  BY <1>13, AnswerChunkSteps DEF AnswerChunk, Records
<1>14. ASSUME NEW ungrounded \in BOOLEAN, AnswerEnds(t, ungrounded)
       PROVE  \E q : Steps(t, q) /\ Records(t, q)
  BY <1>14, AnswerEndsSteps DEF AnswerEnds, Records
<1>15. ASSUME NEW generated \in BOOLEAN, NEW ungrounded \in BOOLEAN,
              AgentEnds(t, generated, ungrounded)
       PROVE  \E q : Steps(t, q) /\ Records(t, q)
  BY <1>15, AgentEndsSteps DEF AgentEnds, Records
<1>16. CASE CallFails(t)
  BY <1>16, CallFailsSteps DEF CallFails, Records
<1>17. CASE Raises(t)
  BY <1>17, RaisesSteps DEF Raises, Records
<1>18. CASE Timeout(t)
  <2>1. turn[t].ending = "none"
    BY <1>18, OneTurn DEF Timeout, Underway, Awaiting
  <2> QED
    BY <1>18, <2>1, TimeoutSteps DEF Timeout, Records, Unrecorded, Conversed
<1>19. CASE CloseStream(t)
  BY <1>19, CloseStreamSteps DEF CloseStream, Records
<1>20. CASE ClientLeaves(t)
  BY <1>20, ClientLeavesSteps DEF ClientLeaves, Records
<1> QED
  BY <1>1, <1>2, <1>3, <1>4, <1>5, <1>6, <1>7, <1>8, <1>9, <1>10, <1>11, <1>12, <1>13,
     <1>14, <1>15, <1>16, <1>17, <1>18, <1>19, <1>20 DEF Act, LoopStep, LLMStep

\* The turn that takes a step, and the others.
LEMMA ActTurns ==
  ASSUME TurnInv, NEW t \in Turn, NEW q, Steps(t, q)
  PROVE  /\ turn' \in [Turn -> TurnRecord]
         /\ turn'[t] = q /\ \A u \in Turn \ {t} : turn'[u] = turn[u]
         /\ loop' \in Turn \cup {NoTurn} /\ last' \in LastRecord
         /\ \A u \in Turn : (turn'[u].at \in Active <=> loop' = u) /\ Underway(turn'[u]) /\ Said(turn'[u])
<1>1. turn \in [Turn -> TurnRecord] /\ turn' = [turn EXCEPT ![t] = q] /\ q \in TurnRecord
      /\ Underway(q) /\ Said(q)
  BY DEF TurnInv, Steps, Moves
<1>2. turn' \in [Turn -> TurnRecord] /\ turn'[t] = q /\ \A u \in Turn \ {t} : turn'[u] = turn[u]
  BY <1>1
<1>3. {loop, loop'} \subseteq {t, NoTurn} /\ (q.at \in Active <=> loop' = t) /\ last' \in LastRecord
  BY DEF Steps, Yields, Leaves
<1>4. ASSUME NEW u \in Turn \ {t}
      PROVE  (turn'[u].at \in Active <=> loop' = u) /\ Underway(turn'[u]) /\ Said(turn'[u])
  BY <1>2, <1>3, <1>4, TurnAssumption DEF TurnInv
<1> QED
  BY <1>1, <1>2, <1>3, <1>4

\* A turn that starts, and the others: they are overlapped by it.
LEMMA StartTurns ==
  ASSUME TurnInv, NEW t \in Turn, NEW expired \in SUBSET Session, Start(t, expired)
  PROVE  /\ turn' \in [Turn -> TurnRecord]
         /\ loop' \in Turn \cup {NoTurn} /\ last' \in LastRecord
         /\ \A u \in Turn : (turn'[u].at \in Active <=> loop' = u) /\ Underway(turn'[u]) /\ Said(turn'[u])
         /\ \A u \in Turn :
              /\ turn'[u].session = turn[u].session /\ turn'[u].ending = turn[u].ending
              /\ turn'[u].shown = turn[u].shown
              /\ turn'[u].at = IF u = t THEN "dispatch" ELSE turn[u].at
              /\ turn'[u].overlapped = IF u = t THEN Running # {}
                                                ELSE turn[u].overlapped \/ u \in Running
<1>1. loop = NoTurn /\ loop' = t /\ turn[t].at = "ready" /\ last' = Reset(last)
  BY DEF Start
<1>2. last' \in LastRecord
  BY <1>1, OneTurn DEF LastRecord, Reset, Forgotten
<1>3. \A u \in Turn : turn[u] \in TurnRecord /\ Underway(turn[u]) /\ Said(turn[u])
                      /\ (turn[u].at \notin Active)
  BY <1>1, OneTurn
<1> DEFINE after(u) ==
             CASE u = t -> [turn[u] EXCEPT !.at = "dispatch", !.overlapped = Running # {}]
               [] u \in Running -> [turn[u] EXCEPT !.overlapped = TRUE]
               [] OTHER -> turn[u]
<1>4. turn' = [u \in Turn |-> after(u)]
  BY DEF Start
<1>5. t \notin Running
  BY <1>1 DEF Running
<1>6. ASSUME NEW u \in Turn
      PROVE  /\ after(u) \in TurnRecord
             /\ after(u).at = IF u = t THEN "dispatch" ELSE turn[u].at
             /\ after(u).overlapped = IF u = t THEN Running # {} ELSE turn[u].overlapped \/ u \in Running
             /\ \A f \in {"session", "streamed", "prefixed", "text", "answer", "ending", "shown"} :
                  after(u)[f] = turn[u][f]
  <2>1. turn[u] \in TurnRecord
    BY <1>3
  <2>2. CASE u = t
    <3>1. after(u) = [turn[u] EXCEPT !.at = "dispatch", !.overlapped = Running # {}]
      BY <1>5, <2>2
    <3> QED
      BY ONLY <1>5, <2>1, <2>2, <3>1 DEF TurnRecord, Place, Active
  <2>3. CASE u # t /\ u \in Running
    <3>1. after(u) = [turn[u] EXCEPT !.overlapped = TRUE]
      BY <2>3
    <3> QED
      BY <2>1, <2>3, <3>1 DEF TurnRecord
  <2>4. CASE u # t /\ u \notin Running
    <3>1. after(u) = turn[u]
      BY <2>4
    <3> QED
      BY <2>1, <2>4, <3>1 DEF TurnRecord
  <2> QED
    BY <2>2, <2>3, <2>4
<1> HIDE DEF after
<1>7. ASSUME NEW u \in Turn
      PROVE  Underway(after(u)) /\ Said(after(u)) /\ (after(u).at \in Active <=> t = u)
  <2>1. Underway(turn[u]) /\ Said(turn[u]) /\ turn[u].at \notin Active
    BY <1>3
  <2>2. Underway(after(u))
    BY <1>1, <1>6, <2>1 DEF Underway, Silent
  <2>3. Said(after(u))
    BY <1>1, <1>6, <2>1 DEF Said
  <2> QED
    BY <1>6, <2>1, <2>2, <2>3 DEF Active
<1> QED
  BY <1>1, <1>2, <1>4, <1>6, <1>7

-----------------------------------------------------------------------------
(* What a bounded sequence keeps                                              *)

\* What a sequence is.
LEMMA Elements ==
  ASSUME NEW S, NEW l \in Seq(S)
  PROVE  /\ Len(l) \in Nat /\ DOMAIN l = 1..Len(l)
         /\ \A i \in DOMAIN l : l[i] \in S
OBVIOUS

\* Its length, and its elements: the last ones.
LEMMA BoundedFacts ==
  ASSUME NEW S, NEW l \in Seq(S), NEW n \in Nat \ {0}
  PROVE  /\ Bounded(n, l) \in Seq(S)
         /\ Len(Bounded(n, l)) = IF Len(l) <= n THEN Len(l) ELSE n
         /\ \A i \in 1..Len(Bounded(n, l)) :
              /\ i + (Len(l) - Len(Bounded(n, l))) \in 1..Len(l)
              /\ Bounded(n, l)[i] = l[i + (Len(l) - Len(Bounded(n, l)))]
<1>1. Len(l) \in Nat /\ \A i \in 1..Len(l) : l[i] \in S
  OBVIOUS
<1>2. CASE Len(l) <= n
  <2>1. Bounded(n, l) = l
    BY <1>2 DEF Bounded
  <2> QED
    BY <1>1, <1>2, <2>1
<1>3. CASE Len(l) > n
  <2> DEFINE m == Len(l) - n + 1
             b == SubSeq(l, m, Len(l))
  <2>1. Bounded(n, l) = b
    BY <1>1, <1>3 DEF Bounded
  <2>2. m \in Int /\ Len(l) \in Int /\ m <= Len(l) /\ m \in 2..Len(l) /\ Len(l) - m + 1 = n
    BY <1>1, <1>3
  <2>3. \A i \in m..Len(l) : l[i] \in S
    BY <1>1, <2>2
  <2>4. /\ b \in Seq(S) /\ Len(b) = IF m <= Len(l) THEN Len(l) - m + 1 ELSE 0
        /\ \A i \in 1..(Len(l) - m + 1) : b[i] = l[m + i - 1]
    BY ONLY <2>2, <2>3, SubSeqProperties
  <2> HIDE DEF b
  <2>5. Len(b) = n
    BY <2>2, <2>4
  <2>6. ASSUME NEW i \in 1..Len(b)
        PROVE  i + (Len(l) - Len(b)) \in 1..Len(l) /\ b[i] = l[i + (Len(l) - Len(b))]
    <3>1. i \in 1..n
      BY <2>5
    <3>2. m + i - 1 = i + (Len(l) - n)
      BY <1>1, <3>1
    <3>3. b[i] = l[m + i - 1]
      BY <2>2, <2>4, <3>1
    <3> QED
      BY <1>1, <1>3, <2>5, <3>1, <3>2, <3>3
  <2> QED
    BY <1>3, <2>1, <2>4, <2>5, <2>6
<1> QED
  BY <1>1, <1>2, <1>3

-----------------------------------------------------------------------------
(* What a turn that none overlapped shows                                     *)

\* Running, after a step of a turn under way: nobody else has begun.
LEMMA RunningAfter ==
  ASSUME TurnInv, NEW t \in Turn, NEW q, Steps(t, q)
  PROVE  t \in Running /\ Running' \subseteq Running
<1>1. turn'[t] = q /\ \A u \in Turn \ {t} : turn'[u] = turn[u]
  BY ActTurns
<1>2. turn[t].at \notin {"ready", "ended"}
  BY DEF Steps, Moves
<1> QED
  BY <1>1, <1>2 DEF Running

\* A turn's own work is all it shows, after a step of any turn under way.
LEMMA ActSolo ==
  ASSUME TurnInv, SoloInv, NEW t \in Turn, NEW q, Steps(t, q),
         turn[t].ending = "raised" => q.ending = "raised"
  PROVE  SoloInv'
<1> SUFFICES ASSUME NEW u \in Turn, ~turn'[u].overlapped
             PROVE  /\ u \in Running' =>
                         /\ Running' = {u}
                         /\ {last'.result, last'.sql, last'.hit, last'.verified} \subseteq {NoTurn, u}
                         /\ turn'[u].at = "closing" /\ turn'[u].ending # "raised" => last'.outcome = u
                    /\ turn'[u].ending # "raised" => turn'[u].shown \subseteq {u}
  BY DEF SoloInv
<1>1. turn'[t] = q /\ \A v \in Turn \ {t} : turn'[v] = turn[v]
  BY ActTurns
<1>2. t \in Running /\ Running' \subseteq Running
  BY RunningAfter
<1>3. CASE u = t
  <2>1. ~turn[t].overlapped
    BY <1>1, <1>3 DEF Steps, Moves
  <2>2. Running = {t} /\ {last.result, last.sql, last.hit, last.verified} \subseteq {NoTurn, t}
        /\ (turn[t].at = "closing" /\ turn[t].ending # "raised" => last.outcome = t)
        /\ (turn[t].ending # "raised" => turn[t].shown \subseteq {t})
    BY <1>2, <2>1 DEF SoloInv
  <2>3. {last'.result, last'.sql, last'.hit, last'.verified} \subseteq {NoTurn, t}
        /\ (q.at = "closing" /\ q.ending # "raised" => last'.outcome = t)
    BY <2>2 DEF Steps, Leaves
  <2>4. q.ending # "raised" => q.shown \subseteq {NoTurn, t}
    BY <2>2 DEF Steps, Leaves
  <2>5. q.shown \subseteq Turn
    BY DEF Steps, Moves, TurnRecord
  <2> QED
    BY <1>1, <1>2, <1>3, <2>2, <2>3, <2>4, <2>5, TurnAssumption
<1>4. CASE u # t
  <2>1. turn'[u] = turn[u] /\ u \notin Running
    BY <1>1, <1>2, <1>4 DEF SoloInv
  <2> QED
    BY <1>2, <2>1 DEF SoloInv
<1> QED
  BY <1>3, <1>4

\* And after the start of one.
LEMMA StartSolo ==
  ASSUME TurnInv, SoloInv, NEW t \in Turn, NEW expired \in SUBSET Session, Start(t, expired)
  PROVE  SoloInv'
<1> SUFFICES ASSUME NEW u \in Turn, ~turn'[u].overlapped
             PROVE  /\ u \in Running' =>
                         /\ Running' = {u}
                         /\ {last'.result, last'.sql, last'.hit, last'.verified} \subseteq {NoTurn, u}
                         /\ turn'[u].at = "closing" /\ turn'[u].ending # "raised" => last'.outcome = u
                    /\ turn'[u].ending # "raised" => turn'[u].shown \subseteq {u}
  BY DEF SoloInv
<1>1. \A v \in Turn :
        /\ turn'[v].ending = turn[v].ending /\ turn'[v].shown = turn[v].shown
        /\ turn'[v].at = IF v = t THEN "dispatch" ELSE turn[v].at
        /\ turn'[v].overlapped = IF v = t THEN Running # {} ELSE turn[v].overlapped \/ v \in Running
  BY StartTurns
<1>2. CASE u = t
  <2>1. Running = {}
    BY <1>1, <1>2
  <2>2. Running' = {t}
    BY <1>1, <2>1 DEF Running
  <2>3. last'.result = NoTurn /\ last'.sql = NoTurn /\ last'.hit = NoTurn /\ last'.verified = NoTurn
    BY DEF Start, Reset, Forgotten
  <2>4. turn[t].shown = {}
    BY OneTurn DEF Start, Underway
  <2> QED
    BY <1>1, <1>2, <2>2, <2>3, <2>4
<1>3. CASE u # t
  <2>1. u \notin Running' /\ ~turn[u].overlapped
    BY <1>1, <1>3 DEF Running
  <2> QED
    BY <1>1, <2>1 DEF SoloInv
<1> QED
  BY <1>2, <1>3

-----------------------------------------------------------------------------
(* What is recorded                                                           *)

\* Nobody's record changes: sessions and answered turns are what they were, and no
\* answered turn that was overlapped is alone again.
Frame ==
  \A u \in Turn :
    /\ turn'[u].session = turn[u].session
    /\ turn[u].ending = "answered" /\ ~turn'[u].overlapped => ~turn[u].overlapped
    /\ turn'[u].ending = "answered" <=> turn[u].ending = "answered"

\* The step in which a routed turn ends with an answer.
Finishes(t) == \E stored \in BOOLEAN : FinishRouted(t, stored)

\* A step changes the record of one turn at most.
LEMMA ActFrame ==
  ASSUME TurnInv, NEW t \in Turn, NEW q, Steps(t, q), Records(t, q)
  PROVE  /\ ~Finishes(t) => Frame
         /\ Finishes(t) => turn[t].ending = "none"
         /\ turn[t].ending = "raised" => q.ending = "raised"
         /\ turn'[t] = q
         /\ \A u \in Turn : turn[u].ending \in Conversed => turn'[u].ending \in Conversed
         /\ \A u \in Turn : turn'[u].session = turn[u].session /\ turn'[u].overlapped = turn[u].overlapped
<1>1. turn'[t] = q /\ \A u \in Turn \ {t} : turn'[u] = turn[u]
  BY ActTurns
<1>2. q.session = turn[t].session /\ q.overlapped = turn[t].overlapped
  BY DEF Steps, Moves
<1>3. Finishes(t) \/ FinishPrefixed(t) => turn[t].ending = "none"
  BY OneTurn DEF Finishes, FinishRouted, FinishPrefixed, Runs, Underway
<1>4. ~Finishes(t) => (q.ending = "answered" <=> turn[t].ending = "answered")
  BY <1>3 DEF Records, Unrecorded, Finishes
<1>5. turn[t].ending = "raised" => q.ending = "raised"
  BY <1>3 DEF Records, Unrecorded, Finishes
<1>8. \A u \in Turn : turn[u].ending \in Conversed => turn'[u].ending \in Conversed
  BY <1>1, <1>3 DEF Records, Unrecorded, Conversed, Finishes
<1>6. \A u \in Turn : turn'[u].session = turn[u].session /\ turn'[u].overlapped = turn[u].overlapped
  BY <1>1, <1>2
<1>7. ~Finishes(t) => Frame
  BY <1>1, <1>4, <1>6 DEF Frame
<1> QED
  BY <1>1, <1>3, <1>5, <1>6, <1>7, <1>8

\* The audit log, when nobody's record changes.
LEMMA FrameAudit == ASSUME AuditInv, Frame, audit' = audit PROVE AuditInv'
<1>1. audit \in Seq([of : Turn, shown : SUBSET Turn, stored : BOOLEAN])
  BY DEF AuditInv
<1>2. \A i \in DOMAIN audit : audit[i].of \in Turn
  <2>1. \A i \in DOMAIN audit : audit[i] \in [of : Turn, shown : SUBSET Turn, stored : BOOLEAN]
    BY <1>1, Elements
  <2> QED
    BY <2>1
<1> QED
  BY <1>2 DEF AuditInv, Frame

\* And when a turn is recorded.
LEMMA FinishAudit ==
  ASSUME TurnInv, SoloInv, AuditInv, NEW t \in Turn, NEW q, Steps(t, q), Records(t, q),
         NEW stored \in BOOLEAN, FinishRouted(t, stored), q.ending = "answered"
  PROVE  AuditInv'
<1> DEFINE a == [of |-> t, shown |-> {last.sql, last.hit} \ {NoTurn}, stored |-> stored]
           n == Len(audit)
           R == [of : Turn, shown : SUBSET Turn, stored : BOOLEAN]
<1>1. audit \in Seq(R) /\ n \in Nat /\ DOMAIN audit = 1..n /\ \A i \in 1..n : audit[i] \in R
  <2>1. audit \in Seq(R)
    BY DEF AuditInv
  <2> HIDE DEF R
  <2>2. Len(audit) \in Nat /\ DOMAIN audit = 1..Len(audit) /\ \A i \in DOMAIN audit : audit[i] \in R
    BY <2>1, Elements
  <2> QED
    BY <2>1, <2>2
<1>2. turn[t].ending = "none" /\ turn'[t] = q /\ \A u \in Turn \ {t} : turn'[u] = turn[u]
  BY ActFrame, ActTurns DEF Finishes
<1>3. \A u \in Turn : turn'[u].overlapped = turn[u].overlapped
  BY ActFrame
<1>4. last.sql \in Turn \cup {NoTurn} /\ last.hit \in Turn \cup {NoTurn}
  BY OneTurn DEF LastRecord
<1>5. a \in R /\ a.of = t /\ a.shown = {last.sql, last.hit} \ {NoTurn}
  BY <1>4
<1>6. ~turn[t].overlapped => a.shown \subseteq {t}
  BY <1>5, RunningAfter DEF SoloInv
<1>16. Finishes(t)
  BY DEF Finishes
<1>17. CASE ~AuditEnabled
  <2>1. audit' = audit /\ DOMAIN audit = {}
    BY <1>17 DEF FinishRouted, Recorded, AuditInv
  <2>2. audit \in Seq(R)
    BY DEF AuditInv
  <2> QED
    BY <1>17, <2>1, <2>2 DEF AuditInv
<1>18. SUFFICES ASSUME AuditEnabled PROVE AuditInv'
  BY <1>17
<1>7. audit' = Append(audit, a)
  BY <1>18 DEF FinishRouted, Recorded
<1> HIDE DEF a, n
<1>8. audit' \in Seq(R) /\ DOMAIN audit' = 1..(n + 1) /\ audit'[n + 1] = a
      /\ \A i \in 1..n : audit'[i] = audit[i]
  BY <1>1, <1>5, <1>7 DEF n
<1>9. \A i \in 1..(n + 1) : i \in 1..n \/ i = n + 1
  BY <1>1
<1>10. \A i \in 1..n : i \in 1..(n + 1) /\ i # n + 1
  BY <1>1
<1>11. n + 1 \in 1..(n + 1)
  BY <1>1
<1>12. \A i \in 1..n : audit[i].of \in Turn /\ audit[i].of # t
  BY <1>1, <1>2 DEF AuditInv
<1>13. ASSUME NEW i \in 1..(n + 1)
       PROVE  turn'[audit'[i].of].ending = "answered"
              /\ (~turn'[audit'[i].of].overlapped => audit'[i].shown \subseteq {audit'[i].of})
  <2>1. CASE i \in 1..n
    <3>1. audit'[i] = audit[i] /\ audit[i].of \in Turn \ {t}
      BY <1>8, <1>12, <2>1
    <3>2. turn'[audit[i].of] = turn[audit[i].of]
      BY <1>2, <3>1
    <3> QED
      BY <1>1, <2>1, <3>1, <3>2 DEF AuditInv
  <2>2. CASE i = n + 1
    BY <1>2, <1>3, <1>5, <1>6, <1>8, <2>2
  <2> QED
    BY <1>9, <2>1, <2>2
<1>14. ASSUME NEW u \in Turn, turn'[u].ending = "answered"
       PROVE  \E i \in 1..(n + 1) : audit'[i].of = u
  <2>1. CASE u = t
    BY <1>5, <1>8, <1>11, <2>1
  <2>2. CASE u # t
    <3>1. PICK i \in 1..n : audit[i].of = u
      BY <1>1, <1>2, <1>14, <1>18, <2>2 DEF AuditInv
    <3> QED
      BY <1>8, <1>10, <3>1
  <2> QED
    BY <2>1, <2>2
<1>15. ASSUME NEW i \in 1..(n + 1), NEW j \in 1..(n + 1), audit'[i].of = audit'[j].of
       PROVE  i = j
  <2>1. CASE i \in 1..n /\ j \in 1..n
    BY <1>1, <1>8, <1>15, <2>1 DEF AuditInv
  <2>2. CASE i = n + 1 \/ j = n + 1
    BY <1>5, <1>8, <1>9, <1>12, <1>15, <2>2
  <2> QED
    BY <1>9, <2>1, <2>2
<1> QED
  BY <1>8, <1>13, <1>14, <1>15, <1>18 DEF AuditInv

\* A session's working set, when nobody's record changes and it is not written.
LEMMA FrameResults ==
  ASSUME TurnInv, ResultsInv, Frame,
         \A x \in Session : store'[x].results \in {store[x].results, <<>>}
  PROVE  ResultsInv'
<1> SUFFICES ASSUME NEW x \in Session
             PROVE  /\ Len(store'[x].results) <= WorkingSetSize
                    /\ \A i \in DOMAIN store'[x].results :
                         LET e == store'[x].results[i]
                         IN /\ turn'[e.label].ending = "answered" /\ turn'[e.label].session = x
                            /\ ~turn'[e.label].overlapped => e.result = e.label
  BY DEF ResultsInv
<1>1. CASE store'[x].results = <<>>
  <2>1. Len(<<>>) = 0 /\ DOMAIN <<>> = {}
    OBVIOUS
  <2> QED
    BY <1>1, <2>1, StoreAssumption
<1>2. CASE store'[x].results = store[x].results
  <2>1. store[x].results \in Seq([label : Turn, result : Turn])
    BY DEF TurnInv, StoreRecord
  <2>2. \A i \in DOMAIN store[x].results : store[x].results[i] \in [label : Turn, result : Turn]
    BY <2>1, Elements
  <2>3. \A i \in DOMAIN store[x].results : store[x].results[i].label \in Turn
    BY <2>2
  <2> QED
    BY <1>2, <2>3 DEF ResultsInv, Frame
<1> QED
  BY <1>1, <1>2

\* When a turn is recorded, what it leaves in its working set is its own, if no other
\* overlapped it.
LEMMA FinishResults ==
  ASSUME TurnInv, SoloInv, ResultsInv, NEW t \in Turn, NEW q, Steps(t, q), Records(t, q),
         NEW stored \in BOOLEAN, FinishRouted(t, stored), q.ending = "answered"
  PROVE  /\ ResultsInv'
         /\ \A x \in Session : store'[x].results \in Seq([label : Turn, result : Turn])
<1> DEFINE E == [label : Turn, result : Turn]
           s == turn[t].session
           old == store[s].results
           a == [label |-> t, result |-> last.result]
           new == Bounded(WorkingSetSize, Append(old, a))
<1>1. turn[t].ending = "none" /\ turn'[t] = q /\ \A u \in Turn \ {t} : turn'[u] = turn[u]
  BY ActFrame, ActTurns DEF Finishes
<1>2. \A u \in Turn : turn'[u].overlapped = turn[u].overlapped /\ turn'[u].session = turn[u].session
  BY ActFrame
<1>3. s \in Session /\ store \in [Session -> StoreRecord] /\ last.result \in Turn \cup {NoTurn}
  BY OneTurn DEF TurnRecord, TurnInv, LastRecord
<1>4. /\ \A x \in Session \ {s} : store'[x] = store[x]
      /\ \/ store'[s].results = old
         \/ last.result # NoTurn /\ store'[s].results = new
  BY <1>3 DEF FinishRouted, StoreRecord
<1>5. \A x \in Session : store[x].results \in Seq(E)
  BY <1>3 DEF StoreRecord
<1>6. ~turn[t].overlapped => last.result \in {NoTurn, t}
  BY RunningAfter DEF SoloInv
<1>7. last.result # NoTurn => a \in E
  BY <1>3
<1>8. a.label = t /\ a.result = last.result
  OBVIOUS
<1>9. \A e \in E : e.label \in Turn
  OBVIOUS
<1> HIDE DEF E, s, a
<1> DEFINE Good(e, x) == /\ turn'[e.label].ending = "answered" /\ turn'[e.label].session = x
                         /\ ~turn'[e.label].overlapped => e.result = e.label
<1>10. ASSUME NEW x \in Session, NEW i \in DOMAIN store[x].results
       PROVE  Good(store[x].results[i], x)
  <2>1. store[x].results[i] \in E
    BY <1>5, Elements
  <2>2. store[x].results[i].label \in Turn
    BY <1>9, <2>1
  <2>3. turn[store[x].results[i].label].ending = "answered"
        /\ turn[store[x].results[i].label].session = x
        /\ (~turn[store[x].results[i].label].overlapped =>
              store[x].results[i].result = store[x].results[i].label)
    BY DEF ResultsInv
  <2>4. turn'[store[x].results[i].label] = turn[store[x].results[i].label]
    BY <1>1, <2>2, <2>3
  <2> QED
    BY <2>3, <2>4
<1>11. last.result # NoTurn => Good(a, s)
  BY <1>1, <1>2, <1>6, <1>8 DEF s
<1> HIDE DEF Good
<1>12. \A x \in Session : Len(store[x].results) <= WorkingSetSize
  BY DEF ResultsInv
<1>13. CASE store'[s].results = old
  <2>1. ASSUME NEW x \in Session
        PROVE  /\ store'[x].results \in Seq(E) /\ Len(store'[x].results) <= WorkingSetSize
               /\ \A i \in DOMAIN store'[x].results : Good(store'[x].results[i], x)
    <3>1. store'[x].results = store[x].results
      BY <1>4, <1>13
    <3> QED
      BY <1>5, <1>10, <1>12, <3>1
  <2> QED
    BY <2>1 DEF ResultsInv, Good, E
<1>14. CASE last.result # NoTurn /\ store'[s].results = new
  <2> DEFINE l == Append(old, a)
  <2>1. old \in Seq(E) /\ a \in E /\ Len(old) \in Nat
    BY <1>3, <1>5, <1>7, <1>14
  <2>2. l \in Seq(E) /\ Len(l) = Len(old) + 1 /\ l[Len(old) + 1] = a
        /\ \A i \in 1..Len(old) : l[i] = old[i]
    BY <2>1
  <2> HIDE DEF l
  <2>3. \A i \in 1..Len(l) : Good(l[i], s)
    <3>1. \A i \in 1..Len(l) : i \in 1..Len(old) \/ i = Len(old) + 1
      BY <2>1, <2>2
    <3>2. \A i \in 1..Len(old) : Good(old[i], s)
      BY <1>3, <1>10, <2>1, Elements
    <3> QED
      BY <1>11, <1>14, <2>2, <3>1, <3>2
  <2>4. /\ new \in Seq(E) /\ Len(new) <= WorkingSetSize
        /\ \A i \in 1..Len(new) : \E j \in 1..Len(l) : new[i] = l[j]
    <3>1. new = Bounded(WorkingSetSize, l)
      BY DEF l
    <3> HIDE DEF new
    <3>2. /\ new \in Seq(E)
          /\ Len(new) = IF Len(l) <= WorkingSetSize THEN Len(l) ELSE WorkingSetSize
          /\ \A i \in 1..Len(new) : \E j \in 1..Len(l) : new[i] = l[j]
      <4>1. WorkingSetSize \in Nat \ {0} /\ l \in Seq(E)
        BY <2>2, StoreAssumption
      <4>2. /\ new \in Seq(E)
            /\ Len(new) = IF Len(l) <= WorkingSetSize THEN Len(l) ELSE WorkingSetSize
            /\ \A i \in 1..Len(new) :
                 /\ i + (Len(l) - Len(new)) \in 1..Len(l)
                 /\ new[i] = l[i + (Len(l) - Len(new))]
        BY ONLY <3>1, <4>1, BoundedFacts
      <4> QED
        BY <4>2
    <3> QED
      BY <2>1, <2>2, <3>2, StoreAssumption
  <2> HIDE DEF new
  <2>5. \A i \in DOMAIN new : Good(new[i], s)
    BY <2>3, <2>4, Elements
  <2>6. ASSUME NEW x \in Session
        PROVE  /\ store'[x].results \in Seq(E) /\ Len(store'[x].results) <= WorkingSetSize
               /\ \A i \in DOMAIN store'[x].results : Good(store'[x].results[i], x)
    <3>1. CASE x = s
      BY <1>14, <2>4, <2>5, <3>1
    <3>2. CASE x # s
      BY <1>4, <1>5, <1>10, <1>12, <3>2
    <3> QED
      BY <3>1, <3>2
  <2> QED
    BY <2>6 DEF ResultsInv, Good, E
<1> QED
  BY <1>4, <1>13, <1>14

-----------------------------------------------------------------------------
(* The history of a session                                                   *)

\* A bounded sequence that grows keeps what the whole one would.
LEMMA BoundedGrows ==
  ASSUME NEW S, NEW h \in Seq(S), NEW p \in Seq(S), NEW n \in Nat \ {0}
  PROVE  Bounded(n, Bounded(n, h) \o p) = Bounded(n, h \o p)
<1> DEFINE b == Bounded(n, h)
           c == b \o p
           d == h \o p
           x == Bounded(n, c)
           y == Bounded(n, d)
<1>1. /\ b \in Seq(S) /\ Len(b) = IF Len(h) <= n THEN Len(h) ELSE n
      /\ \A i \in 1..Len(b) : i + (Len(h) - Len(b)) \in 1..Len(h) /\ b[i] = h[i + (Len(h) - Len(b))]
  BY BoundedFacts
<1> HIDE DEF b
<1>2. /\ c \in Seq(S) /\ Len(c) = Len(b) + Len(p)
      /\ \A i \in 1..(Len(b) + Len(p)) : c[i] = IF i <= Len(b) THEN b[i] ELSE p[i - Len(b)]
  BY <1>1, ConcatProperties
<1>3. /\ d \in Seq(S) /\ Len(d) = Len(h) + Len(p)
      /\ \A i \in 1..(Len(h) + Len(p)) : d[i] = IF i <= Len(h) THEN h[i] ELSE p[i - Len(h)]
  BY ConcatProperties
<1> HIDE DEF c, d
<1>4. /\ x \in Seq(S) /\ Len(x) = IF Len(c) <= n THEN Len(c) ELSE n
      /\ \A i \in 1..Len(x) : i + (Len(c) - Len(x)) \in 1..Len(c) /\ x[i] = c[i + (Len(c) - Len(x))]
  BY <1>2, BoundedFacts
<1>5. /\ y \in Seq(S) /\ Len(y) = IF Len(d) <= n THEN Len(d) ELSE n
      /\ \A i \in 1..Len(y) : i + (Len(d) - Len(y)) \in 1..Len(d) /\ y[i] = d[i + (Len(d) - Len(y))]
  BY <1>3, BoundedFacts
<1> HIDE DEF x, y
<1>6. Len(h) \in Nat /\ Len(p) \in Nat /\ Len(b) \in Nat /\ Len(c) \in Nat /\ Len(d) \in Nat
      /\ Len(x) \in Nat /\ Len(y) \in Nat /\ n \in Nat
  BY <1>1, <1>2, <1>3, <1>4, <1>5
<1> DEFINE lh == Len(h)  lp == Len(p)  lb == Len(b)  lc == Len(c)  ld == Len(d)  lx == Len(x)  ly == Len(y)
<1>7. lb = (IF lh <= n THEN lh ELSE n) /\ lc = lb + lp /\ ld = lh + lp
      /\ lx = (IF lc <= n THEN lc ELSE n) /\ ly = (IF ld <= n THEN ld ELSE n)
  BY <1>1, <1>2, <1>3, <1>4, <1>5
<1>8. lx = ly /\ lb <= lh /\ (lb < lh => lb = n /\ lx = n)
  BY ONLY <1>6, <1>7
<1>9. ASSUME NEW i \in 1..lx
      PROVE  x[i] = y[i]
  <2> DEFINE k == i + (lc - lx)
             m == i + (ld - ly)
  <2>1. k \in 1..lc /\ x[i] = c[k]
    BY <1>4
  <2>2. m \in 1..ld /\ y[i] = d[m]
    BY <1>5, <1>8
  <2>3. i \in Nat /\ k \in Nat /\ m \in Nat /\ m = k + (lh - lb) /\ k \in 1..(lb + lp) /\ m \in 1..(lh + lp)
    <3>1. i \in Nat /\ lh \in Nat /\ lp \in Nat /\ lb \in Nat /\ lc \in Nat /\ ld \in Nat
          /\ lx \in Nat /\ ly \in Nat
      BY <1>6
    <3>2. lc = lb + lp /\ ld = lh + lp /\ lx = ly
      BY <1>7, <1>8
    <3> QED
      BY ONLY <2>1, <2>2, <3>1, <3>2
  <2> HIDE DEF k, m
  <2>4. CASE k <= lb
    <3>1. c[k] = b[k] /\ k \in 1..lb
      BY <1>2, <2>3, <2>4
    <3>2. b[k] = h[m]
      BY <1>1, <2>3, <3>1
    <3>3. m <= lh
      BY <1>6, <2>3, <2>4
    <3>4. d[m] = h[m]
      BY <1>3, <2>3, <3>3
    <3> QED
      BY <2>1, <2>2, <3>1, <3>2, <3>4
  <2>5. CASE ~(k <= lb)
    <3>1. c[k] = p[k - lb]
      BY <1>2, <2>3, <2>5
    <3>2. ~(m <= lh) /\ m - lh = k - lb
      BY <1>6, <2>3, <2>5
    <3>3. d[m] = p[m - lh]
      BY <1>3, <2>3, <3>2
    <3> QED
      BY <2>1, <2>2, <3>1, <3>2, <3>3
  <2> QED
    BY <2>4, <2>5
<1>10. x = y
  BY ONLY <1>4, <1>5, <1>8, <1>9, SeqEqual
<1> QED
  BY <1>10 DEF x, y, c, d, b

Msg == [role : {"user", "assistant"}, of : Turn]
Pair(t) == <<[role |-> "user", of |-> t], [role |-> "assistant", of |-> t]>>

\* The messages of a conversation: two of each turn.
LEMMA MessagesFacts ==
  ASSUME NEW l \in Seq(Turn)
  PROVE  Messages(l) \in Seq(Msg) /\ Len(Messages(l)) = 2 * Len(l)
<1> DEFINE n == 2 * Len(l)
<1>1. Len(l) \in Nat /\ n \in Nat /\ DOMAIN l = 1..Len(l) /\ \A i \in DOMAIN l : l[i] \in Turn
  BY Elements
<1>2. ASSUME NEW i \in 1..n
      PROVE  (IF i % 2 = 1 THEN [role |-> "user", of |-> l[(i + 1) \div 2]]
                          ELSE [role |-> "assistant", of |-> l[i \div 2]]) \in Msg
  <2>1. CASE i % 2 = 1
    <3>1. (i + 1) \div 2 \in 1..Len(l)
      BY <1>1, <2>1
    <3> QED
      BY <1>1, <2>1, <3>1 DEF Msg
  <2>2. CASE i % 2 # 1
    <3>1. i \div 2 \in 1..Len(l)
      BY <1>1, <2>2
    <3> QED
      BY <1>1, <2>2, <3>1 DEF Msg
  <2> QED
    BY <2>1, <2>2
<1>3. Messages(l) \in [1..n -> Msg]
  BY <1>2 DEF Messages
<1> HIDE DEF n
<1>4. Messages(l) \in Seq(Msg) /\ Len(Messages(l)) = n
  BY <1>1, <1>3
<1> QED
  BY <1>4 DEF n

\* A conversation without turns has none.
LEMMA NoMessages == Bounded(HistorySize, Messages(<<>>)) = <<>>
<1> DEFINE m == Messages(<<>>)
<1>1. <<>> \in Seq(Turn) /\ 2 * Len(<<>>) = 0
  OBVIOUS
<1>2. m \in Seq(Msg) /\ Len(m) = 2 * Len(<<>>)
  BY <1>1, MessagesFacts
<1> HIDE DEF m
<1>3. m = <<>>
  BY <1>1, <1>2
<1>4. Bounded(HistorySize, <<>>) = <<>>
  BY StoreAssumption DEF Bounded
<1> QED
  BY <1>3, <1>4 DEF m

\* A turn more adds its question and its answer.
LEMMA MessagesGrow ==
  ASSUME NEW l \in Seq(Turn), NEW t \in Turn
  PROVE  Messages(Append(l, t)) = Messages(l) \o Pair(t)
<1> DEFINE a == Append(l, t)
           x == Messages(a)
           y == Messages(l) \o Pair(t)
           n == Len(l)
<1>1. n \in Nat /\ a \in Seq(Turn) /\ Len(a) = n + 1 /\ a[n + 1] = t
      /\ \A i \in 1..n : a[i] = l[i]
  OBVIOUS
<1>2. Pair(t) \in Seq(Msg) /\ Len(Pair(t)) = 2
      /\ Pair(t)[1] = [role |-> "user", of |-> t] /\ Pair(t)[2] = [role |-> "assistant", of |-> t]
  BY DEF Pair, Msg
<1>3. Messages(l) \in Seq(Msg) /\ Len(Messages(l)) = 2 * n
  BY MessagesFacts
<1>4. x \in Seq(Msg) /\ Len(x) = 2 * (n + 1)
  BY <1>1, MessagesFacts
<1>5. /\ y \in Seq(Msg) /\ Len(y) = 2 * n + 2
      /\ \A i \in 1..(2 * n + 2) : y[i] = IF i <= 2 * n THEN Messages(l)[i] ELSE Pair(t)[i - 2 * n]
  <2> DEFINE h == Messages(l)
             p == Pair(t)
  <2>1. h \in Seq(Msg) /\ p \in Seq(Msg) /\ Len(h) = 2 * n /\ Len(p) = 2
    BY <1>2, <1>3
  <2> HIDE DEF h, p
  <2>2. /\ h \o p \in Seq(Msg) /\ Len(h \o p) = Len(h) + Len(p)
        /\ \A i \in 1..(Len(h) + Len(p)) : (h \o p)[i] = IF i <= Len(h) THEN h[i] ELSE p[i - Len(h)]
    BY ONLY <2>1, ConcatProperties
  <2> QED
    BY <2>1, <2>2 DEF h, p
<1>6. \A i \in 1..(2 * n) :
        Messages(l)[i] = IF i % 2 = 1 THEN [role |-> "user", of |-> l[(i + 1) \div 2]]
                                      ELSE [role |-> "assistant", of |-> l[i \div 2]]
  BY DEF Messages
<1>7. \A i \in 1..(2 * (n + 1)) :
        x[i] = IF i % 2 = 1 THEN [role |-> "user", of |-> a[(i + 1) \div 2]]
                            ELSE [role |-> "assistant", of |-> a[i \div 2]]
  BY <1>1 DEF Messages
<1> HIDE DEF a, x, y, n
<1>8. ASSUME NEW i \in 1..(2 * (n + 1))
      PROVE  x[i] = y[i]
  <2>1. CASE i <= 2 * n
    <3>1. i \in 1..(2 * n) /\ i \in 1..(2 * n + 2)
      BY <1>1, <2>1
    <3>2. y[i] = Messages(l)[i]
      BY <1>5, <2>1, <3>1
    <3>3. CASE i % 2 = 1
      <4>1. (i + 1) \div 2 \in 1..n
        BY <1>1, <3>1, <3>3
      <4> QED
        BY <1>1, <1>6, <1>7, <3>1, <3>2, <3>3, <4>1
    <3>4. CASE i % 2 # 1
      <4>1. i \div 2 \in 1..n
        BY <1>1, <3>1, <3>4
      <4> QED
        BY <1>1, <1>6, <1>7, <3>1, <3>2, <3>4, <4>1
    <3> QED
      BY <3>3, <3>4
  <2>2. CASE i = 2 * n + 1
    <3>1. i % 2 = 1 /\ (i + 1) \div 2 = n + 1 /\ i - 2 * n = 1 /\ ~(i <= 2 * n) /\ i \in 1..(2 * n + 2)
      BY <1>1, <2>2
    <3> QED
      BY <1>1, <1>2, <1>5, <1>7, <3>1
  <2>3. CASE i = 2 * n + 2
    <3>1. i % 2 # 1 /\ i \div 2 = n + 1 /\ i - 2 * n = 2 /\ ~(i <= 2 * n) /\ i \in 1..(2 * n + 2)
      BY <1>1, <2>3
    <3> QED
      BY <1>1, <1>2, <1>5, <1>7, <3>1
  <2> QED
    BY <1>1, <2>1, <2>2, <2>3
<1>9. Len(x) = Len(y)
  BY <1>1, <1>4, <1>5
<1>10. \A i \in 1..Len(x) : x[i] = y[i]
  BY <1>4, <1>8
<1>11. x = y
  BY ONLY <1>4, <1>5, <1>9, <1>10, SeqEqual
<1> QED
  BY <1>11 DEF x, y, a

\* When nobody ends, a session keeps its history and its conversation, or loses both.
LEMMA FrameHistory ==
  ASSUME HistoryInv, \A u \in Turn : turn'[u].session = turn[u].session,
         \A u \in Turn : turn[u].ending \in Conversed => turn'[u].ending \in Conversed,
         log' \in [Session -> Seq(Turn)],
         \A x \in Session :
           \/ store'[x].history = store[x].history /\ log'[x] = log[x]
           \/ store'[x].history = <<>> /\ log'[x] = <<>>
  PROVE  HistoryInv'
<1> SUFFICES ASSUME NEW x \in Session
             PROVE  /\ store'[x].history = Bounded(HistorySize, Messages(log'[x]))
                    /\ \A i \in DOMAIN log'[x] :
                         turn'[log'[x][i]].session = x /\ turn'[log'[x][i]].ending \in Conversed
  BY DEF HistoryInv
<1>1. CASE store'[x].history = store[x].history /\ log'[x] = log[x]
  <2>1. log[x] \in Seq(Turn)
    BY DEF HistoryInv
  <2>2. \A i \in DOMAIN log[x] : log[x][i] \in Turn
    BY <2>1, Elements
  <2>3. store[x].history = Bounded(HistorySize, Messages(log[x]))
        /\ \A i \in DOMAIN log[x] :
             turn[log[x][i]].session = x /\ turn[log[x][i]].ending \in Conversed
    BY DEF HistoryInv
  <2>4. \A i \in DOMAIN log[x] :
          turn'[log[x][i]].session = x /\ turn'[log[x][i]].ending \in Conversed
    BY <2>2, <2>3
  <2> QED
    BY <1>1, <2>3, <2>4
<1>2. CASE store'[x].history = <<>> /\ log'[x] = <<>>
  BY <1>2, NoMessages
<1> QED
  BY <1>1, <1>2

\* When a turn ends with an answer, both grow by the turn.
LEMMA FinishHistory ==
  ASSUME TurnInv, HistoryInv, NEW t \in Turn, \A u \in Turn : turn'[u].session = turn[u].session,
         \A u \in Turn : turn[u].ending \in Conversed => turn'[u].ending \in Conversed,
         turn'[t].ending \in Conversed,
         Told(turn[t].session, t),
         store'[turn[t].session].history = WithPair(store[turn[t].session].history, t),
         \A x \in Session \ {turn[t].session} : store'[x].history = store[x].history
  PROVE  /\ HistoryInv'
         /\ store'[turn[t].session].history \in Seq(Msg)
<1> DEFINE s == turn[t].session
<1>1. s \in Session
  BY OneTurn DEF TurnRecord
<1>2. log \in [Session -> Seq(Turn)] /\ log' = [log EXCEPT ![s] = Append(@, t)]
  BY DEF HistoryInv, Told
<1>3. /\ log' \in [Session -> Seq(Turn)] /\ log'[s] = Append(log[s], t)
      /\ \A x \in Session \ {s} : log'[x] = log[x]
  BY <1>1, <1>2
<1> DEFINE m == Messages(log[s])
           p == Pair(t)
<1>4. log[s] \in Seq(Turn) /\ DOMAIN log[s] = 1..Len(log[s]) /\ Len(log[s]) \in Nat
  BY <1>1, <1>2
<1>5. m \in Seq(Msg) /\ Messages(log'[s]) = m \o p
  BY <1>3, <1>4, MessagesFacts, MessagesGrow
<1>6. p \in Seq(Msg)
  BY DEF Pair, Msg
<1>7. store[s].history = Bounded(HistorySize, m)
  BY <1>1 DEF HistoryInv
<1>8. store'[s].history = Bounded(HistorySize, store[s].history \o p)
  BY DEF WithPair, Pair
<1> HIDE DEF m, p
<1>9. HistorySize \in Nat \ {0}
  BY StoreAssumption
<1>10. store'[s].history = Bounded(HistorySize, m \o p) /\ m \o p \in Seq(Msg)
  BY ONLY <1>5, <1>6, <1>7, <1>8, <1>9, BoundedGrows, ConcatProperties
<1>11. store'[s].history \in Seq(Msg)
  <2>1. Bounded(HistorySize, m \o p) \in Seq(Msg)
    BY ONLY <1>9, <1>10, BoundedFacts
  <2> QED
    BY ONLY <1>10, <2>1
<1>12. ASSUME NEW x \in Session
       PROVE  /\ store'[x].history = Bounded(HistorySize, Messages(log'[x]))
              /\ \A i \in DOMAIN log'[x] :
                   turn'[log'[x][i]].session = x /\ turn'[log'[x][i]].ending \in Conversed
  <2>1. \A i \in DOMAIN log[x] : /\ log[x][i] \in Turn /\ turn[log[x][i]].session = x
                                 /\ turn[log[x][i]].ending \in Conversed
    <3>1. log[x] \in Seq(Turn)
      BY <1>2
    <3> QED
      BY <3>1, Elements DEF HistoryInv
  <2>2. CASE x = s
    <3>1. \A i \in DOMAIN log'[s] : (i \in DOMAIN log[s] /\ log'[s][i] = log[s][i]) \/ log'[s][i] = t
      BY <1>3, <1>4
    <3> QED
      <4>1. t \in Turn /\ turn[t].session = s
        OBVIOUS
      <4>2. \A i \in DOMAIN log'[s] :
              turn'[log'[s][i]].session = s /\ turn'[log'[s][i]].ending \in Conversed
        BY <2>1, <2>2, <3>1, <4>1
      <4> QED
        BY <1>5, <1>10, <2>2, <4>2
  <2>3. CASE x # s
    <3>1. log'[x] = log[x] /\ store'[x].history = store[x].history
      BY <1>3, <2>3
    <3>2. store[x].history = Bounded(HistorySize, Messages(log[x]))
      BY DEF HistoryInv
    <3> QED
      BY <2>1, <3>1, <3>2
  <2> QED
    BY <2>2, <2>3
<1> QED
  BY <1>3, <1>11, <1>12 DEF HistoryInv

-----------------------------------------------------------------------------
(* The invariant                                                              *)

\* It holds at the beginning.
LEMMA InitInv == Init => ChatInv
<1> SUFFICES ASSUME Init PROVE ChatInv
  OBVIOUS
<1>1. ASSUME NEW t \in Turn
      PROVE  /\ turn[t] \in TurnRecord /\ turn[t].at = "ready" /\ turn[t].ending = "none"
             /\ turn[t].shown = {} /\ turn[t].text = <<>> /\ turn[t].answer = <<>> /\ ~turn[t].prefixed
  <2>1. PICK s \in Session, streamed \in BOOLEAN : turn[t] = Ready(s, streamed)
    BY DEF Init
  <2>2. <<>> \in Seq(Token)
    BY TextFacts
  <2> QED
    BY <2>1, <2>2 DEF Ready, TurnRecord, Place, Decision, Endings
<1>2. Running = {}
  BY <1>1 DEF Running
<1>3. \A t \in Turn : Underway(turn[t]) /\ Said(turn[t])
  BY <1>1, TextFacts, AgentAssumption DEF Underway, Said
<1>4. turn \in [Turn -> TurnRecord]
  BY <1>1 DEF Init
<1>5. store \in [Session -> StoreRecord] /\ last \in LastRecord /\ loop = NoTurn
      /\ \A x \in Session : store[x].history = <<>> /\ store[x].results = <<>>
  BY DEF Init, Empty, StoreRecord, Forgotten, LastRecord
<1>6. TurnInv
  BY <1>1, <1>3, <1>4, <1>5, TurnAssumption DEF TurnInv, Active
<1>7. SoloInv
  BY <1>1, <1>2 DEF SoloInv
<1>8. AuditInv
  BY <1>1 DEF Init, AuditInv
<1>9. ResultsInv
  BY <1>5, StoreAssumption DEF ResultsInv
<1>10. HistoryInv
  <2>1. log \in [Session -> Seq(Turn)] /\ \A x \in Session : log[x] = <<>> /\ DOMAIN log[x] = {}
    BY DEF Init
  <2> QED
    BY <1>5, <2>1, NoMessages DEF HistoryInv
<1> QED
  BY <1>6, <1>7, <1>8, <1>9, <1>10 DEF ChatInv

\* The start of a turn keeps it.
LEMMA StartInv ==
  ASSUME ChatInv, NEW t \in Turn, NEW expired \in SUBSET Session, Start(t, expired)
  PROVE  ChatInv'
<1>1. TurnInv /\ SoloInv /\ AuditInv /\ ResultsInv /\ HistoryInv
  BY DEF ChatInv
<1>2. store' = [x \in Session |-> IF x \in expired THEN Empty ELSE store[x]] /\ audit' = audit
      /\ log' = [x \in Session |-> IF x \in expired THEN <<>> ELSE log[x]]
  BY DEF Start
<1>3. store' \in [Session -> StoreRecord]
  <2>1. Empty \in StoreRecord
    BY DEF Empty, StoreRecord
  <2>2. store \in [Session -> StoreRecord]
    BY <1>1 DEF TurnInv
  <2> QED
    BY <1>2, <2>1, <2>2
<1>4. TurnInv'
  BY <1>1, <1>3, StartTurns DEF TurnInv
<1>5. SoloInv'
  BY <1>1, StartSolo
<1>6. Frame
  <2>1. \A u \in Turn : turn'[u].session = turn[u].session /\ turn'[u].ending = turn[u].ending
    BY <1>1, StartTurns
  <2>2. ASSUME NEW u \in Turn, turn[u].ending = "answered", ~turn'[u].overlapped
        PROVE  ~turn[u].overlapped
    <3>1. CASE u = t
      BY <1>1, <2>2, <3>1, OneTurn DEF Start, Underway
    <3>2. CASE u # t
      BY <1>1, <2>2, <3>2, StartTurns
    <3> QED
      BY <3>1, <3>2
  <2> QED
    BY <2>1, <2>2 DEF Frame
<1>7. AuditInv'
  BY <1>1, <1>2, <1>6, FrameAudit
<1>8. ResultsInv'
  BY <1>1, <1>2, <1>6, FrameResults DEF Empty
<1>9. HistoryInv'
  <2>1. log' \in [Session -> Seq(Turn)]
    BY <1>1, <1>2 DEF HistoryInv
  <2>2. \A u \in Turn : turn'[u].ending = turn[u].ending
    BY <1>1, StartTurns
  <2> QED
    BY <1>1, <1>2, <1>6, <2>1, <2>2, FrameHistory DEF Frame, Empty
<1> QED
  BY <1>4, <1>5, <1>7, <1>8, <1>9 DEF ChatInv

\* Every other step keeps it.
LEMMA ActInv == ASSUME ChatInv, NEW t \in Turn, Act(t) PROVE ChatInv'
<1>1. TurnInv /\ SoloInv /\ AuditInv /\ ResultsInv /\ HistoryInv
  BY DEF ChatInv
<1>2. PICK q : Steps(t, q) /\ Records(t, q)
  BY <1>1, ActSteps
<1>3. SoloInv'
  BY <1>1, <1>2, ActFrame, ActSolo
<1>4. /\ \A u \in Turn : turn'[u].session = turn[u].session
      /\ \A u \in Turn : turn[u].ending \in Conversed => turn'[u].ending \in Conversed
      /\ turn'[t] = q
  BY <1>1, <1>2, ActFrame
<1> DEFINE s == turn[t].session
<1>5. s \in Session /\ store \in [Session -> StoreRecord] /\ log \in [Session -> Seq(Turn)]
  BY <1>1, OneTurn DEF TurnRecord, TurnInv, HistoryInv
<1>6. store' \in [Session -> StoreRecord] => TurnInv'
  BY <1>1, <1>2, ActTurns DEF TurnInv
<1>7. ASSUME NEW stored \in BOOLEAN, FinishRouted(t, stored) PROVE ChatInv'
  <2>1. /\ Told(s, t) /\ store'[s].history = WithPair(store[s].history, t)
        /\ \A x \in Session \ {s} : store'[x] = store[x]
    BY <1>5, <1>7 DEF FinishRouted
  <2>4. q.ending = "answered"
    <3>1. turn[t] \in TurnRecord /\ turn \in [Turn -> TurnRecord]
      BY <1>1, OneTurn DEF TurnInv
    <3>2. Deliver(t, last.verified, "answered", Delivered(t))
      BY <1>7 DEF FinishRouted
    <3> QED
      BY <1>4, <3>1, <3>2 DEF Deliver, Becomes, TurnRecord, Over, Routed
  <2>2. HistoryInv' /\ store'[s].history \in Seq(Msg)
    BY <1>1, <1>4, <2>1, <2>4, FinishHistory DEF Conversed
  <2>5. ResultsInv' /\ \A x \in Session : store'[x].results \in Seq([label : Turn, result : Turn])
    BY <1>1, <1>2, <1>7, <2>4, FinishResults
  <2>6. AuditInv'
    BY <1>1, <1>2, <1>7, <2>4, FinishAudit
  <2>7. store' \in [Session -> StoreRecord]
    <3>1. store'[s] = [history |-> store'[s].history, results |-> store'[s].results]
          /\ DOMAIN store' = Session /\ store' = [x \in Session |-> store'[x]]
      BY <1>5, <1>7 DEF FinishRouted
    <3>2. store'[s] \in StoreRecord
      BY <1>5, <2>2, <2>5, <3>1 DEF StoreRecord, Msg
    <3>3. \A x \in Session : store'[x] \in StoreRecord
      BY <1>5, <2>1, <3>2
    <3> QED
      BY <3>1, <3>3
  <2> QED
    BY <1>3, <1>6, <2>2, <2>5, <2>6, <2>7 DEF ChatInv
<1>8. CASE FinishPrefixed(t)
  <2>1. ~Finishes(t)
    BY <1>8 DEF Finishes, FinishRouted, FinishPrefixed
  <2>2. Frame
    BY <1>1, <1>2, <2>1, ActFrame
  <2>3. /\ Told(s, t) /\ store'[s].history = WithPair(store[s].history, t) /\ audit' = audit
        /\ store'[s].results = store[s].results
        /\ \A x \in Session \ {s} : store'[x] = store[x]
    BY <1>5, <1>8 DEF FinishPrefixed, StoreRecord
  <2>8. turn'[t].ending = "bypassed"
    BY <1>1, <1>2, <1>8, <2>1 DEF FinishPrefixed, Deliver, Becomes, TurnInv, Over, Routed
  <2>4. HistoryInv' /\ store'[s].history \in Seq(Msg)
    BY <1>1, <1>4, <2>3, <2>8, FinishHistory DEF Conversed
  <2>5. ResultsInv'
    <3>1. \A x \in Session : store'[x].results \in {store[x].results, <<>>}
      BY <2>3
    <3> QED
      BY <1>1, <2>2, <3>1, FrameResults
  <2>6. AuditInv'
    BY <1>1, <2>2, <2>3, FrameAudit
  <2>7. store' \in [Session -> StoreRecord]
    <3> DEFINE h == WithPair(store[s].history, t)
    <3>1. store' = [store EXCEPT ![s].history = h] /\ h \in Seq(Msg)
      BY <1>5, <1>8, <2>3, <2>4 DEF FinishPrefixed
    <3> HIDE DEF h
    <3> QED
      BY <1>5, <3>1 DEF StoreRecord, Msg
  <2> QED
    BY <1>3, <1>6, <2>4, <2>5, <2>6, <2>7 DEF ChatInv
<1>9. CASE ~Finishes(t) /\ ~FinishPrefixed(t)
  <2>1. UNCHANGED <<store, written, audit, log>>
    BY <1>2, <1>9 DEF Records, Finishes
  <2>2. Frame
    BY <1>1, <1>2, <1>9, ActFrame
  <2>3. AuditInv' /\ ResultsInv'
    BY <1>1, <2>1, <2>2, FrameAudit, FrameResults
  <2>4. HistoryInv'
    BY <1>1, <1>4, <1>5, <2>1, FrameHistory
  <2>5. TurnInv'
    BY <1>5, <1>6, <2>1
  <2> QED
    BY <1>3, <2>3, <2>4, <2>5 DEF ChatInv
<1> QED
  BY <1>7, <1>8, <1>9 DEF Finishes

\* The invariant is inductive.
LEMMA NextInv == ChatInv /\ [Next \/ Done]_vars => ChatInv'
<1> SUFFICES ASSUME ChatInv, [Next \/ Done]_vars PROVE ChatInv'
  OBVIOUS
<1>1. CASE Next
  <2>1. PICK t \in Turn : (\E expired \in SUBSET Session : Start(t, expired)) \/ Act(t)
    BY <1>1 DEF Next, Act
  <2> QED
    BY <2>1, StartInv, ActInv
<1>2. CASE UNCHANGED vars
  BY <1>2 DEF vars, ChatInv, TurnInv, SoloInv, AuditInv, ResultsInv, HistoryInv, Running
<1> QED
  BY <1>1, <1>2 DEF Done

\* It holds always.
LEMMA ChatInvariant == Spec => []ChatInv
BY InitInv, NextInv, PTL DEF Spec

-----------------------------------------------------------------------------
(* Theorems                                                                   *)

\* What the orchestrator, the store and the turns hold is of its type, a turn runs if
\* and only if the loop is at it, and no history, working set or text outgrows its bound.
THEOREM ChatTypeCorrect == Spec => []TypeOK
<1>1. ChatInv => TypeOK
  <2> SUFFICES ASSUME ChatInv PROVE TypeOK
    OBVIOUS
  <2>1. TurnInv /\ ResultsInv /\ HistoryInv
    BY DEF ChatInv
  <2>2. ASSUME NEW t \in Turn
        PROVE  /\ turn[t].at \in {"ready", "closing", "ended"} \cup Awaiting \cup Active
               /\ turn[t].at \in Active <=> loop = t
               /\ turn[t].ending \in Endings /\ turn[t].decision \in Decision \cup {"none"}
               /\ Len(turn[t].text) <= MaxChunks + 1
    BY <2>1, OneTurn DEF TurnRecord, Place, Underway
  <2>3. loop \in Turn \cup {NoTurn}
        /\ \A f \in {"result", "sql", "hit", "verified", "outcome"} : last[f] \in Turn \cup {NoTurn}
    BY <2>1 DEF TurnInv, LastRecord
  <2>4. ASSUME NEW s \in Session
        PROVE  Len(store[s].history) <= HistorySize /\ Len(store[s].results) <= WorkingSetSize
    <3> DEFINE m == Messages(log[s])
               b == Bounded(HistorySize, m)
    <3>1. m \in Seq(Msg) /\ store[s].history = b
      BY <2>1, MessagesFacts DEF HistoryInv
    <3> HIDE DEF m
    <3>2. Len(b) = IF Len(m) <= HistorySize THEN Len(m) ELSE HistorySize
      BY <3>1, StoreAssumption, BoundedFacts
    <3>3. Len(m) \in Nat
      BY <3>1
    <3> HIDE DEF b
    <3>4. Len(b) <= HistorySize
      BY <3>2, <3>3, StoreAssumption
    <3> QED
      BY <2>1, <3>1, <3>4 DEF ResultsInv
  <2> QED
    BY <2>2, <2>3, <2>4 DEF TypeOK
<1> QED
  BY <1>1, ChatInvariant, PTL

\* However turns of a session, or of others, interleave, its history is the end of its
\* conversation: questions and answers in pairs, in the order the turns ended.
THEOREM HistoriesAreConversations == Spec => []HistoryIsTheConversation
<1>1. ChatInv => HistoryIsTheConversation
  BY DEF ChatInv, HistoryInv, HistoryIsTheConversation
<1> QED
  BY <1>1, ChatInvariant, PTL

\* With auditing on every answered turn is in the trail once, as an entry or as the
\* warning that it could not be written; no other turn is in it, nor in a working set.
THEOREM TurnsAreRecordedOrNot == Spec => []RecordedOrNot
<1>1. ChatInv => RecordedOrNot
  <2> SUFFICES ASSUME ChatInv PROVE RecordedOrNot
    OBVIOUS
  <2>1. AuditInv /\ ResultsInv
    BY DEF ChatInv
  <2>2. Cardinality({}) = 0 /\ \A i : Cardinality({i}) = 1
    BY FS_EmptySet, FS_Singleton
  <2>3. ASSUME NEW t \in Turn
        PROVE  Cardinality(Entries(t)) + Cardinality(Warnings(t))
                 = (IF AuditEnabled /\ turn[t].ending = "answered" THEN 1 ELSE 0)
    <3>1. CASE AuditEnabled /\ turn[t].ending = "answered"
      <4>1. PICK i \in DOMAIN audit : audit[i].of = t
        BY <2>1, <3>1 DEF AuditInv
      <4>2. \A j \in DOMAIN audit : audit[j].of = t => j = i
        BY <2>1, <4>1 DEF AuditInv
      <4>3. \/ Entries(t) = {i} /\ Warnings(t) = {}
            \/ Entries(t) = {} /\ Warnings(t) = {i}
        BY <4>1, <4>2 DEF Entries, Warnings
      <4> QED
        BY <2>2, <3>1, <4>3
    <3>2. CASE ~(AuditEnabled /\ turn[t].ending = "answered")
      <4>1. Entries(t) = {} /\ Warnings(t) = {}
        BY <2>1, <3>2 DEF AuditInv, Entries, Warnings
      <4> QED
        BY <2>2, <3>2, <4>1
    <3> QED
      BY <3>1, <3>2
  <2> QED
    BY <2>1, <2>3 DEF RecordedOrNot, ResultsInv
<1> QED
  BY <1>1, ChatInvariant, PTL

\* A turn that no other overlapped leaves records of its own work only.
THEOREM SoloTurnsAreTheirOwn == Spec => []SoloTurnIsItsOwn
<1>1. ChatInv => SoloTurnIsItsOwn
  <2> SUFFICES ASSUME ChatInv, NEW t \in Turn, ~turn[t].overlapped
               PROVE  /\ \A s \in Session : \A i \in DOMAIN store[s].results :
                           store[s].results[i].label = t => store[s].results[i].result = t
                      /\ \A i \in DOMAIN audit : audit[i].of = t => audit[i].shown \subseteq {t}
                      /\ turn[t].ending # "raised" => turn[t].shown \subseteq {t}
    BY DEF SoloTurnIsItsOwn
  <2> QED
    BY DEF ChatInv, SoloInv, AuditInv, ResultsInv
<1> QED
  BY <1>1, ChatInvariant, PTL

\* A stream has sent the answer the conversation remembers.
THEOREM StreamsSayTheAnswer == Spec => []StreamSaysTheAnswer
<1>1. ChatInv => StreamSaysTheAnswer
  BY OneTurn DEF ChatInv, Said, StreamSaysTheAnswer
<1> QED
  BY <1>1, ChatInvariant, PTL

=============================================================================
