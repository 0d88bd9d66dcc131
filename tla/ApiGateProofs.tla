---------------------------- MODULE ApiGateProofs ----------------------------
(***************************************************************************)
(* The limiter never lets more than Max requests of a key through in any     *)
(* stretch of a window's length, and its deques stay bounded, for every     *)
(* number of keys, Max and Window, behind every endpoint.                    *)
(*                                                                         *)
(* NeverMoreThanMax is about all requests ever allowed, of which a deque    *)
(* only remembers the end.  It is inductive together with WindowIsRecent:   *)
(* what is remembered is the end of the history, and what was dropped is    *)
(* more than a window old, and stays so because time only advances.         *)
(*                                                                         *)
(* What a request is denied for, and what a slot is spent on, follows from  *)
(* a second invariant: what the limiter granted a key is what its requests  *)
(* were charged, in the order of time.                                      *)
(***************************************************************************)
EXTENDS ApiGate, FiniteSetTheorems, TLAPS

IInv == LimiterTypeOK /\ WindowIsRecent /\ NeverMoreThanMax

\* Before the first request there is nothing to remember.
LEMMA InitInv == LimiterInit => IInv
<1> SUFFICES ASSUME LimiterInit PROVE IInv
  OBVIOUS
<1>1. LimiterTypeOK
  BY LimiterAssumption DEF LimiterInit, LimiterTypeOK
<1>2. WindowIsRecent
  <2> SUFFICES ASSUME NEW k \in Key
               PROVE IsEndOf(window[k], granted[k], now)
    BY DEF WindowIsRecent
  <2>1. window[k] = <<>> /\ granted[k] = <<>>
    BY DEF LimiterInit
  <2> QED
    BY <2>1 DEF IsEndOf
<1>3. NeverMoreThanMax
  BY LimiterAssumption DEF LimiterInit, NeverMoreThanMax
<1> QED
  BY <1>1, <1>2, <1>3 DEF IInv

\* What a key's deque holds after n events were popped, against its history: the
\* events that are gone are the first d + n, and all of them have expired.
LEMMA PoppedIsRecent ==
  ASSUME IInv, NEW k \in Key, NEW n \in 0..Len(window[k]), Pops(k, n)
  PROVE  /\ Recent(k, n) \in Seq(Nat)
         /\ Len(Recent(k, n)) = Len(window[k]) - n
         /\ Len(Recent(k, n)) <= Max
         /\ IsEndOf(Recent(k, n), granted[k], now)
<1> USE LimiterAssumption
<1>1. window[k] \in Seq(Nat) /\ granted[k] \in Seq(Nat) /\ now \in Nat /\ Len(window[k]) <= Max
  BY DEF IInv, LimiterTypeOK
<1>2. Recent(k, n) \in Seq(Nat) /\ Len(Recent(k, n)) = Len(window[k]) - n
  BY <1>1 DEF Recent
<1>3. \A i \in 1..Len(Recent(k, n)) : Recent(k, n)[i] = window[k][n + i]
  BY <1>1, <1>2 DEF Recent
<1>4. PICK d \in 0..Len(granted[k]) :
        /\ Len(window[k]) = Len(granted[k]) - d
        /\ \A i \in 1..Len(window[k]) : window[k][i] = granted[k][d + i]
        /\ \A i \in 1..d : now - granted[k][i] > Window
  BY DEF IInv, WindowIsRecent, IsEndOf
<1>5. d + n \in 0..Len(granted[k]) /\ Len(Recent(k, n)) = Len(granted[k]) - (d + n)
  BY <1>1, <1>2, <1>4
<1>6. \A i \in 1..Len(Recent(k, n)) : Recent(k, n)[i] = granted[k][(d + n) + i]
  <2> TAKE i \in 1..Len(Recent(k, n))
  <2>1. n + i \in 1..Len(window[k])
    BY <1>1, <1>2
  <2>2. window[k][n + i] = granted[k][d + (n + i)]
    BY <1>4, <2>1
  <2> QED
    BY <1>3, <2>2
<1>7. \A i \in 1..(d + n) : now - granted[k][i] > Window
  <2> TAKE i \in 1..(d + n)
  <2>1. CASE i <= d
    BY <1>4, <2>1
  <2>2. CASE i > d
    <3>1. i - d \in 1..n /\ i - d \in 1..Len(window[k])
      BY <2>2, <1>1
    <3>2. window[k][i - d] = granted[k][d + (i - d)]
      BY <3>1, <1>4
    <3>3. now - window[k][i - d] > Window
      BY <3>1 DEF Pops, Expired
    <3> QED
      BY <3>2, <3>3, <1>1
  <2> QED
    BY <2>1, <2>2
<1>8. \E e \in 0..Len(granted[k]) :
        /\ Len(Recent(k, n)) = Len(granted[k]) - e
        /\ \A i \in 1..Len(Recent(k, n)) : Recent(k, n)[i] = granted[k][e + i]
        /\ \A i \in 1..e : now - granted[k][i] > Window
  BY <1>5, <1>6, <1>7
<1>9. Len(Recent(k, n)) <= Max
  BY <1>1, <1>2
<1> QED
  BY <1>2, <1>8, <1>9 DEF IsEndOf

\* A request that is counted.
LEMMA AllowPreserves ==
  ASSUME IInv, NEW k \in Key, Allow(k)
  PROVE  IInv'
<1> USE LimiterAssumption
<1>1. PICK n \in 0..Len(window[k]) :
        /\ Pops(k, n)
        /\ Len(Recent(k, n)) < Max
        /\ window' = [window EXCEPT ![k] = Append(Recent(k, n), now)]
  BY DEF Allow
<1> DEFINE rest == Recent(k, n)
<1>2. now \in Nat /\ window \in [Key -> Seq(Nat)] /\ granted \in [Key -> Seq(Nat)]
  BY DEF IInv, LimiterTypeOK
<1>3. rest \in Seq(Nat) /\ IsEndOf(rest, granted[k], now)
  BY <1>1, PoppedIsRecent
<1>4. PICK e \in 0..Len(granted[k]) :
        /\ Len(rest) = Len(granted[k]) - e
        /\ \A i \in 1..Len(rest) : rest[i] = granted[k][e + i]
        /\ \A i \in 1..e : now - granted[k][i] > Window
  BY <1>3 DEF IsEndOf
<1> DEFINE w == Append(rest, now)
           g == Append(granted[k], now)
<1>5. /\ w \in Seq(Nat) /\ Len(w) = Len(rest) + 1
      /\ g \in Seq(Nat) /\ Len(g) = Len(granted[k]) + 1
      /\ \A i \in 1..Len(rest) : w[i] = rest[i]
      /\ w[Len(rest) + 1] = now
      /\ \A i \in 1..Len(granted[k]) : g[i] = granted[k][i]
      /\ g[Len(granted[k]) + 1] = now
  BY <1>2, <1>3
<1>6. now' = now /\ window' = [window EXCEPT ![k] = w] /\ granted' = [granted EXCEPT ![k] = g]
  BY <1>1 DEF Allow
<1>7. /\ window'[k] = w /\ granted'[k] = g
      /\ \A j \in Key \ {k} : window'[j] = window[j] /\ granted'[j] = granted[j]
  BY <1>2, <1>6
<1> HIDE DEF rest, w, g
<1>8. Len(rest) < Max
  BY <1>1 DEF rest
<1>9. LimiterTypeOK'
  <2>1. window' \in [Key -> Seq(Nat)] /\ granted' \in [Key -> Seq(Nat)]
    BY <1>2, <1>5, <1>6
  <2>2. \A j \in Key : Len(window'[j]) <= Max
    <3>1. Len(w) <= Max
      BY <1>3, <1>5, <1>8
    <3> QED
      BY <1>7, <3>1 DEF IInv, LimiterTypeOK
  <2> QED
    BY <1>2, <1>6, <2>1, <2>2 DEF LimiterTypeOK
<1>10. WindowIsRecent'
  <2> SUFFICES ASSUME NEW j \in Key
               PROVE IsEndOf(window'[j], granted'[j], now')
    BY DEF WindowIsRecent, IsEndOf
  <2>1. CASE j # k
    <3>1. IsEndOf(window[j], granted[j], now)
      BY DEF IInv, WindowIsRecent
    <3> QED
      BY <2>1, <3>1, <1>6, <1>7
  <2>2. CASE j = k
    <3>0. /\ Len(granted[k]) \in Nat /\ Len(rest) \in Nat /\ e \in Nat
          /\ Len(granted[k]) = Len(rest) + e
      BY <1>2, <1>3, <1>4
    <3>1. e \in 0..Len(g) /\ Len(w) = Len(g) - e
      BY <3>0, <1>5
    <3>2. \A i \in 1..Len(w) : w[i] = g[e + i]
      <4> TAKE i \in 1..Len(w)
      <4>1. CASE i <= Len(rest)
        <5>1. i \in 1..Len(rest) /\ e + i \in 1..Len(granted[k])
          BY <4>1, <3>0
        <5> QED
          BY <5>1, <1>4, <1>5
      <4>2. CASE i = Len(rest) + 1
        <5>1. e + i = Len(granted[k]) + 1
          BY <4>2, <3>0
        <5> QED
          BY <4>2, <5>1, <1>5
      <4> QED
        BY <4>1, <4>2, <3>0, <1>5
    <3>3. \A i \in 1..e : now - g[i] > Window
      <4> TAKE i \in 1..e
      <4>1. i \in 1..Len(granted[k])
        BY <3>0
      <4> QED
        BY <4>1, <1>4, <1>5
    <3>4. IsEndOf(w, g, now)
      BY <3>1, <3>2, <3>3 DEF IsEndOf
    <3> QED
      BY <2>2, <3>4, <1>6, <1>7
  <2> QED
    BY <2>1, <2>2
<1>11. NeverMoreThanMax'
  <2> SUFFICES ASSUME NEW j \in Key, NEW i \in Max + 1 .. Len(granted'[j])
               PROVE granted'[j][i] - granted'[j][i - Max] > Window
    BY DEF NeverMoreThanMax
  <2>1. CASE j # k
    BY <2>1, <1>7 DEF IInv, NeverMoreThanMax
  <2>2. CASE j = k /\ i <= Len(granted[k])
    <3>1. i \in Max + 1 .. Len(granted[k]) /\ i \in 1..Len(granted[k])
          /\ i - Max \in 1..Len(granted[k])
      BY <2>2, <1>2
    <3>2. granted[k][i] - granted[k][i - Max] > Window
      BY <3>1 DEF IInv, NeverMoreThanMax
    <3>3. g[i] = granted[k][i] /\ g[i - Max] = granted[k][i - Max]
      BY <3>1, <1>5
    <3> QED
      BY <2>2, <3>2, <3>3, <1>7
  \* The request itself: the Max-th before it is one the deque has dropped.
  <2>3. CASE j = k /\ i = Len(granted[k]) + 1
    <3>1. i - Max \in 1..e /\ i - Max \in 1..Len(granted[k])
      BY <2>3, <1>2, <1>3, <1>4, <1>5, <1>7, <1>8
    <3>2. now - granted[k][i - Max] > Window
      BY <3>1, <1>4
    <3>3. g[i] = now /\ g[i - Max] = granted[k][i - Max]
      BY <2>3, <3>1, <1>5
    <3> QED
      BY <2>3, <3>2, <3>3, <1>7
  <2> QED
    BY <2>1, <2>2, <2>3, <1>2, <1>5, <1>7
<1> QED
  BY <1>9, <1>10, <1>11 DEF IInv

\* A request that is turned away: the deque is only trimmed.
LEMMA RejectPreserves ==
  ASSUME IInv, NEW k \in Key, Reject(k)
  PROVE  IInv'
<1> USE LimiterAssumption
<1>1. PICK n \in 0..Len(window[k]) :
        Pops(k, n) /\ window' = [window EXCEPT ![k] = Recent(k, n)]
  BY DEF Reject
<1> DEFINE rest == Recent(k, n)
<1>2. /\ now \in Nat /\ window \in [Key -> Seq(Nat)] /\ granted \in [Key -> Seq(Nat)]
      /\ now' = now /\ granted' = granted
  BY DEF IInv, LimiterTypeOK, Reject
<1>3. /\ rest \in Seq(Nat)
      /\ Len(rest) <= Max
      /\ IsEndOf(rest, granted[k], now)
  BY <1>1, PoppedIsRecent
<1>4. window' = [window EXCEPT ![k] = rest]
  BY <1>1
<1> HIDE DEF rest
<1>5. window'[k] = rest /\ \A j \in Key \ {k} : window'[j] = window[j]
  BY <1>2, <1>4
<1>6. LimiterTypeOK'
  <2>1. window' \in [Key -> Seq(Nat)]
    BY <1>2, <1>3, <1>4
  <2> QED
    BY <2>1, <1>2, <1>3, <1>5 DEF IInv, LimiterTypeOK
<1>7. WindowIsRecent'
  <2> SUFFICES ASSUME NEW j \in Key
               PROVE IsEndOf(window'[j], granted[j], now)
    BY <1>2 DEF WindowIsRecent, IsEndOf
  <2>1. CASE j # k
    <3>1. IsEndOf(window[j], granted[j], now)
      BY DEF IInv, WindowIsRecent
    <3> QED
      BY <2>1, <3>1, <1>5
  <2>2. CASE j = k
    BY <2>2, <1>3, <1>5
  <2> QED
    BY <2>1, <2>2
<1>8. NeverMoreThanMax'
  BY <1>2 DEF IInv, NeverMoreThanMax
<1> QED
  BY <1>6, <1>7, <1>8 DEF IInv

\* Time only makes what was dropped older.
LEMMA TickPreserves ==
  ASSUME IInv, Tick
  PROVE  IInv'
<1> USE LimiterAssumption
<1>1. now' = now + 1 /\ window' = window /\ granted' = granted
  BY DEF Tick
<1>2. now \in Nat /\ granted \in [Key -> Seq(Nat)]
  BY DEF IInv, LimiterTypeOK
<1>3. LimiterTypeOK'
  BY <1>1, <1>2 DEF IInv, LimiterTypeOK
<1>4. WindowIsRecent'
  <2> SUFFICES ASSUME NEW k \in Key
               PROVE IsEndOf(window[k], granted[k], now')
    BY <1>1 DEF WindowIsRecent, IsEndOf
  <2>1. PICK d \in 0..Len(granted[k]) :
          /\ Len(window[k]) = Len(granted[k]) - d
          /\ \A i \in 1..Len(window[k]) : window[k][i] = granted[k][d + i]
          /\ \A i \in 1..d : now - granted[k][i] > Window
    BY DEF IInv, WindowIsRecent, IsEndOf
  <2>2. \A i \in 1..d : now' - granted[k][i] > Window
    <3> TAKE i \in 1..d
    <3>1. granted[k][i] \in Nat /\ now - granted[k][i] > Window
      BY <1>2, <2>1
    <3> QED
      BY <3>1, <1>1, <1>2
  <2> QED
    BY <2>1, <2>2 DEF IsEndOf
<1>5. NeverMoreThanMax'
  BY <1>1 DEF IInv, NeverMoreThanMax
<1> QED
  BY <1>3, <1>4, <1>5 DEF IInv

\* Steps that leave the limiter alone keep it.
LEMMA StutterPreserves ==
  ASSUME IInv, UNCHANGED limiterVars
  PROVE  IInv'
BY DEF IInv, LimiterTypeOK, WindowIsRecent, IsEndOf, NeverMoreThanMax, limiterVars

\* The limiter by itself.
THEOREM LimiterInvariant == LimiterSpec => []IInv
<1>1. IInv /\ [LimiterNext]_limiterVars => IInv'
  <2> SUFFICES ASSUME IInv, [LimiterNext]_limiterVars PROVE IInv'
    OBVIOUS
  <2>1. CASE Tick
    BY <2>1, TickPreserves
  <2>2. ASSUME NEW k \in Key, Allow(k) PROVE IInv'
    BY <2>2, AllowPreserves
  <2>3. ASSUME NEW k \in Key, Reject(k) PROVE IInv'
    BY <2>3, RejectPreserves
  <2>4. CASE UNCHANGED limiterVars
    BY <2>4, StutterPreserves
  <2> QED
    BY <2>1, <2>2, <2>3, <2>4 DEF LimiterNext
<1> QED
  BY <1>1, InitInv, PTL DEF LimiterSpec

\* A request at an endpoint asks the limiter once for the session of its company,
\* or not at all.
LEMMA RequestPreserves ==
  ASSUME IInv, NEW c \in Company, NEW s \in Session,
         \/ UNCHANGED limiterVars
         \/ Allow(RateKey(c, s))
         \/ Reject(RateKey(c, s))
  PROVE  IInv'
<1>1. RateKey(c, s) \in Key
  BY GateAssumption DEF RateKey, Caller
<1> QED
  BY <1>1, AllowPreserves, RejectPreserves, StutterPreserves

\* The limiter's invariant holds behind all endpoints.
THEOREM GateInvariant == GateSpec => []IInv
<1>1. IInv /\ [GateNext]_gateVars => IInv'
  <2> SUFFICES ASSUME IInv, [GateNext]_gateVars PROVE IInv'
    OBVIOUS
  <2>1. CASE Tick
    BY <2>1, TickPreserves
  <2>2. ASSUME NEW c \in Company, NEW s \in Session, NEW ready \in BOOLEAN,
               NEW fits \in BOOLEAN, Chat(c, s, ready, fits)
        PROVE IInv'
    BY <2>2, RequestPreserves DEF Chat, TurnAway, AskLimiter
  <2>3. ASSUME NEW c \in Company, NEW s \in Session, NEW ready \in BOOLEAN,
               NEW trusted \in BOOLEAN, NEW text \in {"empty", "ok", "long"},
               Legacy(c, s, trusted, ready, text)
        PROVE IInv'
    BY <2>3, RequestPreserves DEF Legacy, TurnAway, AskLimiter
  <2>4. CASE UNCHANGED gateVars
    BY <2>4, StutterPreserves DEF gateVars
  <2> QED
    BY <2>1, <2>2, <2>3, <2>4 DEF GateNext
<1>2. GateInit => IInv
  BY InitInv DEF GateInit
<1> QED
  BY <1>1, <1>2, PTL DEF GateSpec

\* Whatever the endpoints are asked, a session of a company is let through no more
\* than Max times in any stretch of a window's length.
THEOREM GateNeverMoreThanMax == GateSpec => []NeverMoreThanMax
BY GateInvariant, PTL DEF IInv

\* No deque holds more than Max events, however many requests a key has made.
THEOREM GateDequesAreBounded == GateSpec => []LimiterTypeOK
BY GateInvariant, PTL DEF IInv

-----------------------------------------------------------------------------
(* Who is turned away                                                        *)

\* The endpoints are the only ones to ask the limiter: what a key was granted is
\* what a session of a company has spent.
ChargedInv ==
  /\ charged \in [Caller -> Seq(Nat)]
  /\ \A p \in Caller : charged[p] = granted[p]

\* Requests are granted in the order of time.
SortedInv ==
  \A k \in Key : \A i \in DOMAIN granted[k] :
    /\ granted[k][i] <= now
    /\ \A j \in DOMAIN granted[k] : i <= j => granted[k][i] <= granted[k][j]

Outcomes == {"none", "unauthorized", "empty", "unavailable", "too_long", "rate_limited",
             "handled"}

ChargeInv == IInv /\ ChargedInv /\ SortedInv /\ last.code \in Outcomes

\* What becomes of a request of session s at company c.
Asked(c, s) ==
  /\ last'.company = c /\ last'.session = s
  /\ \/ /\ UNCHANGED <<limiterVars, charged>>
        /\ last'.code \in {"unauthorized", "empty", "unavailable", "too_long"}
     \/ /\ Allow(<<c, s>>)
        /\ charged' = [charged EXCEPT ![<<c, s>>] = Append(@, now)]
        /\ \/ last'.code = "handled"
           \/ last'.endpoint = "chat" /\ last'.code = "too_long"
     \/ /\ Reject(<<c, s>>)
        /\ UNCHANGED charged
        /\ last'.code = "rate_limited"

\* What a step can be: time goes on, or a request is turned away before the limiter
\* sees it, granted and charged, or denied.
LEMMA RequestKinds ==
  ASSUME GateNext
  PROVE  \/ Tick /\ UNCHANGED <<last, charged>>
         \/ \E c \in Company, s \in Session : Asked(c, s)
<1> SUFFICES ASSUME ~(Tick /\ UNCHANGED <<last, charged>>)
             PROVE  \E c \in Company, s \in Session : Asked(c, s)
  OBVIOUS
<1>1. PICK c \in Company, s \in Session, ready \in BOOLEAN :
        \/ \E fits \in BOOLEAN : Chat(c, s, ready, fits)
        \/ \E trusted \in BOOLEAN, text \in {"empty", "ok", "long"} :
             Legacy(c, s, trusted, ready, text)
  BY DEF GateNext
<1>2. CASE \E fits \in BOOLEAN : Chat(c, s, ready, fits)
  BY <1>2 DEF Chat, TurnAway, AskLimiter, Answer, RateKey, Asked
<1>3. CASE \E trusted \in BOOLEAN, text \in {"empty", "ok", "long"} :
             Legacy(c, s, trusted, ready, text)
  BY <1>3 DEF Legacy, TurnAway, AskLimiter, Answer, RateKey, Asked
<1> QED
  BY <1>1, <1>2, <1>3

\* A grant is the latest of its key, and charged to the caller it was granted to.
LEMMA GrantStep ==
  ASSUME ChargeInv, NEW p \in Caller, Allow(p),
         charged' = [charged EXCEPT ![p] = Append(@, now)]
  PROVE  ChargedInv' /\ SortedInv'
<1>1. /\ p \in Key /\ now \in Nat /\ granted \in [Key -> Seq(Nat)] /\ now' = now
      /\ charged \in [Caller -> Seq(Nat)] /\ charged[p] = granted[p]
      /\ granted' = [granted EXCEPT ![p] = Append(@, now)]
  BY GateAssumption DEF ChargeInv, IInv, LimiterTypeOK, ChargedInv, Allow
<1> DEFINE g == granted[p]
           h == Append(g, now)
<1>2. /\ h \in Seq(Nat) /\ DOMAIN h = DOMAIN g \cup {Len(g) + 1} /\ h[Len(g) + 1] = now
      /\ \A i \in DOMAIN g : h[i] = g[i] /\ i \in 1..Len(g) /\ g[i] \in Nat
      /\ Len(g) \in Nat
  BY <1>1
<1>3. granted'[p] = h /\ \A k \in Key : k # p => granted'[k] = granted[k]
  BY <1>1
<1>4. charged' \in [Caller -> Seq(Nat)] /\ charged'[p] = h
      /\ \A q \in Caller : q # p => charged'[q] = charged[q]
  BY <1>1, <1>2
<1>5. ChargedInv'
  BY <1>3, <1>4, GateAssumption DEF ChargeInv, ChargedInv
<1>6. \A i \in DOMAIN g : g[i] <= now /\ \A j \in DOMAIN g : i <= j => g[i] <= g[j]
  BY <1>1 DEF ChargeInv, SortedInv
<1> HIDE DEF g, h
<1>7. \A i \in DOMAIN h : h[i] <= now /\ \A j \in DOMAIN h : i <= j => h[i] <= h[j]
  <2> SUFFICES ASSUME NEW i \in DOMAIN h
               PROVE  h[i] <= now /\ \A j \in DOMAIN h : i <= j => h[i] <= h[j]
    OBVIOUS
  <2>1. CASE i \in DOMAIN g
    BY <1>1, <1>2, <1>6, <2>1
  <2>2. CASE i = Len(g) + 1
    <3>1. \A j \in DOMAIN h : i <= j => j = Len(g) + 1
      BY <1>2, <2>2
    <3> QED
      BY <1>1, <1>2, <2>2, <3>1
  <2> QED
    BY <1>2, <2>1, <2>2
<1>8. SortedInv'
  <2> SUFFICES ASSUME NEW k \in Key, NEW i \in DOMAIN granted'[k]
               PROVE  /\ granted'[k][i] <= now'
                      /\ \A j \in DOMAIN granted'[k] : i <= j => granted'[k][i] <= granted'[k][j]
    BY DEF SortedInv
  <2>1. CASE k = p
    BY ONLY <2>1, <1>1, <1>3, <1>7, i \in DOMAIN granted'[k]
  <2>2. CASE k # p
    BY <2>2, <1>1, <1>3 DEF ChargeInv, SortedInv
  <2> QED
    BY <2>1, <2>2
<1> QED
  BY <1>5, <1>8

\* Nothing is granted: time at most goes on.
LEMMA NoGrant ==
  ASSUME ChargeInv, UNCHANGED <<granted, charged>>, now' \in Nat, now <= now'
  PROVE  ChargedInv' /\ SortedInv'
<1>1. now \in Nat /\ \A k \in Key : \A i \in DOMAIN granted[k] : granted[k][i] \in Nat
  BY DEF ChargeInv, IInv, LimiterTypeOK
<1> QED
  BY <1>1 DEF ChargeInv, ChargedInv, SortedInv

\* The inductive invariant of the gate.
THEOREM ChargeInvariant == GateSpec => []ChargeInv
<1>1. GateInit => ChargeInv
  <2> SUFFICES ASSUME GateInit PROVE ChargeInv
    OBVIOUS
  <2>1. ChargedInv
    BY GateAssumption DEF GateInit, LimiterInit, ChargedInv
  <2>2. SortedInv
    BY DEF GateInit, LimiterInit, SortedInv
  <2> QED
    BY <2>1, <2>2, InitInv DEF GateInit, ChargeInv, Outcomes
<1>2. ChargeInv /\ IInv' /\ [GateNext]_gateVars => ChargeInv'
  <2> SUFFICES ASSUME ChargeInv, IInv', [GateNext]_gateVars
               PROVE  ChargedInv' /\ SortedInv' /\ last'.code \in Outcomes
    BY DEF ChargeInv
  <2>1. now \in Nat /\ last.code \in Outcomes
    BY DEF ChargeInv, IInv, LimiterTypeOK
  <2>2. CASE UNCHANGED gateVars
    BY <2>1, <2>2, NoGrant DEF gateVars, limiterVars
  <2>3. CASE Tick /\ UNCHANGED <<last, charged>>
    <3>1. UNCHANGED <<granted, charged, last>> /\ now' = now + 1
      BY <2>3 DEF Tick
    <3>2. now' \in Nat /\ now <= now'
      BY <2>1, <3>1
    <3> QED
      BY <2>1, <3>1, <3>2, NoGrant
  <2>4. CASE \E c \in Company, s \in Session : Asked(c, s)
    <3>1. PICK c \in Company, s \in Session :
            /\ last'.code \in Outcomes
            /\ \/ UNCHANGED <<limiterVars, charged>>
               \/ /\ Allow(<<c, s>>)
                  /\ charged' = [charged EXCEPT ![<<c, s>>] = Append(@, now)]
               \/ Reject(<<c, s>>) /\ UNCHANGED charged
      BY <2>4 DEF Asked, Outcomes
    <3>2. <<c, s>> \in Caller
      BY DEF Caller
    <3> QED
      BY <2>1, <3>1, <3>2, GrantStep, NoGrant DEF Reject, limiterVars
  <2> QED
    BY <2>2, <2>3, <2>4, RequestKinds
<1> QED
  BY <1>1, <1>2, GateInvariant, PTL DEF GateSpec

\* The limiter's state, what was charged and the last outcome keep their types
\* behind all endpoints.
THEOREM GateTypeCorrect == GateSpec => []GateTypeOK
<1>1. ChargeInv => GateTypeOK
  BY DEF ChargeInv, IInv, ChargedInv, Outcomes, GateTypeOK
<1> QED
  BY <1>1, ChargeInvariant, PTL

\* When the limiter says no, the last Max requests it granted that very key are all
\* less than a window old: none of them has expired, because the first was not.
LEMMA DeniedIsFull ==
  ASSUME ChargeInv, NEW p \in Caller, Reject(p)
  PROVE  Cardinality(RecentCharges(p)) >= Max
<1> USE LimiterAssumption
<1>1. p \in Key
  BY GateAssumption
<1>2. PICK n \in 0..Len(window[p]) : Pops(p, n) /\ Len(Recent(p, n)) >= Max
  BY DEF Reject
<1> DEFINE g == granted[p]
           m == Len(Recent(p, n))
<1>3. /\ now \in Nat /\ g \in Seq(Nat) /\ window[p] \in Seq(Nat) /\ charged[p] = g
      /\ \A i \in DOMAIN g : \A j \in DOMAIN g : i <= j => g[i] <= g[j]
  BY <1>1 DEF ChargeInv, IInv, LimiterTypeOK, ChargedInv, SortedInv
<1>4. IInv
  BY DEF ChargeInv
<1>5. m = Len(window[p]) - n /\ IsEndOf(Recent(p, n), g, now)
  BY <1>1, <1>2, <1>4, PoppedIsRecent
<1>6. PICK e \in 0..Len(g) : m = Len(g) - e /\ \A i \in 1..m : Recent(p, n)[i] = g[e + i]
  BY <1>5 DEF IsEndOf
<1>7. m \in Nat /\ m >= 1 /\ e \in Nat /\ Len(g) = e + m /\ n < Len(window[p])
  <2>1. Len(g) \in Nat /\ Len(window[p]) \in Nat /\ n \in 0..Len(window[p]) /\ e \in 0..Len(g)
    BY <1>3
  <2>2. m >= Max /\ m = Len(window[p]) - n /\ m = Len(g) - e
    BY <1>2, <1>5, <1>6
  <2> HIDE DEF m, g
  <2> QED
    BY <2>1, <2>2
<1>8. Recent(p, n)[1] = window[p][n + 1]
  BY <1>3, <1>5, <1>7 DEF Recent
<1>9. now - g[e + 1] <= Window
  <2>1. g[e + 1] = window[p][n + 1] /\ g[e + 1] \in Nat
    <3> HIDE DEF g, m
    <3>1. 1 \in 1..m /\ e + 1 \in 1..Len(g) /\ g \in Seq(Nat)
      BY ONLY <1>3, <1>7
    <3> QED
      BY ONLY <3>1, <1>6, <1>8
  <2>2. ~(now - window[p][n + 1] > Window)
    BY <1>2, <1>7 DEF Pops, Expired
  <2> QED
    BY <1>3, <2>1, <2>2
<1>10. e + 1 .. Len(g) \subseteq RecentCharges(p)
  <2> SUFFICES ASSUME NEW i \in e + 1 .. Len(g) PROVE i \in RecentCharges(p)
    OBVIOUS
  <2>1. e + 1 \in DOMAIN g /\ i \in DOMAIN g /\ e + 1 <= i
    <3> HIDE DEF g, m
    <3>1. DOMAIN g = 1..Len(g) /\ Len(g) \in Nat
      BY ONLY <1>3
    <3> QED
      BY ONLY <3>1, <1>7, i \in e + 1 .. Len(g)
  <2>2. g[e + 1] <= g[i] /\ g[i] \in Nat /\ g[e + 1] \in Nat
    <3> HIDE DEF g
    <3> QED
      BY ONLY <1>3, <2>1
  <2>3. now - g[i] <= Window
    <3>1. now \in Nat /\ Window \in Nat
      BY <1>3
    <3> HIDE DEF g
    <3> QED
      BY ONLY <3>1, <1>9, <2>2
  <2> QED
    BY <1>3, <2>1, <2>3 DEF RecentCharges
<1>11. IsFiniteSet(RecentCharges(p))
  <2>1. RecentCharges(p) \subseteq 1..Len(g)
    BY <1>3 DEF RecentCharges
  <2>2. IsFiniteSet(1..Len(g))
    BY <1>3, FS_Interval
  <2> QED
    BY <2>1, <2>2, FS_Subset
<1>12. Cardinality(e + 1 .. Len(g)) = m
  <2>1. e + 1 \in Int /\ Len(g) \in Int /\ e + 1 <= Len(g)
    BY <1>7
  <2>2. Cardinality(e + 1 .. Len(g)) = Len(g) - (e + 1) + 1
    BY <2>1, FS_Interval
  <2> QED
    BY <1>7, <2>2
<1>13. Cardinality(e + 1 .. Len(g)) <= Cardinality(RecentCharges(p))
       /\ Cardinality(RecentCharges(p)) \in Nat
  BY <1>10, <1>11, FS_Subset, FS_CardinalityType
<1> QED
  BY <1>2, <1>7, <1>12, <1>13

\* Nobody is limited for the requests of another company or session, nor for one
\* that was turned away: a denied caller has itself spent Max slots in the window.
THEOREM GateDenialsAreEarned == GateSpec => DenialsAreEarned
<1>1. ChargeInv /\ [GateNext]_gateVars =>
        [now' = now /\ last'.code = "rate_limited" =>
           Cardinality(RecentCharges(<<last'.company, last'.session>>)) >= Max]_gateVars
  <2> SUFFICES ASSUME ChargeInv, GateNext, now' = now, last'.code = "rate_limited"
               PROVE  Cardinality(RecentCharges(<<last'.company, last'.session>>)) >= Max
    OBVIOUS
  <2>1. ~Tick
    BY DEF Tick, ChargeInv, IInv, LimiterTypeOK
  <2>2. PICK c \in Company, s \in Session :
          /\ last'.company = c /\ last'.session = s
          /\ Reject(<<c, s>>)
    BY <2>1, RequestKinds DEF Asked
  <2>3. <<c, s>> \in Caller
    BY DEF Caller
  <2> QED
    BY <2>2, <2>3, DeniedIsFull
<1> QED
  BY <1>1, ChargeInvariant, PTL DEF GateSpec, DenialsAreEarned

\* A slot is spent on a question that is handled, or on one the chat endpoints
\* find too long after they have asked the limiter.
THEOREM GateSlotsAreWellSpent == GateSpec => SlotsAreWellSpent
<1>1. ChargeInv /\ [GateNext]_gateVars =>
        [charged' # charged =>
           \/ last'.code = "handled"
           \/ last'.endpoint = "chat" /\ last'.code = "too_long"]_gateVars
  <2> SUFFICES ASSUME ChargeInv, GateNext, charged' # charged
               PROVE  \/ last'.code = "handled"
                      \/ last'.endpoint = "chat" /\ last'.code = "too_long"
    OBVIOUS
  <2> QED
    BY RequestKinds DEF Asked
<1> QED
  BY <1>1, ChargeInvariant, PTL DEF GateSpec, SlotsAreWellSpent

=============================================================================
