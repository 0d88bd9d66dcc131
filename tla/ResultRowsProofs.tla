--------------------------- MODULE ResultRowsProofs ---------------------------
(***************************************************************************)
(* Lemmas about the operators of ResultRows, for rows of any number: what   *)
(* Where, sorting, cutting and RunView, RunSql and Refine give.  Induction  *)
(* over 0..n is had from the well-foundedness of < on the naturals (UpTo),  *)
(* and Recursion unfolds the functions on 0..n the operators are written    *)
(* with.                                                                    *)
(***************************************************************************)
EXTENDS ResultRows, FiniteSetTheorems, SequenceTheorems, WellFoundedInduction, TLAPS

-----------------------------------------------------------------------------
(* Induction and recursion over 0..n *)

\* A set of numbers has a least one.
LEMMA Least ==
  ASSUME NEW T \in SUBSET Nat, T # {}
  PROVE  \E n \in T : \A m \in T : n <= m
<1> DEFINE R == OpToRel(<, Nat)
<1>1. IsWellFoundedOn(R, Nat)
  BY NatLessThanWellFounded
<1>2. \A x, y \in Nat : <<x, y>> \in R <=> x < y
  BY DEF OpToRel
<1> HIDE DEF R
<1>3. PICK n \in T : \A y \in T : ~(<<y, n>> \in R)
  BY <1>1, WFMin
<1>4. n \in Nat /\ \A m \in T : m \in Nat /\ ~(m < n)
  BY <1>2, <1>3
<1> QED
  BY ONLY <1>3, <1>4

\* What holds at 0, and at m if it holds at m - 1, holds up to n.
LEMMA UpTo ==
  ASSUME NEW n \in Nat, NEW T, 0 \in T, \A m \in 1..n : m - 1 \in T => m \in T
  PROVE  \A m \in 0..n : m \in T
<1> DEFINE Out == {m \in 0..n : m \notin T}
<1> SUFFICES ASSUME Out # {} PROVE FALSE
  OBVIOUS
<1>1. Out \in SUBSET Nat
  OBVIOUS
<1>2. PICK k \in Out : \A m \in Out : k <= m
  BY ONLY <1>1, Out # {}, Least
<1>3. k \in 1..n /\ k - 1 \in 0..n /\ k - 1 < k
  BY <1>2
<1>4. k - 1 \in T
  BY <1>2, <1>3
<1> QED
  BY <1>2, <1>3, <1>4

\* f starts at base and goes by step up to n.
Iterates(f, n, base, step) == f[0] = base /\ \A m \in 1..n : f[m] = step[m][f[m - 1]]

\* A recursion over 0..n has its function.
LEMMA Recursion ==
  ASSUME NEW n \in Nat, NEW X, NEW base \in X, NEW step \in [1..n -> [X -> X]]
  PROVE  \E f \in [0..n -> X] : Iterates(f, n, base, step)
<1> DEFINE Runs(f, m) == f[0] = base /\ \A k \in 1..m : f[k] = step[k][f[k - 1]]
           Can(m) == \E f \in [0..m -> X] : Runs(f, m)
           T == {m \in 0..n : Can(m)}
<1>1. Can(0)
  <2>1. [k \in 0..0 |-> base] \in [0..0 -> X] /\ Runs([k \in 0..0 |-> base], 0)
    OBVIOUS
  <2> QED
    BY <2>1
<1>2. ASSUME NEW m \in 1..n, Can(m - 1) PROVE Can(m)
  <2>1. PICK f \in [0..(m - 1) -> X] : Runs(f, m - 1)
    BY <1>2
  <2> DEFINE g == [k \in 0..m |-> IF k = m THEN step[m][f[m - 1]] ELSE f[k]]
  <2>2. step[m][f[m - 1]] \in X
    BY <2>1
  <2>3. g \in [0..m -> X]
    BY <2>1, <2>2
  <2>4. g[0] = base /\ \A k \in 0..(m - 1) : g[k] = f[k]
    BY <2>1
  <2>5. ASSUME NEW k \in 1..m PROVE g[k] = step[k][g[k - 1]]
    <3>1. k - 1 \in 0..(m - 1) /\ g[k - 1] = f[k - 1]
      BY <2>4
    <3>2. CASE k = m
      BY <3>1, <3>2
    <3>3. CASE k # m
      <4>1. k \in 1..(m - 1) /\ k \in 0..(m - 1)
        BY <3>3
      <4> QED
        BY <2>1, <2>4, <3>1, <4>1
    <3> QED
      BY <3>2, <3>3
  <2>6. Runs(g, m)
    BY <2>4, <2>5
  <2> HIDE DEF g, Runs
  <2> QED
    BY <2>3, <2>6
<1> HIDE DEF Can
<1>3. 0 \in T /\ \A m \in 1..n : m - 1 \in T => m \in T
  BY <1>1, <1>2
<1> HIDE DEF T
<1>4. \A m \in 0..n : m \in T
  BY ONLY <1>3, n \in Nat, UpTo
<1> QED
  BY <1>4 DEF T, Can, Iterates

-----------------------------------------------------------------------------
(* Where *)

\* picked is the good ones of the first n of rows in their order; at says which
\* they were.
Takes(at, rows, n, good, picked) ==
  /\ at \in [1..Len(picked) -> 1..n]
  /\ \A k \in 1..Len(picked) : picked[k] = rows[at[k]] /\ rows[at[k]] \in good
  /\ \A j, k \in 1..Len(picked) : j < k => at[j] < at[k]
  /\ \A i \in 1..n : rows[i] \in good => \E k \in 1..Len(picked) : at[k] = i

\* taken[m] is what was taken of the first m rows.
Passed(taken, rows, good) ==
  /\ taken[0] = <<>>
  /\ \A m \in 1..Len(rows) :
       taken[m] = IF rows[m] \in good THEN Append(taken[m - 1], rows[m]) ELSE taken[m - 1]

\* The pass of Where, step by step.
LEMMA WherePass ==
  ASSUME NEW S, NEW rows \in Seq(S), NEW good
  PROVE  \E taken \in [0..Len(rows) -> Seq(S)] :
           Passed(taken, rows, good) /\ Where(rows, good) = taken[Len(rows)]
<1> DEFINE n == Len(rows)
           X == Seq(S)
           add(m, x) == IF rows[m] \in good THEN Append(x, rows[m]) ELSE x
           step == [m \in 1..n |-> [x \in X |-> add(m, x)]]
           Pass(f) == [m \in 0..n |->
                         IF m = 0 THEN <<>>
                         ELSE IF rows[m] \in good THEN Append(f[m - 1], rows[m])
                         ELSE f[m - 1]]
           Chosen == CHOOSE h : h = Pass(h)
<1>1. n \in Nat /\ <<>> \in X
  OBVIOUS
<1>2. \A m \in 1..n : rows[m] \in S
  OBVIOUS
<1>3. \A m \in 1..n, x \in X : add(m, x) \in X
  BY <1>2
<1>4. Where(rows, good) = Chosen[n]
  BY DEF Where
<1>5. \A f : Pass(f) = [m \in 0..n |-> IF m = 0 THEN <<>> ELSE add(m, f[m - 1])]
  OBVIOUS
<1>6. \A m, x : add(m, x) = IF rows[m] \in good THEN Append(x, rows[m]) ELSE x
  OBVIOUS
<1> HIDE DEF add, n, X, Pass
<1>7. step \in [1..n -> [X -> X]] /\ \A m \in 1..n, x \in X : step[m][x] = add(m, x)
  BY <1>3
<1> HIDE DEF step
<1>8. PICK f \in [0..n -> X] : f[0] = <<>> /\ \A m \in 1..n : f[m] = step[m][f[m - 1]]
  <2> DEFINE base == <<>>
  <2>1. n \in Nat /\ base \in X /\ step \in [1..n -> [X -> X]]
    BY <1>1, <1>7
  <2> HIDE DEF base
  <2>2. \E f \in [0..n -> X] : Iterates(f, n, base, step)
    BY ONLY <2>1, Recursion
  <2> QED
    BY <2>2 DEF base, Iterates
<1>9. ASSUME NEW m \in 0..n PROVE f[m] = IF m = 0 THEN <<>> ELSE add(m, f[m - 1])
  <2>1. CASE m = 0
    BY <1>8, <2>1
  <2>2. CASE m # 0
    <3>1. m \in 1..n /\ m - 1 \in 0..n
      BY <1>1, <2>2
    <3>2. f[m - 1] \in X
      BY <1>8, <3>1
    <3>3. f[m] = step[m][f[m - 1]] /\ step[m][f[m - 1]] = add(m, f[m - 1])
      BY <1>7, <1>8, <3>1, <3>2
    <3> QED
      BY <2>2, <3>3
  <2> QED
    BY <2>1, <2>2
<1>10. f = [m \in 0..n |-> IF m = 0 THEN <<>> ELSE add(m, f[m - 1])]
  BY <1>8, <1>9
<1>11. f = Pass(f)
  BY <1>5, <1>10
<1>12. Chosen = Pass(Chosen)
  BY <1>11
<1> HIDE DEF Chosen
<1>13. \A m \in 0..n : Chosen[m] = IF m = 0 THEN <<>> ELSE add(m, Chosen[m - 1])
  BY <1>5, <1>12
<1> DEFINE T == {m \in 0..n : Chosen[m] \in X}
<1>14. 0 \in T
  BY <1>1, <1>13
<1>15. ASSUME NEW m \in 1..n, m - 1 \in T PROVE m \in T
  <2>1. m \in 0..n /\ m # 0 /\ Chosen[m - 1] \in X
    BY <1>1, <1>15
  <2> QED
    BY <1>3, <1>13, <2>1
<1> HIDE DEF T
<1>16. \A m \in 0..n : m \in T
  BY ONLY <1>1, <1>14, <1>15, UpTo
<1>17. Chosen \in [0..n -> X]
  BY <1>5, <1>12, <1>16 DEF T
<1>18. Chosen[0] = <<>> /\ \A m \in 1..n : Chosen[m] = add(m, Chosen[m - 1])
  BY <1>1, <1>13
<1> QED
  BY <1>4, <1>6, <1>17, <1>18 DEF n, X, Passed

\* A row that is not good adds nothing to what was taken.
LEMMA TakesNone ==
  ASSUME NEW rows, NEW good, NEW m \in Nat \ {0}, NEW picked, NEW at,
         Len(picked) \in Nat, Takes(at, rows, m - 1, good, picked), rows[m] \notin good
  PROVE  Takes(at, rows, m, good, picked)
<1>1. 1..(m - 1) \subseteq 1..m
  OBVIOUS
<1>2. at \in [1..Len(picked) -> 1..m]
  BY <1>1 DEF Takes
<1>3. ASSUME NEW i \in 1..m, rows[i] \in good PROVE \E k \in 1..Len(picked) : at[k] = i
  <2>1. i \in 1..(m - 1)
    BY <1>3
  <2> QED
    BY <1>3, <2>1 DEF Takes
<1> QED
  BY <1>2, <1>3 DEF Takes

\* A good row is taken after those before it.
LEMMA TakesOne ==
  ASSUME NEW S, NEW rows, NEW good, NEW m \in Nat \ {0}, NEW picked \in Seq(S), NEW at,
         Takes(at, rows, m - 1, good, picked), rows[m] \in good, rows[m] \in S
  PROVE  \E on : Takes(on, rows, m, good, Append(picked, rows[m]))
<1> DEFINE l == Len(picked)
           more == Append(picked, rows[m])
           on == [k \in 1..(l + 1) |-> IF k = l + 1 THEN m ELSE at[k]]
<1>1. l \in Nat /\ Len(more) = l + 1
  OBVIOUS
<1>2. more[l + 1] = rows[m] /\ \A k \in 1..l : more[k] = picked[k]
  OBVIOUS
<1> HIDE DEF more, l
<1>3. \A k \in 1..l : at[k] \in 1..(m - 1)
  BY DEF Takes, l
<1>4. on[l + 1] = m /\ \A k \in 1..l : on[k] = at[k]
  BY <1>1
<1>5. on \in [1..(l + 1) -> 1..m]
  BY <1>1, <1>3
<1> HIDE DEF on
<1>6. \A k \in 1..(l + 1) : k = l + 1 \/ k \in 1..l
  BY <1>1
<1>7. ASSUME NEW k \in 1..(l + 1) PROVE more[k] = rows[on[k]] /\ rows[on[k]] \in good
  <2>1. CASE k = l + 1
    BY <1>2, <1>4, <2>1
  <2>2. CASE k \in 1..l
    BY <1>2, <1>4, <2>2 DEF Takes, l
  <2> QED
    BY <1>6, <2>1, <2>2
<1>8. ASSUME NEW j \in 1..(l + 1), NEW k \in 1..(l + 1), j < k PROVE on[j] < on[k]
  <2>1. j \in 1..l
    BY <1>1, <1>8
  <2>2. CASE k = l + 1
    BY <1>3, <1>4, <2>1, <2>2
  <2>3. CASE k \in 1..l
    BY <1>4, <1>8, <2>1, <2>3 DEF Takes, l
  <2> QED
    BY <1>6, <2>2, <2>3
<1>9. ASSUME NEW i \in 1..m, rows[i] \in good PROVE \E k \in 1..(l + 1) : on[k] = i
  <2>1. CASE i = m
    BY <1>1, <1>4, <2>1
  <2>2. CASE i # m
    <3>1. i \in 1..(m - 1)
      BY <2>2
    <3>2. PICK k \in 1..l : at[k] = i
      BY <1>9, <3>1 DEF Takes, l
    <3> QED
      BY <1>1, <1>4, <3>2
  <2> QED
    BY <2>1, <2>2
<1>10. Takes(on, rows, m, good, more)
  BY <1>1, <1>5, <1>7, <1>8, <1>9 DEF Takes
<1> QED
  BY <1>10 DEF more

\* Where gives the good rows, in their order, and no more of them than there are.
LEMMA WhereTakes ==
  ASSUME NEW S, NEW rows \in Seq(S), NEW good
  PROVE  /\ Where(rows, good) \in Seq(S)
         /\ Len(Where(rows, good)) <= Len(rows)
         /\ \E at : Takes(at, rows, Len(rows), good, Where(rows, good))
<1> DEFINE n == Len(rows)
<1>0. PICK taken \in [0..n -> Seq(S)] :
        Passed(taken, rows, good) /\ Where(rows, good) = taken[n]
  BY WherePass
<1>1. /\ taken[0] = <<>>
      /\ \A m \in 1..n :
           taken[m] = IF rows[m] \in good THEN Append(taken[m - 1], rows[m]) ELSE taken[m - 1]
      /\ Where(rows, good) = taken[n]
  BY <1>0 DEF Passed
<1>2. n \in Nat /\ \A m \in 1..n : rows[m] \in S
  OBVIOUS
<1> HIDE DEF n
<1> DEFINE Can(m) == Len(taken[m]) <= m /\ \E at : Takes(at, rows, m, good, taken[m])
           T == {m \in 0..n : Can(m)}
<1>3. Can(0)
  <2>1. Len(taken[0]) = 0
    BY <1>1
  <2>2. Takes([k \in 1..0 |-> 0], rows, 0, good, taken[0])
    BY <2>1 DEF Takes
  <2> QED
    BY <2>1, <2>2
<1>4. ASSUME NEW m \in 1..n, Can(m - 1) PROVE Can(m)
  <2>1. m - 1 \in 0..n /\ m \in Nat \ {0}
    BY <1>2
  <2>2. taken[m - 1] \in Seq(S) /\ Len(taken[m - 1]) \in Nat
    BY <1>1, <2>1
  <2>3. PICK at : Takes(at, rows, m - 1, good, taken[m - 1])
    BY <1>4
  <2>4. CASE rows[m] \in good
    <3>1. taken[m] = Append(taken[m - 1], rows[m])
      BY <1>1, <2>4
    <3>2. Len(taken[m]) = Len(taken[m - 1]) + 1
      BY <1>2, <2>2, <3>1, AppendProperties
    <3>3. \E on : Takes(on, rows, m, good, Append(taken[m - 1], rows[m]))
      BY <1>2, <2>1, <2>2, <2>3, <2>4, TakesOne
    <3> QED
      BY <1>4, <2>1, <2>2, <3>1, <3>2, <3>3
  <2>5. CASE rows[m] \notin good
    <3>1. taken[m] = taken[m - 1]
      BY <1>1, <2>5
    <3>2. Takes(at, rows, m, good, taken[m])
      BY <2>1, <2>2, <2>3, <2>5, <3>1, TakesNone
    <3> QED
      BY <1>4, <2>1, <2>2, <3>1, <3>2
  <2> QED
    BY <2>4, <2>5
<1> HIDE DEF Can
<1>5. 0 \in T /\ \A m \in 1..n : m - 1 \in T => m \in T
  BY <1>2, <1>3, <1>4
<1> HIDE DEF T
<1>6. \A m \in 0..n : m \in T
  BY ONLY <1>2, <1>5, UpTo
<1>7. Can(n)
  BY <1>2, <1>6 DEF T
<1> QED
  BY <1>1, <1>2, <1>7 DEF Can, n

\* Its rows are the good ones.
LEMMA WhereGood ==
  ASSUME NEW S, NEW rows \in Seq(S), NEW good
  PROVE  ToSet(Where(rows, good)) = ToSet(rows) \cap good
<1> DEFINE w == Where(rows, good)
<1>1. w \in Seq(S) /\ DOMAIN rows = 1..Len(rows) /\ DOMAIN w = 1..Len(w)
  BY WhereTakes
<1>2. PICK at : Takes(at, rows, Len(rows), good, w)
  BY WhereTakes
<1> HIDE DEF w
<1>3. ASSUME NEW r \in ToSet(w) PROVE r \in ToSet(rows) \cap good
  <2>1. PICK k \in 1..Len(w) : r = w[k]
    BY <1>1 DEF ToSet
  <2> QED
    BY <1>1, <1>2, <2>1 DEF Takes, ToSet
<1>4. ASSUME NEW r \in ToSet(rows) \cap good PROVE r \in ToSet(w)
  <2>1. PICK i \in 1..Len(rows) : r = rows[i]
    BY <1>1 DEF ToSet
  <2>2. PICK k \in 1..Len(w) : at[k] = i
    BY <1>2, <2>1 DEF Takes
  <2>3. w[k] = r
    BY <1>2, <2>1, <2>2 DEF Takes
  <2> QED
    BY <1>1, <2>3 DEF ToSet
<1> QED
  BY <1>3, <1>4 DEF w

-----------------------------------------------------------------------------
(* The same rows in another order *)

\* p takes every position of a to the one of b that holds its row.
Matches(p, a, b) ==
  /\ p \in [1..Len(a) -> 1..Len(b)]
  /\ \A i, j \in 1..Len(a) : p[i] = p[j] => i = j
  /\ \A j \in 1..Len(b) : \E i \in 1..Len(a) : p[i] = j
  /\ \A i \in 1..Len(a) : a[i] = b[p[i]]

\* a has the rows of b, in some order.
Rearranged(a, b) == \E p \in [1..Len(a) -> 1..Len(b)] : Matches(p, a, b)

\* A sequence is itself in some order.
LEMMA RearrangedSame ==
  ASSUME NEW a
  PROVE  Rearranged(a, a)
<1>1. Matches([i \in 1..Len(a) |-> i], a, a)
  BY DEF Matches
<1> QED
  BY <1>1 DEF Rearranged

\* Two rearrangements make one.
LEMMA RearrangedTwice ==
  ASSUME NEW a, NEW b, NEW c, Rearranged(a, b), Rearranged(b, c)
  PROVE  Rearranged(a, c)
<1>1. PICK p : Matches(p, a, b)
  BY DEF Rearranged
<1>2. PICK q : Matches(q, b, c)
  BY DEF Rearranged
<1> DEFINE r == [i \in 1..Len(a) |-> q[p[i]]]
<1>3. r \in [1..Len(a) -> 1..Len(c)]
  BY <1>1, <1>2 DEF Matches
<1>4. ASSUME NEW i \in 1..Len(a), NEW j \in 1..Len(a), r[i] = r[j] PROVE i = j
  <2>1. p[i] \in 1..Len(b) /\ p[j] \in 1..Len(b)
    BY <1>1 DEF Matches
  <2>2. p[i] = p[j]
    BY <1>2, <1>4, <2>1 DEF Matches
  <2> QED
    BY <1>1, <2>2 DEF Matches
<1>5. ASSUME NEW k \in 1..Len(c) PROVE \E i \in 1..Len(a) : r[i] = k
  <2>1. PICK j \in 1..Len(b) : q[j] = k
    BY <1>2 DEF Matches
  <2>2. PICK i \in 1..Len(a) : p[i] = j
    BY <1>1 DEF Matches
  <2> QED
    BY <2>1, <2>2
<1>6. \A i \in 1..Len(a) : a[i] = c[r[i]]
  BY <1>1, <1>2 DEF Matches
<1>7. Matches(r, a, c)
  BY <1>3, <1>4, <1>5, <1>6 DEF Matches
<1> QED
  BY <1>7 DEF Rearranged, Matches

\* There are n numbers from 1 to n.
LEMMA CountTo ==
  ASSUME NEW n \in Nat
  PROVE  IsFiniteSet(1..n) /\ Cardinality(1..n) = n
<1>1. 1 \in Int /\ n \in Int
  OBVIOUS
<1>2. IsFiniteSet(1..n) /\ Cardinality(1..n) = IF 1 > n THEN 0 ELSE n - 1 + 1
  BY <1>1, FS_Interval
<1> QED
  BY <1>2

\* There are as many rows in any order.
LEMMA RearrangedLen ==
  ASSUME NEW a, NEW b, Len(a) \in Nat, Len(b) \in Nat, Rearranged(a, b)
  PROVE  Len(a) = Len(b)
<1>1. PICK p : Matches(p, a, b)
  BY DEF Rearranged
<1>2. p \in Bijection(1..Len(a), 1..Len(b))
  BY <1>1 DEF Matches, Bijection, Injection, IsInjective, Surjection
<1>3. ExistsBijection(1..Len(a), 1..Len(b))
  BY <1>2 DEF ExistsBijection
<1>4. /\ IsFiniteSet(1..Len(a)) /\ Cardinality(1..Len(a)) = Len(a)
      /\ Cardinality(1..Len(b)) = Len(b)
  BY CountTo
<1>5. Cardinality(1..Len(b)) = Cardinality(1..Len(a))
  BY <1>3, <1>4, FS_Bijection
<1> QED
  BY <1>4, <1>5

\* The rows are the same in any order.
LEMMA RearrangedRows ==
  ASSUME NEW S, NEW a \in Seq(S), NEW b \in Seq(S), Rearranged(a, b)
  PROVE  ToSet(a) = ToSet(b)
<1>1. PICK p : Matches(p, a, b)
  BY DEF Rearranged
<1>2. DOMAIN a = 1..Len(a) /\ DOMAIN b = 1..Len(b)
  OBVIOUS
<1>3. ASSUME NEW r \in ToSet(a) PROVE r \in ToSet(b)
  <2>1. PICK i \in 1..Len(a) : r = a[i]
    BY <1>2 DEF ToSet
  <2> QED
    BY <1>1, <1>2, <2>1 DEF ToSet, Matches
<1>4. ASSUME NEW r \in ToSet(b) PROVE r \in ToSet(a)
  <2>1. PICK j \in 1..Len(b) : r = b[j]
    BY <1>2 DEF ToSet
  <2>2. PICK i \in 1..Len(a) : p[i] = j
    BY <1>1, <2>1 DEF Matches
  <2> QED
    BY <1>1, <1>2, <2>1, <2>2 DEF ToSet, Matches
<1> QED
  BY <1>3, <1>4

\* No row is taken twice.
LEMMA TakesOnce ==
  ASSUME NEW at, NEW rows, NEW n, NEW good, NEW picked, Len(picked) \in Nat,
         Takes(at, rows, n, good, picked),
         NEW j \in 1..Len(picked), NEW k \in 1..Len(picked), at[j] = at[k]
  PROVE  j = k
<1>1. at[j] \in Int /\ at[k] \in Int
  BY DEF Takes
<1>2. ~(j < k)
  BY <1>1 DEF Takes
<1>3. ~(k < j)
  BY <1>1 DEF Takes
<1> QED
  BY <1>2, <1>3

\* The good rows of a rearranged sequence are those of the other one rearranged.
LEMMA RearrangedWhere ==
  ASSUME NEW S, NEW a \in Seq(S), NEW b \in Seq(S), NEW good, Rearranged(a, b)
  PROVE  Rearranged(Where(a, good), Where(b, good))
<1> DEFINE va == Where(a, good)
           vb == Where(b, good)
<1>1. PICK p : Matches(p, a, b)
  BY DEF Rearranged
<1>2. PICK s : Takes(s, a, Len(a), good, va)
  BY WhereTakes
<1>3. PICK t : Takes(t, b, Len(b), good, vb)
  BY WhereTakes
<1>4. va \in Seq(S) /\ vb \in Seq(S) /\ Len(va) \in Nat /\ Len(vb) \in Nat
  BY WhereTakes
<1> HIDE DEF va, vb
<1>5. ASSUME NEW j \in 1..Len(va), NEW k \in 1..Len(va), s[j] = s[k] PROVE j = k
  BY <1>2, <1>4, <1>5, TakesOnce
<1>6. ASSUME NEW j \in 1..Len(vb), NEW k \in 1..Len(vb), t[j] = t[k] PROVE j = k
  BY <1>3, <1>4, <1>6, TakesOnce
<1>7. \A k \in 1..Len(va) : \E l \in 1..Len(vb) : t[l] = p[s[k]]
  BY <1>1, <1>2, <1>3 DEF Takes, Matches
<1> DEFINE q == [k \in 1..Len(va) |-> CHOOSE l \in 1..Len(vb) : t[l] = p[s[k]]]
<1>8. \A k \in 1..Len(va) : q[k] \in 1..Len(vb) /\ t[q[k]] = p[s[k]]
  BY <1>7
<1>9. q \in [1..Len(va) -> 1..Len(vb)]
  BY <1>8
<1> HIDE DEF q
<1>10. ASSUME NEW j \in 1..Len(va), NEW k \in 1..Len(va), q[j] = q[k] PROVE j = k
  <2>1. p[s[j]] = p[s[k]]
    BY <1>8, <1>10
  <2>2. s[j] = s[k]
    BY <1>1, <1>2, <2>1 DEF Takes, Matches
  <2> QED
    BY <1>5, <2>2
<1>11. ASSUME NEW l \in 1..Len(vb) PROVE \E k \in 1..Len(va) : q[k] = l
  <2>1. t[l] \in 1..Len(b) /\ b[t[l]] \in good
    BY <1>3 DEF Takes
  <2>2. PICK i \in 1..Len(a) : p[i] = t[l]
    BY <1>1, <2>1 DEF Matches
  <2>3. a[i] \in good
    BY <1>1, <2>1, <2>2 DEF Matches
  <2>4. PICK k \in 1..Len(va) : s[k] = i
    BY <1>2, <2>3 DEF Takes
  <2>5. t[q[k]] = t[l]
    BY <1>8, <2>2, <2>4
  <2> QED
    BY <1>6, <1>8, <2>5
<1>12. ASSUME NEW k \in 1..Len(va) PROVE va[k] = vb[q[k]]
  <2>1. va[k] = a[s[k]] /\ s[k] \in 1..Len(a)
    BY <1>2 DEF Takes
  <2>2. a[s[k]] = b[p[s[k]]]
    BY <1>1, <2>1 DEF Matches
  <2>3. vb[q[k]] = b[t[q[k]]]
    BY <1>3, <1>8 DEF Takes
  <2> QED
    BY <1>8, <2>1, <2>2, <2>3
<1>13. Matches(q, va, vb)
  BY <1>9, <1>10, <1>11, <1>12 DEF Matches
<1> QED
  BY <1>13 DEF Rearranged, Matches, va, vb

-----------------------------------------------------------------------------
(* Sorted *)

\* What a row has in a column.
Cell == Int \cup {Null}

\* Rows have an order: of two, one precedes the other and not the reverse, and
\* what precedes a row precedes all it precedes.
LEMMA PrecedesOrders ==
  ASSUME NEW rows, NEW column, NEW descending, NEW D \in SUBSET Nat,
         \A i \in D : rows[i][column] \in Cell,
         NEW i \in D, NEW j \in D, NEW k \in D
  PROVE  /\ ~Precedes(rows, column, descending, i, i)
         /\ i # j => \/ Precedes(rows, column, descending, i, j)
                     \/ Precedes(rows, column, descending, j, i)
         /\ Precedes(rows, column, descending, i, j) /\ Precedes(rows, column, descending, j, k) =>
              Precedes(rows, column, descending, i, k)
<1> DEFINE a == rows[i][column]
           b == rows[j][column]
           c == rows[k][column]
           P(x, y) == Precedes(rows, column, descending, x, y)
<1>1. /\ a \in Int \/ a = Null
      /\ b \in Int \/ b = Null
      /\ c \in Int \/ c = Null
      /\ Null \notin Int
  BY RowsAssumption DEF Cell
<1>2. i \in Int /\ j \in Int /\ k \in Int
  OBVIOUS
<1>3. /\ P(i, i) <=>
           IF a = a THEN i < i ELSE IF Null \in {a, a} THEN a = Null
           ELSE IF descending THEN a > a ELSE a < a
      /\ P(i, j) <=>
           IF a = b THEN i < j ELSE IF Null \in {a, b} THEN b = Null
           ELSE IF descending THEN a > b ELSE a < b
      /\ P(j, i) <=>
           IF b = a THEN j < i ELSE IF Null \in {b, a} THEN a = Null
           ELSE IF descending THEN b > a ELSE b < a
      /\ P(j, k) <=>
           IF b = c THEN j < k ELSE IF Null \in {b, c} THEN c = Null
           ELSE IF descending THEN b > c ELSE b < c
      /\ P(i, k) <=>
           IF a = c THEN i < k ELSE IF Null \in {a, c} THEN c = Null
           ELSE IF descending THEN a > c ELSE a < c
  BY DEF Precedes
<1> HIDE DEF a, b, c, P
<1>4. ~P(i, i)
  BY <1>2, <1>3
<1>5. ASSUME i # j
      PROVE  \/ P(i, j)
             \/ P(j, i)
  <2>1. CASE descending
    <3>1. CASE a = Null \/ b = Null
      BY <1>1, <1>2, <1>3, <1>5, <2>1, <3>1
    <3>2. CASE a \in Int /\ b \in Int
      BY <1>1, <1>2, <1>3, <1>5, <2>1, <3>2
    <3> QED
      BY <1>1, <3>1, <3>2
  <2>2. CASE ~descending
    <3>1. CASE a = Null \/ b = Null
      BY <1>1, <1>2, <1>3, <1>5, <2>2, <3>1
    <3>2. CASE a \in Int /\ b \in Int
      BY <1>1, <1>2, <1>3, <1>5, <2>2, <3>2
    <3> QED
      BY <1>1, <3>1, <3>2
  <2> QED
    BY <2>1, <2>2
<1>6. ASSUME P(i, j), P(j, k)
      PROVE  P(i, k)
  <2>1. CASE descending
    <3>1. CASE a = Null
      BY <1>1, <1>2, <1>3, <1>6, <2>1, <3>1
    <3>2. CASE b = Null
      BY <1>1, <1>2, <1>3, <1>6, <2>1, <3>2
    <3>3. CASE c = Null
      BY <1>1, <1>2, <1>3, <1>6, <2>1, <3>3
    <3>4. CASE a \in Int /\ b \in Int /\ c \in Int
      BY <1>1, <1>2, <1>3, <1>6, <2>1, <3>4
    <3> QED
      BY <1>1, <3>1, <3>2, <3>3, <3>4
  <2>2. CASE ~descending
    <3>1. CASE a = Null
      BY <1>1, <1>2, <1>3, <1>6, <2>2, <3>1
    <3>2. CASE b = Null
      BY <1>1, <1>2, <1>3, <1>6, <2>2, <3>2
    <3>3. CASE c = Null
      BY <1>1, <1>2, <1>3, <1>6, <2>2, <3>3
    <3>4. CASE a \in Int /\ b \in Int /\ c \in Int
      BY <1>1, <1>2, <1>3, <1>6, <2>2, <3>4
    <3> QED
      BY <1>1, <3>1, <3>2, <3>3, <3>4
  <2> QED
    BY <2>1, <2>2
<1> QED
  BY <1>4, <1>5, <1>6 DEF P

\* Sorted gives the same rows, and of any two of them the earlier one precedes.
LEMMA SortedOrder ==
  ASSUME NEW S, NEW rows \in Seq(S), NEW column, NEW descending,
         \A r \in S : r[column] \in Cell
  PROVE  /\ Sorted(rows, column, descending) \in Seq(S)
         /\ Len(Sorted(rows, column, descending)) = Len(rows)
         /\ \E p : /\ Matches(p, Sorted(rows, column, descending), rows)
                   /\ \A i, j \in 1..Len(rows) :
                        i < j => Precedes(rows, column, descending, p[i], p[j])
<1> DEFINE n == Len(rows)
           D == DOMAIN rows
           P(j, i) == Precedes(rows, column, descending, j, i)
           before(i) == {j \in D : P(j, i)}
           place == [i \in D |-> 1 + Cardinality(before(i))]
           s == Sorted(rows, column, descending)
<1>1. n \in Nat /\ D = 1..n /\ D \in SUBSET Nat /\ \A i \in D : rows[i] \in S
  OBVIOUS
<1>2. IsFiniteSet(D) /\ Cardinality(D) = n
  BY <1>1, CountTo
<1>3. s = [q \in D |-> rows[CHOOSE i \in D : 1 + Cardinality(before(i)) = q]]
  BY DEF Sorted
<1>4. \A i \in D : rows[i][column] \in Cell
  BY <1>1
<1>5. /\ \A i \in D : ~P(i, i)
      /\ \A i, j \in D : i # j => P(i, j) \/ P(j, i)
      /\ \A i, j, k \in D : P(i, j) /\ P(j, k) => P(i, k)
  <2> HIDE DEF n, D
  <2>1. ASSUME NEW i \in D, NEW j \in D, NEW k \in D
        PROVE  ~P(i, i) /\ (i # j => P(i, j) \/ P(j, i)) /\ (P(i, j) /\ P(j, k) => P(i, k))
    BY <1>1, <1>4, PrecedesOrders
  <2> HIDE DEF P
  <2> QED
    BY <2>1
<1> HIDE DEF n, D, P, s
<1>6. ASSUME NEW i \in D
      PROVE  IsFiniteSet(before(i)) /\ Cardinality(before(i)) \in 0..(n - 1)
  <2>1. before(i) \in SUBSET D /\ IsFiniteSet(before(i))
    BY <1>2, FS_Subset
  <2>2. i \notin before(i) /\ before(i) \cup {i} \in SUBSET D
    BY <1>5, <2>1
  <2>3. Cardinality(before(i) \cup {i}) = Cardinality(before(i)) + 1
    BY <2>1, <2>2, FS_AddElement
  <2>4. Cardinality(before(i) \cup {i}) <= n
    BY <1>2, <2>2, FS_Subset
  <2>5. Cardinality(before(i)) \in Nat
    BY <2>1, FS_CardinalityType
  <2> QED
    BY <1>1, <2>1, <2>3, <2>4, <2>5
<1>7. ASSUME NEW j \in D, NEW i \in D, P(j, i)
      PROVE  Cardinality(before(j)) < Cardinality(before(i))
  <2>1. before(j) \in SUBSET before(i)
    BY <1>5, <1>7
  <2>2. before(j) # before(i)
    BY <1>5, <1>7
  <2>3. /\ Cardinality(before(j)) <= Cardinality(before(i))
        /\ Cardinality(before(j)) # Cardinality(before(i))
    BY <1>6, <2>1, <2>2, FS_Subset
  <2> HIDE DEF before
  <2>4. Cardinality(before(j)) \in Int /\ Cardinality(before(i)) \in Int
    BY <1>1, <1>6
  <2> QED
    BY <2>3, <2>4
<1> HIDE DEF before
<1>8. place \in [D -> D]
  BY <1>1, <1>6
<1>9. \A i, j \in D : P(j, i) => place[j] < place[i]
  BY <1>6, <1>7
<1>10. \A i \in D : place[i] = 1 + Cardinality(before(i))
  OBVIOUS
<1> HIDE DEF place
<1>11. ASSUME NEW i \in D, NEW j \in D, place[i] = place[j] PROVE i = j
  <2>1. place[i] \in Nat /\ ~P(i, j) /\ ~P(j, i)
    BY <1>1, <1>8, <1>9, <1>11
  <2> QED
    BY <1>5, <2>1
<1>12. place \in Injection(D, D)
  BY <1>8, <1>11 DEF Injection, IsInjective
<1>13. place \in Surjection(D, D)
  BY <1>2, <1>12, FS_Injection
<1>14. \A q \in D : \E i \in D : place[i] = q
  BY <1>13 DEF Surjection
<1> DEFINE p == [q \in D |-> CHOOSE i \in D : 1 + Cardinality(before(i)) = q]
<1>15. ASSUME NEW q \in D PROVE p[q] \in D /\ place[p[q]] = q
  <2>1. \E i \in D : 1 + Cardinality(before(i)) = q
    BY <1>10, <1>14
  <2>2. p[q] \in D /\ 1 + Cardinality(before(p[q])) = q
    BY <2>1
  <2> QED
    BY <1>10, <2>2
<1>16. p \in [D -> D] /\ \A q \in D : s[q] = rows[p[q]]
  BY <1>3, <1>15
<1>17. s \in [D -> S]
  <2>1. s = [q \in D |-> s[q]]
    BY <1>3
  <2>2. \A q \in D : s[q] \in S
    <3> HIDE DEF p
    <3> QED
      BY <1>1, <1>16
  <2> QED
    BY <2>1, <2>2
<1> HIDE DEF p
<1>18. s \in Seq(S) /\ Len(s) = n
  BY <1>1, <1>17
<1>19. \A q, r \in D : p[q] = p[r] => q = r
  BY <1>15
<1>20. \A i \in D : \E q \in D : p[q] = i
  <2> TAKE i \in D
  <2>1. place[i] \in D /\ p[place[i]] \in D /\ place[p[place[i]]] = place[i]
    BY <1>8, <1>15
  <2> QED
    BY <1>11, <2>1
<1>21. Matches(p, s, rows)
  BY <1>1, <1>16, <1>18, <1>19, <1>20 DEF Matches, n
<1>22. ASSUME NEW i \in D, NEW j \in D, i < j PROVE P(p[i], p[j])
  <2>1. p[i] # p[j] /\ i \in Int /\ j \in Int
    BY <1>1, <1>19, <1>22
  <2>2. ~P(p[j], p[i])
    <3>1. P(p[j], p[i]) => j < i
      BY <1>9, <1>15
    <3> QED
      BY <1>22, <2>1, <3>1
  <2> QED
    BY <1>5, <1>15, <2>1, <2>2
<1> QED
  BY <1>1, <1>18, <1>21, <1>22 DEF n, P, s

-----------------------------------------------------------------------------
(* The first rows *)

\* The first k of rows are the rows there are, up to k of them.
LEMMA FirstRows ==
  ASSUME NEW S, NEW rows \in Seq(S), NEW k \in Nat
  PROVE  /\ First(rows, k) \in Seq(S)
         /\ Len(First(rows, k)) = AtMost(Len(rows), k)
         /\ \A i \in 1..Len(First(rows, k)) : First(rows, k)[i] = rows[i]
<1> DEFINE m == AtMost(Len(rows), k)
<1>1. Len(rows) \in Nat /\ m \in 0..Len(rows)
  BY DEF AtMost
<1>2. First(rows, k) = SubSeq(rows, 1, m)
  BY DEF First
<1> HIDE DEF m
<1>3. /\ SubSeq(rows, 1, m) \in Seq(S)
      /\ Len(SubSeq(rows, 1, m)) = m
      /\ \A i \in 1..m : SubSeq(rows, 1, m)[i] = rows[i]
  BY <1>1
<1> QED
  BY <1>2, <1>3 DEF m

\* If there are no more than k rows, the first k are all of them.
LEMMA FirstAll ==
  ASSUME NEW S, NEW rows \in Seq(S), NEW k \in Nat, Len(rows) <= k
  PROVE  First(rows, k) = rows
<1>1. AtMost(Len(rows), k) = Len(rows)
  BY DEF AtMost
<1>2. SubSeq(rows, 1, Len(rows)) = rows
  OBVIOUS
<1> QED
  BY <1>1, <1>2 DEF First

\* A slice is a beginning of the rows, whatever the sign of its limit, and leaves some
\* out if there are more than the limit.
LEMMA SliceRows ==
  ASSUME NEW S, NEW rows \in Seq(S), NEW limit \in Int
  PROVE  /\ Slice(rows, limit) \in Seq(S)
         /\ Len(Slice(rows, limit)) <= Len(rows)
         /\ \A i \in 1..Len(Slice(rows, limit)) : Slice(rows, limit)[i] = rows[i]
         /\ Len(rows) # 0 => (Len(Slice(rows, limit)) < Len(rows) <=> Len(rows) > limit)
<1>1. CASE limit >= 0
  <2>1. limit \in Nat /\ Slice(rows, limit) = First(rows, limit)
    BY <1>1 DEF Slice
  <2>2. /\ AtMost(Len(rows), limit) <= Len(rows)
        /\ AtMost(Len(rows), limit) < Len(rows) <=> Len(rows) > limit
    BY <2>1 DEF AtMost
  <2>3. /\ Slice(rows, limit) \in Seq(S) /\ Len(Slice(rows, limit)) = AtMost(Len(rows), limit)
        /\ \A i \in 1..Len(Slice(rows, limit)) : Slice(rows, limit)[i] = rows[i]
    BY <2>1, FirstRows
  <2> QED
    BY <2>2, <2>3
<1>2. CASE limit < 0
  <2> DEFINE m == Len(rows) + limit
  <2>1. m \in Int /\ m < Len(rows) /\ Len(rows) \in Nat /\ Len(rows) > limit
    BY <1>2
  <2>2. Slice(rows, limit) = SubSeq(rows, 1, m)
    BY <1>2 DEF Slice
  <2> HIDE DEF m
  <2>3. CASE m >= 1
    <3>1. /\ SubSeq(rows, 1, m) \in Seq(S) /\ Len(SubSeq(rows, 1, m)) = m
          /\ \A i \in 1..m : SubSeq(rows, 1, m)[i] = rows[i]
      BY <2>1, <2>3
    <3> QED
      BY <2>1, <2>2, <3>1
  <2>4. CASE m < 1
    <3>1. SubSeq(rows, 1, m) = <<>>
      BY <2>1, <2>4
    <3> QED
      BY <2>1, <2>2, <3>1
  <2> QED
    BY <2>1, <2>3, <2>4
<1> QED
  BY <1>1, <1>2

\* The cap of run_view is at least one row and at most max_rows.
LEMMA CapBounds ==
  ASSUME NEW limit \in Nat \cup {Nothing}
  PROVE  EffectiveCap(limit) \in 1..MaxRows
BY RowsAssumption DEF EffectiveCap, AtMost

-----------------------------------------------------------------------------
(* Results *)

\* The fields of a result, and the rows of given columns.
Fields == {"view", "source", "columns", "rows", "count", "truncated", "whole"}
RowsOf(columns) == Seq([columns -> Cell])

\* A result that does not say it is cut has all rows of its view that its filters
\* keep, in some order.  whole is those rows, so a refinement of such a result
\* keeps all of them that pass.
Sound(r) ==
  /\ DOMAIN r = Fields
  /\ r.rows \in RowsOf(r.columns)
  /\ r.whole \in RowsOf(r.columns)
  /\ Len(r.rows) <= MaxRows
  /\ r.count \in Len(r.rows)..MaxRows
  /\ r.truncated \in BOOLEAN
  /\ r.source = "view" /\ ~r.truncated => Rearranged(r.rows, r.whole)

\* The row beyond the cap tells whether there is one.
LEMMA ExecuteView ==
  ASSUME NEW view, NEW columns, NEW found \in RowsOf(columns), NEW cap \in 1..MaxRows
  PROVE  LET r == Execute(First(found, cap + 1), cap, view, "view", columns, found)
         IN /\ Sound(r)
            /\ r.view = view /\ r.source = "view" /\ r.columns = columns /\ r.whole = found
            /\ Len(r.rows) = AtMost(Len(found), cap)
            /\ \A i \in 1..Len(r.rows) : r.rows[i] = found[i]
            /\ r.truncated <=> Len(found) > cap
<1> DEFINE r == Execute(First(found, cap + 1), cap, view, "view", columns, found)
           S == [columns -> Cell]
           one == First(found, cap + 1)
           rows == First(one, cap)
<1>1. cap \in Nat /\ cap + 1 \in Nat /\ found \in Seq(S) /\ Len(found) \in Nat /\ MaxRows \in Nat
  BY RowsAssumption DEF RowsOf
<1> HIDE DEF S
<1>2. /\ one \in Seq(S) /\ Len(one) = AtMost(Len(found), cap + 1)
      /\ \A i \in 1..Len(one) : one[i] = found[i]
  BY <1>1, FirstRows
<1>3. /\ rows \in Seq(S) /\ Len(rows) = AtMost(Len(one), cap)
      /\ \A i \in 1..Len(rows) : rows[i] = one[i]
  <2> HIDE DEF one
  <2> QED
    BY <1>1, <1>2, FirstRows
<1>4. First(one, cap + 1) = one
  <2>1. Len(one) <= cap + 1
    BY <1>1, <1>2 DEF AtMost
  <2> HIDE DEF one
  <2> QED
    BY <1>1, <1>2, <2>1, FirstAll
<1>5. /\ r = [view |-> view, source |-> "view", columns |-> columns, rows |-> rows,
              count |-> Len(rows), truncated |-> Len(one) > cap, whole |-> found]
  BY <1>4 DEF Execute
<1> HIDE DEF one, rows
<1>6. Len(rows) = AtMost(Len(found), cap) /\ Len(rows) \in 0..MaxRows
  BY <1>1, <1>2, <1>3 DEF AtMost
<1>7. \A i \in 1..Len(rows) : rows[i] = found[i]
  <2>1. Len(rows) <= Len(one)
    BY <1>1, <1>2, <1>3 DEF AtMost
  <2>2. \A i \in 1..Len(rows) : i \in 1..Len(one)
    BY <1>1, <1>2, <1>6, <2>1
  <2> QED
    BY <1>2, <1>3, <2>2
<1>8. Len(one) > cap <=> Len(found) > cap
  BY <1>1, <1>2 DEF AtMost
<1>9. ASSUME ~(Len(one) > cap) PROVE Rearranged(rows, found)
  <2>1. Len(found) <= cap /\ Len(rows) = Len(found)
    BY <1>1, <1>6, <1>8, <1>9 DEF AtMost
  <2>2. rows = found
    BY <1>1, <1>3, <1>7, <2>1, SeqEqual
  <2> QED
    BY <2>2, RearrangedSame
<1>10. DOMAIN r = Fields
  BY <1>5 DEF Fields
<1>11. /\ r.view = view /\ r.source = "view" /\ r.columns = columns /\ r.rows = rows
       /\ r.count = Len(rows) /\ r.whole = found
       /\ r.truncated \in BOOLEAN /\ (r.truncated <=> Len(one) > cap)
  <2> DEFINE cut == Len(one) > cap
  <2>1. cut \in BOOLEAN
    OBVIOUS
  <2>2. r = [view |-> view, source |-> "view", columns |-> columns, rows |-> rows,
             count |-> Len(rows), truncated |-> cut, whole |-> found]
    BY <1>5
  <2> HIDE DEF cut, r
  <2>3. r.truncated = cut
    BY <2>2
  <2>4. r.truncated \in BOOLEAN /\ (r.truncated <=> cut)
    BY ONLY <2>1, <2>3, Zenon
  <2> QED
    BY <2>2, <2>4 DEF cut
<1> HIDE DEF r
<1>12. Sound(r)
  <2>1. r.rows \in RowsOf(r.columns) /\ r.whole \in RowsOf(r.columns)
    BY <1>3, <1>11 DEF RowsOf, S
  <2>2. Len(r.rows) <= MaxRows /\ r.count \in Len(r.rows)..MaxRows
    BY <1>1, <1>6, <1>11
  <2>3. r.truncated \in BOOLEAN /\ (~r.truncated => Rearranged(r.rows, r.whole))
    BY <1>9, <1>11
  <2> QED
    BY <1>10, <2>1, <2>2, <2>3 DEF Sound
<1>13. Len(r.rows) = AtMost(Len(found), cap) /\ (r.truncated <=> Len(found) > cap)
  BY <1>6, <1>8, <1>11
<1>14. \A i \in 1..Len(r.rows) : r.rows[i] = found[i]
  BY <1>7, <1>11
<1> QED
  BY <1>11, <1>12, <1>13, <1>14 DEF r

\* What a filter matches is rows of the object with its value, and all of them.
LEMMA MatchingRows ==
  ASSUME NEW object, object.rows \in RowsOf(object.columns), NEW filter
  PROVE  /\ Matching(object, filter) \in RowsOf(object.columns)
         /\ filter # NoFilter =>
              \A i \in 1..Len(Matching(object, filter)) :
                Matching(object, filter)[i][filter.column] = filter.value
         /\ filter.column \in object.columns =>
              \A i \in 1..Len(object.rows) :
                object.rows[i][filter.column] = filter.value => Matching(object, filter) # <<>>
<1> DEFINE S == [object.columns -> Cell]
           found == Matching(object, filter)
           good == {r \in ToSet(object.rows) : r[filter.column] = filter.value}
<1>1. object.rows \in Seq(S)
  BY DEF RowsOf
<1> HIDE DEF S
<1>2. CASE filter = NoFilter
  <2>1. found = object.rows
    BY <1>2 DEF Matching
  <2>2. \A i \in 1..Len(object.rows) : object.rows # <<>>
    BY <1>1
  <2> QED
    BY <1>1, <1>2, <2>1, <2>2 DEF RowsOf, S
<1>3. CASE filter # NoFilter /\ filter.column \notin object.columns
  <2>1. found = <<>>
    BY <1>3 DEF Matching
  <2> HIDE DEF found
  <2>2. found \in Seq(S) /\ Len(found) = 0
    BY <2>1
  <2>3. \A i \in 1..Len(found) : FALSE
    BY <2>2
  <2> QED
    BY <1>3, <2>2, <2>3 DEF RowsOf, S, found
<1>4. CASE filter # NoFilter /\ filter.column \in object.columns
  <2>1. found = Where(object.rows, good)
    BY <1>4 DEF Matching
  <2> HIDE DEF found
  <2>2. found \in Seq(S) /\ ToSet(found) = ToSet(object.rows) \cap good
    <3> HIDE DEF good
    <3> QED
      BY <1>1, <2>1, WhereTakes, WhereGood
  <2>3. DOMAIN found = 1..Len(found) /\ DOMAIN object.rows = 1..Len(object.rows)
    BY <1>1, <2>2
  <2>4. ASSUME NEW i \in 1..Len(found) PROVE found[i][filter.column] = filter.value
    <3>1. found[i] \in ToSet(found)
      BY <2>3 DEF ToSet
    <3> QED
      BY <2>2, <3>1
  <2>5. ASSUME NEW i \in 1..Len(object.rows), object.rows[i][filter.column] = filter.value
        PROVE  found # <<>>
    <3>1. object.rows[i] \in ToSet(found)
      BY <2>2, <2>3, <2>5 DEF ToSet
    <3>2. ToSet(<<>>) = {}
      BY DEF ToSet
    <3> QED
      BY <3>1, <3>2
  <2> QED
    BY <2>2, <2>4, <2>5 DEF RowsOf, S, found
<1> QED
  BY <1>2, <1>3, <1>4

\* What run_view gives: the first rows that match, and some if any do.
LEMMA RunViewRows ==
  ASSUME NEW view, NEW object, object.rows \in RowsOf(object.columns), NEW filter,
         NEW limit \in Nat \cup {Nothing}
  PROVE  LET r == RunView(view, object, filter, limit)
         IN /\ Sound(r)
            /\ r.view = view /\ r.source = "view" /\ r.columns = object.columns
            /\ r.whole = Matching(object, filter)
            /\ \A i \in 1..Len(r.rows) : r.rows[i] = Matching(object, filter)[i]
            /\ Len(r.rows) <= Len(Matching(object, filter))
            /\ Matching(object, filter) # <<>> => r.rows # <<>>
<1> DEFINE found == Matching(object, filter)
           cap == EffectiveCap(limit)
           r == Execute(First(found, cap + 1), cap, view, "view", object.columns, found)
<1>1. found \in RowsOf(object.columns) /\ cap \in 1..MaxRows
  BY MatchingRows, CapBounds
<1>2. RunView(view, object, filter, limit) = r
  BY DEF RunView
<1> HIDE DEF found, cap
<1>3. /\ Sound(r)
      /\ r.view = view /\ r.source = "view" /\ r.columns = object.columns /\ r.whole = found
      /\ Len(r.rows) = AtMost(Len(found), cap)
      /\ \A i \in 1..Len(r.rows) : r.rows[i] = found[i]
  BY <1>1, ExecuteView
<1> HIDE DEF r
<1>4. Len(found) \in Nat /\ cap \in Int /\ cap >= 1 /\ (found # <<>> => Len(found) > 0)
  BY <1>1, RowsAssumption DEF RowsOf
<1>5. Len(r.rows) <= Len(found) /\ (found # <<>> => Len(r.rows) > 0)
  BY <1>3, <1>4 DEF AtMost
<1>6. found # <<>> => r.rows # <<>>
  BY <1>5
<1> QED
  BY <1>2, <1>3, <1>5, <1>6 DEF found

\* A statement that carries its LIMIT gives rows of its object, up to max_rows.
LEMMA RunSqlRows ==
  ASSUME NEW view, NEW object, object.rows \in RowsOf(object.columns), NEW limit \in Nat
  PROVE  Sound(RunSql(view, object, limit))
<1> DEFINE S == [object.columns -> Cell]
           yielded == First(object.rows, limit)
           rows == First(yielded, MaxRows)
           cut == Len(First(yielded, MaxRows + 1)) > MaxRows
           r == RunSql(view, object, limit)
<1>1. object.rows \in Seq(S) /\ MaxRows \in Nat
  BY RowsAssumption DEF RowsOf
<1> HIDE DEF S
<1>2. yielded \in Seq(S)
  BY <1>1, FirstRows
<1>3. r = [view |-> view, source |-> "generated_sql", columns |-> object.columns, rows |-> rows,
           count |-> Len(rows), truncated |-> cut, whole |-> object.rows]
  BY DEF RunSql, Execute
<1>4. cut \in BOOLEAN
  OBVIOUS
<1> HIDE DEF yielded, cut, r
<1>5. rows \in Seq(S) /\ Len(rows) = AtMost(Len(yielded), MaxRows)
  BY <1>1, <1>2, FirstRows
<1> HIDE DEF rows
<1>6. Len(rows) \in 0..MaxRows
  BY <1>1, <1>2, <1>5 DEF AtMost
<1>7. /\ DOMAIN r = Fields
      /\ r.source # "view" /\ r.columns = object.columns /\ r.rows = rows
      /\ r.count = Len(rows) /\ r.truncated = cut /\ r.whole = object.rows
  BY <1>3 DEF Fields
<1>8. r.truncated \in BOOLEAN
  BY ONLY <1>4, <1>7, Zenon
<1>9. r.rows \in RowsOf(r.columns) /\ r.whole \in RowsOf(r.columns)
  BY <1>1, <1>5, <1>7 DEF RowsOf, S
<1>10. Len(r.rows) <= MaxRows /\ r.count \in Len(r.rows)..MaxRows
  BY <1>1, <1>6, <1>7
<1> QED
  BY <1>7, <1>8, <1>9, <1>10 DEF Sound, r

-----------------------------------------------------------------------------
(* Refinements *)

\* The rows that pass every filter are rows of the result, no more than it has.
LEMMA KeptRows ==
  ASSUME NEW columns, NEW rows \in RowsOf(columns), NEW filters
  PROVE  /\ Kept(rows, filters) \in RowsOf(columns)
         /\ Len(Kept(rows, filters)) <= Len(rows)
<1> DEFINE S == [columns -> Cell]
           good == {r \in ToSet(rows) : \A f \in filters : Passes(r[f.column], f.op, f.value)}
<1>1. rows \in Seq(S) /\ Kept(rows, filters) = Where(rows, good)
  BY DEF RowsOf, Kept
<1> HIDE DEF S, good
<1> QED
  BY <1>1, WhereTakes DEF RowsOf, S

\* Filters keep the same rows whatever order they are in.
LEMMA KeptRearranged ==
  ASSUME NEW columns, NEW a \in RowsOf(columns), NEW b \in RowsOf(columns), NEW filters,
         Rearranged(a, b)
  PROVE  Rearranged(Kept(a, filters), Kept(b, filters))
<1> DEFINE S == [columns -> Cell]
           good(R) == {r \in R : \A f \in filters : Passes(r[f.column], f.op, f.value)}
<1>1. a \in Seq(S) /\ b \in Seq(S)
  BY DEF RowsOf
<1>2. Kept(a, filters) = Where(a, good(ToSet(a))) /\ Kept(b, filters) = Where(b, good(ToSet(b)))
  BY DEF Kept
<1> HIDE DEF S
<1>3. ToSet(a) = ToSet(b)
  BY <1>1, RearrangedRows
<1>4. Rearranged(Where(a, good(ToSet(a))), Where(b, good(ToSet(a))))
  <2> DEFINE g == good(ToSet(a))
  <2> HIDE DEF g
  <2>1. Rearranged(Where(a, g), Where(b, g))
    BY <1>1, RearrangedWhere
  <2> QED
    BY <2>1 DEF g
<1> QED
  BY <1>2, <1>3, <1>4

\* Row a has a value of the column of spec's order and goes before row b by it.
Beats(spec, a, b) ==
  /\ a[spec.sort] # Null
  /\ \/ b[spec.sort] = Null
     \/ IF spec.descending THEN a[spec.sort] > b[spec.sort] ELSE a[spec.sort] < b[spec.sort]

\* A row that precedes another is not beaten by it.
LEMMA PrecedesIsUnbeaten ==
  ASSUME NEW rows, NEW spec, NEW i, NEW j,
         rows[i][spec.sort] \in Cell, rows[j][spec.sort] \in Cell,
         Precedes(rows, spec.sort, spec.descending, i, j)
  PROVE  ~Beats(spec, rows[j], rows[i])
<1> DEFINE a == rows[i][spec.sort]
           b == rows[j][spec.sort]
           desc == spec.descending
<1>1. (a \in Int \/ a = Null) /\ (b \in Int \/ b = Null) /\ Null \notin Int
  BY RowsAssumption DEF Cell
<1>2. IF a = b THEN i < j
      ELSE IF Null \in {a, b} THEN b = Null
      ELSE IF desc THEN a > b ELSE a < b
  BY DEF Precedes
<1> HIDE DEF a, b, desc
<1>3. ~(b # Null /\ (a = Null \/ IF desc THEN b > a ELSE b < a))
  <2>1. CASE a \in Int /\ b \in Int
    <3>1. CASE desc
      BY <1>1, <1>2, <2>1, <3>1
    <3>2. CASE ~desc
      BY <1>1, <1>2, <2>1, <3>2
    <3> QED
      BY <3>1, <3>2
  <2>2. CASE a = Null \/ b = Null
    BY <1>1, <1>2, <2>2
  <2> QED
    BY <1>1, <2>1, <2>2
<1> QED
  BY <1>3 DEF Beats, a, b, desc

\* The rows in the order asked for: none beats one before it.
LEMMA SortedForRows ==
  ASSUME NEW columns, NEW rows \in RowsOf(columns), NEW spec,
         spec.sort # Nothing => spec.sort \in columns
  PROVE  LET sorted == SortedFor(rows, spec)
         IN /\ sorted \in RowsOf(columns) /\ Len(sorted) = Len(rows) /\ Rearranged(sorted, rows)
            /\ spec.sort # Nothing =>
                 \A i, j \in 1..Len(sorted) : i < j => ~Beats(spec, sorted[j], sorted[i])
<1> DEFINE S == [columns -> Cell]
           sorted == Sorted(rows, spec.sort, spec.descending)
<1>1. rows \in Seq(S)
  BY DEF RowsOf
<1>2. CASE spec.sort = Nothing
  BY <1>2, RearrangedSame DEF SortedFor
<1>3. CASE spec.sort # Nothing
  <2>1. \A r \in S : r[spec.sort] \in Cell
    BY <1>3
  <2>2. SortedFor(rows, spec) = sorted
    BY <1>3 DEF SortedFor
  <2> HIDE DEF S
  <2>3. /\ sorted \in Seq(S) /\ Len(sorted) = Len(rows)
        /\ \E p : /\ Matches(p, sorted, rows)
                  /\ \A i, j \in 1..Len(rows) :
                       i < j => Precedes(rows, spec.sort, spec.descending, p[i], p[j])
    BY <1>1, <2>1, SortedOrder
  <2> HIDE DEF sorted
  <2>4. PICK p : /\ Matches(p, sorted, rows)
                 /\ \A i, j \in 1..Len(rows) :
                      i < j => Precedes(rows, spec.sort, spec.descending, p[i], p[j])
    BY <2>3
  <2>5. ASSUME NEW i \in 1..Len(sorted), NEW j \in 1..Len(sorted), i < j
        PROVE  ~Beats(spec, sorted[j], sorted[i])
    <3>1. p[i] \in 1..Len(rows) /\ p[j] \in 1..Len(rows)
      BY <2>4 DEF Matches
    <3>2. sorted[i] = rows[p[i]] /\ sorted[j] = rows[p[j]]
      BY <2>4 DEF Matches
    <3>3. rows[p[i]][spec.sort] \in Cell /\ rows[p[j]][spec.sort] \in Cell
      BY <1>1, <2>1, <3>1
    <3>4. Precedes(rows, spec.sort, spec.descending, p[i], p[j])
      BY <2>3, <2>4, <2>5
    <3> QED
      BY <3>2, <3>3, <3>4, PrecedesIsUnbeaten
  <2>6. Rearranged(sorted, rows)
    BY <2>4 DEF Rearranged, Matches
  <2> QED
    BY <2>2, <2>3, <2>5, <2>6 DEF RowsOf, S
<1> QED
  BY <1>2, <1>3

\* What apply_refinement gives: as many of the kept rows as the limit allows, in
\* the order asked for, none of them beaten by one that is left out.
LEMMA RefineRows ==
  ASSUME NEW result, Sound(result), NEW spec, ~UnknownColumn(result, spec),
         spec.limit \in Int \cup {Nothing}
  PROVE  LET r == Refine(result, spec)
             kept == Kept(result.rows, spec.filters)
         IN /\ Sound(r)
            /\ r.view = result.view /\ r.source = result.source /\ r.columns = result.columns
            /\ ToSet(r.rows) \subseteq ToSet(kept)
            /\ r.count = Len(kept)
            /\ Len(r.rows) < Len(kept) => r.truncated
            /\ spec.sort # Nothing =>
                 /\ \A a \in ToSet(kept) \ ToSet(r.rows), b \in ToSet(r.rows) : ~Beats(spec, a, b)
                 /\ \A i, j \in DOMAIN r.rows : i < j => ~Beats(spec, r.rows[j], r.rows[i])
<1> DEFINE S == [result.columns -> Cell]
           kept == Kept(result.rows, spec.filters)
           whole == Kept(result.whole, spec.filters)
           sorted == SortedFor(kept, spec)
           cut == spec.limit # Nothing /\ Len(sorted) > spec.limit
           shown == IF cut THEN Slice(sorted, spec.limit) ELSE sorted
           truncated == result.truncated \/ cut
           r == Refine(result, spec)
<1>1. /\ DOMAIN result = Fields
      /\ result.rows \in RowsOf(result.columns) /\ result.whole \in RowsOf(result.columns)
      /\ Len(result.rows) <= MaxRows /\ result.truncated \in BOOLEAN
      /\ result.source = "view" /\ ~result.truncated => Rearranged(result.rows, result.whole)
  BY DEF Sound
<1>2. MaxRows \in Nat /\ Nothing \notin Int
  BY RowsAssumption
<1>3. r = [result EXCEPT !.rows = shown, !.count = Len(sorted), !.truncated = truncated,
                         !.whole = whole]
  BY DEF Refine
<1>4. spec.sort # Nothing => spec.sort \in result.columns
  BY DEF UnknownColumn
<1>5. kept \in RowsOf(result.columns) /\ Len(kept) <= Len(result.rows)
  BY <1>1, KeptRows
<1>6. whole \in RowsOf(result.columns)
  BY <1>1, KeptRows
<1> HIDE DEF kept, whole
<1>7. /\ sorted \in RowsOf(result.columns) /\ Len(sorted) = Len(kept) /\ Rearranged(sorted, kept)
      /\ spec.sort # Nothing =>
           \A i, j \in 1..Len(sorted) : i < j => ~Beats(spec, sorted[j], sorted[i])
  BY <1>4, <1>5, SortedForRows
<1> HIDE DEF sorted
<1>8. sorted \in Seq(S) /\ kept \in Seq(S) /\ Len(sorted) \in Nat
  BY <1>5, <1>7 DEF RowsOf
<1> HIDE DEF S
<1>9. /\ shown \in Seq(S) /\ Len(shown) <= Len(sorted) /\ Len(shown) \in Nat
      /\ \A i \in 1..Len(shown) : shown[i] = sorted[i]
      /\ ~cut => shown = sorted
  <2>1. CASE cut
    <3>1. spec.limit \in Int /\ shown = Slice(sorted, spec.limit)
      BY <2>1
    <3>2. Slice(sorted, spec.limit) \in Seq(S) /\ Len(Slice(sorted, spec.limit)) <= Len(sorted)
      BY <1>8, <3>1, SliceRows
    <3> QED
      BY <1>8, <2>1, <3>1, <3>2, SliceRows
  <2>2. CASE ~cut
    BY <1>8, <2>2
  <2> QED
    BY <2>1, <2>2
<1>10. cut \in BOOLEAN
  OBVIOUS
<1> HIDE DEF shown, cut
<1>11. truncated \in BOOLEAN /\ (truncated <=> result.truncated \/ cut)
  BY <1>1, <1>10
<1> HIDE DEF truncated
<1>12. /\ DOMAIN r = Fields
       /\ r.view = result.view /\ r.source = result.source /\ r.columns = result.columns
       /\ r.rows = shown /\ r.count = Len(kept) /\ r.truncated = truncated /\ r.whole = whole
  BY <1>1, <1>3, <1>7 DEF Fields
<1> HIDE DEF r
<1>13. r.truncated \in BOOLEAN /\ (r.truncated <=> result.truncated \/ cut)
  BY ONLY <1>11, <1>12, Zenon
<1>14. Sound(r)
  <2>1. r.rows \in RowsOf(r.columns) /\ r.whole \in RowsOf(r.columns)
    BY <1>6, <1>9, <1>12 DEF RowsOf, S
  <2>2. Len(r.rows) <= MaxRows /\ r.count \in Len(r.rows)..MaxRows
    <3>1. Len(result.rows) \in Nat
      BY <1>1 DEF RowsOf
    <3> QED
      BY <1>1, <1>2, <1>5, <1>7, <1>8, <1>9, <1>12, <3>1
  <2>3. ASSUME r.source = "view", ~r.truncated PROVE Rearranged(r.rows, r.whole)
    <3>1. ~cut /\ ~result.truncated /\ result.source = "view"
      BY <1>12, <1>13, <2>3
    <3>2. Rearranged(kept, whole)
      BY <1>1, <3>1, KeptRearranged DEF kept, whole
    <3>3. Rearranged(sorted, whole)
      BY <1>7, <3>2, RearrangedTwice
    <3> QED
      BY <1>9, <1>12, <3>1, <3>3
  <2> QED
    BY <1>12, <1>13, <2>1, <2>2, <2>3 DEF Sound
<1>15. DOMAIN shown = 1..Len(shown) /\ DOMAIN sorted = 1..Len(sorted) /\ ToSet(sorted) = ToSet(kept)
  <2>1. ToSet(sorted) = ToSet(kept)
    BY <1>7, <1>8, RearrangedRows
  <2> QED
    BY <1>8, <1>9, <2>1
<1>16. ToSet(shown) \subseteq ToSet(kept)
  <2> SUFFICES ASSUME NEW i \in 1..Len(shown) PROVE shown[i] \in ToSet(sorted)
    BY <1>15 DEF ToSet
  <2>1. i \in 1..Len(sorted) /\ shown[i] = sorted[i]
    BY <1>8, <1>9
  <2> QED
    BY <1>15, <2>1 DEF ToSet
<1>17. Len(shown) < Len(kept) => r.truncated
  BY <1>7, <1>8, <1>9, <1>13
<1>18. ASSUME spec.sort # Nothing, NEW a \in ToSet(kept) \ ToSet(shown), NEW b \in ToSet(shown)
       PROVE  ~Beats(spec, a, b)
  <2>1. PICK i \in 1..Len(shown) : b = shown[i]
    BY <1>15 DEF ToSet
  <2>2. PICK j \in 1..Len(sorted) : a = sorted[j]
    BY <1>15, <1>18 DEF ToSet
  <2>3. j \notin 1..Len(shown)
    BY <1>9, <1>15, <1>18, <2>2 DEF ToSet
  <2>4. i \in 1..Len(sorted) /\ i < j /\ b = sorted[i]
    BY <1>8, <1>9, <2>1, <2>2, <2>3
  <2> QED
    BY <1>7, <1>18, <2>2, <2>4
<1>19. ASSUME spec.sort # Nothing, NEW i \in DOMAIN shown, NEW j \in DOMAIN shown, i < j
       PROVE  ~Beats(spec, shown[j], shown[i])
  <2>1. /\ i \in 1..Len(sorted) /\ j \in 1..Len(sorted)
        /\ shown[i] = sorted[i] /\ shown[j] = sorted[j]
    BY <1>8, <1>9, <1>15
  <2> QED
    BY <1>7, <1>19, <2>1
<1> QED
  BY <1>12, <1>14, <1>16, <1>17, <1>18, <1>19 DEF r, kept

-----------------------------------------------------------------------------
(* Sums *)

\* h adds up the numbers of v at the places in s, one place after the other.
Adds(h, v, n, s) ==
  h[0] = 0 /\ \A m \in 1..n : h[m] = h[m - 1] + (IF m \in s THEN v[m] ELSE 0)

\* The sum of v over the places in s.
SumOver(v, n, s) == (CHOOSE h \in [0..n -> Int] : Adds(h, v, n, s))[n]

\* The sum has its steps.
LEMMA SumRuns ==
  ASSUME NEW n \in Nat, NEW v \in [1..n -> Int], NEW s
  PROVE  \E h \in [0..n -> Int] : Adds(h, v, n, s) /\ SumOver(v, n, s) = h[n]
<1> DEFINE add(m, x) == x + (IF m \in s THEN v[m] ELSE 0)
           step == [m \in 1..n |-> [x \in Int |-> add(m, x)]]
<1>1. \A m \in 1..n, x \in Int : add(m, x) \in Int
  OBVIOUS
<1>2. \A m, x : add(m, x) = x + (IF m \in s THEN v[m] ELSE 0)
  OBVIOUS
<1> HIDE DEF add
<1>3. step \in [1..n -> [Int -> Int]] /\ \A m \in 1..n, x \in Int : step[m][x] = add(m, x)
  BY <1>1
<1> HIDE DEF step
<1>4. \E h \in [0..n -> Int] : Iterates(h, n, 0, step)
  <2> DEFINE base == 0
             X == Int
  <2>1. n \in Nat /\ base \in X /\ step \in [1..n -> [X -> X]]
    BY <1>3
  <2> HIDE DEF base, X
  <2>2. \E h \in [0..n -> X] : Iterates(h, n, base, step)
    BY ONLY <2>1, Recursion
  <2> QED
    BY <2>2 DEF base, X
<1>5. ASSUME NEW h \in [0..n -> Int], Iterates(h, n, 0, step)
      PROVE  Adds(h, v, n, s)
  <2>1. h[0] = 0 /\ \A m \in 1..n : h[m] = step[m][h[m - 1]]
    BY <1>5 DEF Iterates
  <2>2. ASSUME NEW m \in 1..n
        PROVE  h[m] = h[m - 1] + (IF m \in s THEN v[m] ELSE 0)
    <3>1. m - 1 \in 0..n /\ h[m - 1] \in Int
      OBVIOUS
    <3>2. step[m][h[m - 1]] = add(m, h[m - 1])
      BY <1>3, <3>1
    <3> QED
      BY <1>2, <2>1, <3>2
  <2> QED
    BY <2>1, <2>2 DEF Adds
<1>6. \E h \in [0..n -> Int] : Adds(h, v, n, s)
  BY <1>4, <1>5
<1> QED
  BY <1>6 DEF SumOver

\* Nothing adds up to nothing.
LEMMA SumOverNone ==
  ASSUME NEW n \in Nat, NEW v \in [1..n -> Int]
  PROVE  SumOver(v, n, {}) = 0
<1>1. PICK h \in [0..n -> Int] : Adds(h, v, n, {}) /\ SumOver(v, n, {}) = h[n]
  BY SumRuns
<1> DEFINE T == {m \in 0..n : h[m] = 0}
<1>2. 0 \in T
  BY <1>1 DEF Adds
<1>3. \A m \in 1..n : m - 1 \in T => m \in T
  BY <1>1 DEF Adds
<1> HIDE DEF T
<1>4. \A m \in 0..n : m \in T
  BY <1>2, <1>3, UpTo
<1> QED
  BY <1>1, <1>4 DEF T

\* The sum over s is that over the other places, and x.
AddsLast(v, n, s, x) ==
  SumOver(v, n, s) \in Int /\ SumOver(v, n, s) = v[x] + SumOver(v, n, s \ {x})

\* Any place may be added last.
LEMMA SumOverOne ==
  ASSUME NEW n \in Nat, NEW v \in [1..n -> Int], NEW s, NEW x \in 1..n, x \in s
  PROVE  AddsLast(v, n, s, x)
<1>1. PICK h \in [0..n -> Int] : Adds(h, v, n, s) /\ SumOver(v, n, s) = h[n]
  BY SumRuns
<1>2. PICK g \in [0..n -> Int] : Adds(g, v, n, s \ {x}) /\ SumOver(v, n, s \ {x}) = g[n]
  BY SumRuns
<1> DEFINE T == {m \in 0..n : h[m] = g[m] + (IF x <= m THEN v[x] ELSE 0)}
<1>3. 0 \in T
  BY <1>1, <1>2 DEF Adds
<1>4. ASSUME NEW m \in 1..n, m - 1 \in T
      PROVE  m \in T
  <2>1. /\ m - 1 \in 0..n /\ h[m - 1] \in Int /\ g[m - 1] \in Int /\ v[x] \in Int /\ v[m] \in Int
        /\ h[m - 1] = g[m - 1] + (IF x <= m - 1 THEN v[x] ELSE 0)
    BY <1>4
  <2>2. /\ h[m] = h[m - 1] + (IF m \in s THEN v[m] ELSE 0)
        /\ g[m] = g[m - 1] + (IF m \in s \ {x} THEN v[m] ELSE 0)
    BY <1>1, <1>2 DEF Adds
  <2>3. CASE m = x
    BY <2>1, <2>2, <2>3
  <2>4. CASE m # x
    <3>1. m \in s <=> m \in s \ {x}
      BY <2>4
    <3>2. x <= m - 1 <=> x <= m
      BY <2>4
    <3> DEFINE d == IF m \in s THEN v[m] ELSE 0
               e == IF x <= m THEN v[x] ELSE 0
    <3>3. /\ d \in Int /\ e \in Int
          /\ h[m] = h[m - 1] + d /\ g[m] = g[m - 1] + d /\ h[m - 1] = g[m - 1] + e
      BY <2>1, <2>2, <3>1, <3>2
    <3> HIDE DEF d, e
    <3>4. h[m] = g[m] + e
      BY <2>1, <3>3
    <3>5. h[m] = g[m] + (IF x <= m THEN v[x] ELSE 0)
      BY <3>4 DEF e
    <3> QED
      BY <3>5 DEF T
  <2> QED
    BY <2>3, <2>4
<1>5. \A m \in 1..n : m - 1 \in T => m \in T
  BY <1>4
<1> HIDE DEF T
<1>6. \A m \in 0..n : m \in T
  BY <1>3, <1>5, UpTo
<1>7. h[n] = g[n] + v[x] /\ h[n] \in Int /\ g[n] \in Int /\ v[x] \in Int
  BY <1>6 DEF T
<1> QED
  BY <1>1, <1>2, <1>7 DEF AddsLast
=============================================================================
