----------------------- MODULE SmartOrderRouter_proofs -----------------------
(***************************************************************************)
(* Proofs about the smart order router, for every value of the constants.  *)
(*                                                                         *)
(* The router (TopazRouter): route enumeration finds every way from one    *)
(* token to the other within its cap and none twice; the legs of a trade   *)
(* add up to the amount and share no pool; a split is never worth less     *)
(* than the best route for the whole amount, nor, where no routes          *)
(* conflict, than any pair of routes.                                      *)
(*                                                                         *)
(* What it reads from the chain (Multicall, TokenCache): every call of a   *)
(* multicall is answered as if it had been made by itself, and the token   *)
(* provider never gives a token the decimals of another.                   *)
(***************************************************************************)
EXTENDS TopazRouter, TokenCache, DataLemmas, FiniteSetTheorems

-----------------------------------------------------------------------------
(* Loops and lists of the router *)

\* How a Set is filled in a loop, turn by turn.
IsFilling(set, S, kept, candidates, limit) ==
  /\ set \in [0 .. Len(candidates) -> Seq(S)]
  /\ set[0] = kept
  /\ \A n \in 0 .. Len(candidates) - 1 :
       set[n + 1] = IF Len(set[n]) >= limit \/ candidates[n + 1] \in Range(set[n]) THEN set[n]
                    ELSE Append(set[n], candidates[n + 1])
  /\ AddUpTo(kept, candidates, limit) = set[Len(candidates)]

\* It is.
LEMMA AddLoop ==
  ASSUME NEW S, NEW kept \in Seq(S), NEW candidates \in Seq(S), NEW limit \in Int
  PROVE  \E set : IsFilling(set, S, kept, candidates, limit)
<1> DEFINE L == Len(candidates)
           T == Seq(S)
           start == kept
           Round(n, x) == IF Len(x) >= limit \/ candidates[n] \in Range(x) THEN x ELSE Append(x, candidates[n])
           set[n \in 0 .. L] == IF n = 0 THEN start ELSE Round(n, set[n - 1])
<1>1. L \in Nat /\ start \in T /\ \A n \in 1 .. L, x \in T : Round(n, x) \in T
  OBVIOUS
<1>2. AddUpTo(kept, candidates, limit) = set[L]
  BY DEF AddUpTo
<1>3. set = CHOOSE h : h = [n \in 0 .. L |-> IF n = 0 THEN start ELSE Round(n, h[n - 1])]
  BY Zenon
<1> HIDE DEF set, L, T, start, Round
<1>4. PICK step : step = [p \in (1 .. L) \X T |-> Round(p[1], p[2])]
  OBVIOUS
<1>5. PICK loop : IsLoop(loop, T, start, L, step)
  <2>1. step \in [(1 .. L) \X T -> T]
    <3>1. \A p \in (1 .. L) \X T : p[1] \in 1 .. L /\ p[2] \in T
      OBVIOUS
    <3>2. \A p \in (1 .. L) \X T : Round(p[1], p[2]) \in T
      BY ONLY <1>1, <3>1
    <3> QED BY ONLY <1>4, <3>2
  <2> QED BY ONLY <1>1, <2>1, LoopExists, Zenon
<1>6. /\ loop \in [0 .. L -> T] /\ loop[0] = start
      /\ \A n \in 1 .. L : loop[n] = Round(n, loop[n - 1])
  <2>1. ASSUME NEW n \in 1 .. L PROVE loop[n] = Round(n, loop[n - 1])
    <3>1. n - 1 \in 0 .. L
      BY <1>1
    <3> QED BY <1>4, <1>5, <3>1 DEF IsLoop
  <2> QED BY <1>5, <2>1 DEF IsLoop
<1>7. set = loop
  <2>1. \A n \in 0 .. L : loop[n] = IF n = 0 THEN start ELSE Round(n, loop[n - 1])
    BY <1>1, <1>6
  <2>2. loop = [n \in 0 .. L |-> IF n = 0 THEN start ELSE Round(n, loop[n - 1])]
    BY <1>6, <2>1
  <2>3. set = [n \in 0 .. L |-> IF n = 0 THEN start ELSE Round(n, set[n - 1])]
    BY <1>3, <2>2, Zenon
  <2> DEFINE K == {n \in 0 .. L : set[n] = loop[n]}
  <2>4. \A n \in 0 .. L : set[n] = IF n = 0 THEN start ELSE Round(n, set[n - 1])
    BY <2>3, Zenon
  <2>5. 0 \in K
    BY <1>1, <1>6, <2>4
  <2>6. \A n \in 0 .. L - 1 : n \in K => n + 1 \in K
    <3>1. SUFFICES ASSUME NEW n \in 0 .. L - 1, n \in K PROVE n + 1 \in K
      OBVIOUS
    <3>2. PICK m \in 1 .. L : m = n + 1 /\ m - 1 = n /\ m # 0 /\ m \in 0 .. L
      BY <1>1
    <3>3. set[m] = Round(m, set[m - 1]) /\ loop[m] = Round(m, loop[m - 1])
      BY ONLY <1>6, <2>4, <3>2, Zenon
    <3> QED BY <3>1, <3>2, <3>3
  <2> HIDE DEF K
  <2>7. \A n \in 0 .. L : n \in K
    BY ONLY <1>1, <2>5, <2>6, UpToLast
  <2>8. \A n \in 0 .. L : set[n] = loop[n]
    BY <2>7 DEF K
  <2> QED BY <1>6, <2>3, <2>8
<1>8. \A n \in 0 .. L - 1 : loop[n + 1] = Round(n + 1, loop[n])
  <2>1. TAKE n \in 0 .. L - 1
  <2>2. PICK m \in 1 .. L : m = n + 1 /\ m - 1 = n
    BY <1>1
  <2>3. loop[m] = Round(m, loop[m - 1])
    BY <1>6, Zenon
  <2> QED BY ONLY <2>2, <2>3
<1>9. AddUpTo(kept, candidates, limit) = loop[L]
  BY <1>2, <1>7
<1>10. IsFilling(loop, S, kept, candidates, limit)
  BY <1>6, <1>8, <1>9 DEF L, T, start, Round, IsFilling
<1> QED BY <1>10

\* The quotes are added up, leg by leg.
LEMMA QuoteOfLoop ==
  ASSUME NEW these, Len(these) \in Nat, \A n \in 1 .. Len(these) : these[n].quote \in Nat
  PROVE  \E loop \in [0 .. Len(these) -> Nat] :
           /\ loop[0] = 0
           /\ \A n \in 0 .. Len(these) - 1 : loop[n + 1] = loop[n] + these[n + 1].quote
           /\ QuoteOf(these) = loop[Len(these)]
<1> DEFINE L == Len(these)
           T == Nat
           start == 0
           Round(n, x) == x + these[n].quote
           sum[n \in 0 .. L] == IF n = 0 THEN start ELSE Round(n, sum[n - 1])
<1>1. L \in Nat /\ start \in T /\ \A n \in 1 .. L, x \in T : Round(n, x) \in T
  OBVIOUS
<1>2. QuoteOf(these) = sum[L]
  BY DEF QuoteOf
<1>3. sum = CHOOSE h : h = [n \in 0 .. L |-> IF n = 0 THEN start ELSE Round(n, h[n - 1])]
  BY Zenon
<1> HIDE DEF sum, L, T, start, Round
<1>4. PICK step : step = [p \in (1 .. L) \X T |-> Round(p[1], p[2])]
  OBVIOUS
<1>5. PICK loop : IsLoop(loop, T, start, L, step)
  <2>1. step \in [(1 .. L) \X T -> T]
    <3>1. \A p \in (1 .. L) \X T : p[1] \in 1 .. L /\ p[2] \in T
      OBVIOUS
    <3>2. \A p \in (1 .. L) \X T : Round(p[1], p[2]) \in T
      BY ONLY <1>1, <3>1
    <3> QED BY ONLY <1>4, <3>2
  <2> QED BY ONLY <1>1, <2>1, LoopExists, Zenon
<1>6. /\ loop \in [0 .. L -> T] /\ loop[0] = start
      /\ \A n \in 1 .. L : loop[n] = Round(n, loop[n - 1])
  <2>1. ASSUME NEW n \in 1 .. L PROVE loop[n] = Round(n, loop[n - 1])
    <3>1. n - 1 \in 0 .. L
      BY <1>1
    <3> QED BY <1>4, <1>5, <3>1 DEF IsLoop
  <2> QED BY <1>5, <2>1 DEF IsLoop
<1>7. sum = loop
  <2>1. \A n \in 0 .. L : loop[n] = IF n = 0 THEN start ELSE Round(n, loop[n - 1])
    BY <1>1, <1>6
  <2>2. loop = [n \in 0 .. L |-> IF n = 0 THEN start ELSE Round(n, loop[n - 1])]
    BY <1>6, <2>1
  <2>3. sum = [n \in 0 .. L |-> IF n = 0 THEN start ELSE Round(n, sum[n - 1])]
    BY <1>3, <2>2, Zenon
  <2> DEFINE K == {n \in 0 .. L : sum[n] = loop[n]}
  <2>4. \A n \in 0 .. L : sum[n] = IF n = 0 THEN start ELSE Round(n, sum[n - 1])
    BY <2>3, Zenon
  <2>5. 0 \in K
    BY <1>1, <1>6, <2>4
  <2>6. \A n \in 0 .. L - 1 : n \in K => n + 1 \in K
    <3>1. SUFFICES ASSUME NEW n \in 0 .. L - 1, n \in K PROVE n + 1 \in K
      OBVIOUS
    <3>2. PICK m \in 1 .. L : m = n + 1 /\ m - 1 = n /\ m # 0 /\ m \in 0 .. L
      BY <1>1
    <3>3. sum[m] = Round(m, sum[m - 1]) /\ loop[m] = Round(m, loop[m - 1])
      BY ONLY <1>6, <2>4, <3>2, Zenon
    <3> QED BY <3>1, <3>2, <3>3
  <2> HIDE DEF K
  <2>7. \A n \in 0 .. L : n \in K
    BY ONLY <1>1, <2>5, <2>6, UpToLast
  <2>8. \A n \in 0 .. L : sum[n] = loop[n]
    BY <2>7 DEF K
  <2> QED BY <1>6, <2>3, <2>8
<1>8. \A n \in 0 .. L - 1 : loop[n + 1] = Round(n + 1, loop[n])
  <2>1. TAKE n \in 0 .. L - 1
  <2>2. PICK m \in 1 .. L : m = n + 1 /\ m - 1 = n
    BY <1>1
  <2>3. loop[m] = Round(m, loop[m - 1])
    BY <1>6, Zenon
  <2> QED BY ONLY <2>2, <2>3
<1>9. QuoteOf(these) = loop[L]
  BY <1>2, <1>7
<1> QED BY <1>1, <1>6, <1>8, <1>9 DEF L, T, start, Round

\* The percents are added up, leg by leg.
LEMMA PercentOfLoop ==
  ASSUME NEW these, Len(these) \in Nat, \A n \in 1 .. Len(these) : these[n].percent \in Nat
  PROVE  \E loop \in [0 .. Len(these) -> Nat] :
           /\ loop[0] = 0
           /\ \A n \in 0 .. Len(these) - 1 : loop[n + 1] = loop[n] + these[n + 1].percent
           /\ PercentOf(these) = loop[Len(these)]
<1> DEFINE L == Len(these)
           T == Nat
           start == 0
           Round(n, x) == x + these[n].percent
           sum[n \in 0 .. L] == IF n = 0 THEN start ELSE Round(n, sum[n - 1])
<1>1. L \in Nat /\ start \in T /\ \A n \in 1 .. L, x \in T : Round(n, x) \in T
  OBVIOUS
<1>2. PercentOf(these) = sum[L]
  BY DEF PercentOf
<1>3. sum = CHOOSE h : h = [n \in 0 .. L |-> IF n = 0 THEN start ELSE Round(n, h[n - 1])]
  BY Zenon
<1> HIDE DEF sum, L, T, start, Round
<1>4. PICK step : step = [p \in (1 .. L) \X T |-> Round(p[1], p[2])]
  OBVIOUS
<1>5. PICK loop : IsLoop(loop, T, start, L, step)
  <2>1. step \in [(1 .. L) \X T -> T]
    <3>1. \A p \in (1 .. L) \X T : p[1] \in 1 .. L /\ p[2] \in T
      OBVIOUS
    <3>2. \A p \in (1 .. L) \X T : Round(p[1], p[2]) \in T
      BY ONLY <1>1, <3>1
    <3> QED BY ONLY <1>4, <3>2
  <2> QED BY ONLY <1>1, <2>1, LoopExists, Zenon
<1>6. /\ loop \in [0 .. L -> T] /\ loop[0] = start
      /\ \A n \in 1 .. L : loop[n] = Round(n, loop[n - 1])
  <2>1. ASSUME NEW n \in 1 .. L PROVE loop[n] = Round(n, loop[n - 1])
    <3>1. n - 1 \in 0 .. L
      BY <1>1
    <3> QED BY <1>4, <1>5, <3>1 DEF IsLoop
  <2> QED BY <1>5, <2>1 DEF IsLoop
<1>7. sum = loop
  <2>1. \A n \in 0 .. L : loop[n] = IF n = 0 THEN start ELSE Round(n, loop[n - 1])
    BY <1>1, <1>6
  <2>2. loop = [n \in 0 .. L |-> IF n = 0 THEN start ELSE Round(n, loop[n - 1])]
    BY <1>6, <2>1
  <2>3. sum = [n \in 0 .. L |-> IF n = 0 THEN start ELSE Round(n, sum[n - 1])]
    BY <1>3, <2>2, Zenon
  <2> DEFINE K == {n \in 0 .. L : sum[n] = loop[n]}
  <2>4. \A n \in 0 .. L : sum[n] = IF n = 0 THEN start ELSE Round(n, sum[n - 1])
    BY <2>3, Zenon
  <2>5. 0 \in K
    BY <1>1, <1>6, <2>4
  <2>6. \A n \in 0 .. L - 1 : n \in K => n + 1 \in K
    <3>1. SUFFICES ASSUME NEW n \in 0 .. L - 1, n \in K PROVE n + 1 \in K
      OBVIOUS
    <3>2. PICK m \in 1 .. L : m = n + 1 /\ m - 1 = n /\ m # 0 /\ m \in 0 .. L
      BY <1>1
    <3>3. sum[m] = Round(m, sum[m - 1]) /\ loop[m] = Round(m, loop[m - 1])
      BY ONLY <1>6, <2>4, <3>2, Zenon
    <3> QED BY <3>1, <3>2, <3>3
  <2> HIDE DEF K
  <2>7. \A n \in 0 .. L : n \in K
    BY ONLY <1>1, <2>5, <2>6, UpToLast
  <2>8. \A n \in 0 .. L : sum[n] = loop[n]
    BY <2>7 DEF K
  <2> QED BY <1>6, <2>3, <2>8
<1>8. \A n \in 0 .. L - 1 : loop[n + 1] = Round(n + 1, loop[n])
  <2>1. TAKE n \in 0 .. L - 1
  <2>2. PICK m \in 1 .. L : m = n + 1 /\ m - 1 = n
    BY <1>1
  <2>3. loop[m] = Round(m, loop[m - 1])
    BY <1>6, Zenon
  <2> QED BY ONLY <2>2, <2>3
<1>9. PercentOf(these) = loop[L]
  BY <1>2, <1>7
<1> QED BY <1>1, <1>6, <1>8, <1>9 DEF L, T, start, Round

\* What is left when the best are taken, one after the other.
LEMMA LeftLoop ==
  ASSUME NEW tradeType, NEW amounts, NEW size \in Nat, DOMAIN amounts = 1 .. size, Len(amounts) = size
  PROVE  \E loop \in [0 .. size -> SUBSET DOMAIN amounts] :
           /\ loop[0] = DOMAIN amounts
           /\ \A n \in 0 .. size - 1 : loop[n + 1] = loop[n] \ {FirstBest(tradeType, amounts, loop[n])}
           /\ LeftAfter(tradeType, amounts) = loop
<1> DEFINE L == size
           T == SUBSET DOMAIN amounts
           start == DOMAIN amounts
           Round(n, x) == x \ {FirstBest(tradeType, amounts, x)}
           left[n \in 0 .. L] == IF n = 0 THEN start ELSE Round(n, left[n - 1])
<1>1. L \in Nat /\ start \in T /\ \A n \in 1 .. L, x \in T : Round(n, x) \in T
  OBVIOUS
<1>2. LeftAfter(tradeType, amounts) = left
  BY DEF LeftAfter
<1>3. left = CHOOSE h : h = [n \in 0 .. L |-> IF n = 0 THEN start ELSE Round(n, h[n - 1])]
  BY Zenon
<1> HIDE DEF left, L, T, start, Round
<1>4. PICK step : step = [p \in (1 .. L) \X T |-> Round(p[1], p[2])]
  OBVIOUS
<1>5. PICK loop : IsLoop(loop, T, start, L, step)
  <2>1. step \in [(1 .. L) \X T -> T]
    <3>1. \A p \in (1 .. L) \X T : p[1] \in 1 .. L /\ p[2] \in T
      OBVIOUS
    <3>2. \A p \in (1 .. L) \X T : Round(p[1], p[2]) \in T
      BY ONLY <1>1, <3>1
    <3> QED BY ONLY <1>4, <3>2
  <2> QED BY ONLY <1>1, <2>1, LoopExists, Zenon
<1>6. /\ loop \in [0 .. L -> T] /\ loop[0] = start
      /\ \A n \in 1 .. L : loop[n] = Round(n, loop[n - 1])
  <2>1. ASSUME NEW n \in 1 .. L PROVE loop[n] = Round(n, loop[n - 1])
    <3>1. n - 1 \in 0 .. L
      BY <1>1
    <3> QED BY <1>4, <1>5, <3>1 DEF IsLoop
  <2> QED BY <1>5, <2>1 DEF IsLoop
<1>7. left = loop
  <2>1. \A n \in 0 .. L : loop[n] = IF n = 0 THEN start ELSE Round(n, loop[n - 1])
    BY <1>1, <1>6
  <2>2. loop = [n \in 0 .. L |-> IF n = 0 THEN start ELSE Round(n, loop[n - 1])]
    BY <1>6, <2>1
  <2>3. left = [n \in 0 .. L |-> IF n = 0 THEN start ELSE Round(n, left[n - 1])]
    BY <1>3, <2>2, Zenon
  <2> DEFINE K == {n \in 0 .. L : left[n] = loop[n]}
  <2>4. \A n \in 0 .. L : left[n] = IF n = 0 THEN start ELSE Round(n, left[n - 1])
    BY <2>3, Zenon
  <2>5. 0 \in K
    BY <1>1, <1>6, <2>4
  <2>6. \A n \in 0 .. L - 1 : n \in K => n + 1 \in K
    <3>1. SUFFICES ASSUME NEW n \in 0 .. L - 1, n \in K PROVE n + 1 \in K
      OBVIOUS
    <3>2. PICK m \in 1 .. L : m = n + 1 /\ m - 1 = n /\ m # 0 /\ m \in 0 .. L
      BY <1>1
    <3>3. left[m] = Round(m, left[m - 1]) /\ loop[m] = Round(m, loop[m - 1])
      BY ONLY <1>6, <2>4, <3>2, Zenon
    <3> QED BY <3>1, <3>2, <3>3
  <2> HIDE DEF K
  <2>7. \A n \in 0 .. L : n \in K
    BY ONLY <1>1, <2>5, <2>6, UpToLast
  <2>8. \A n \in 0 .. L : left[n] = loop[n]
    BY <2>7 DEF K
  <2> QED BY <1>6, <2>3, <2>8
<1>8. \A n \in 0 .. L - 1 : loop[n + 1] = Round(n + 1, loop[n])
  <2>1. TAKE n \in 0 .. L - 1
  <2>2. PICK m \in 1 .. L : m = n + 1 /\ m - 1 = n
    BY <1>1
  <2>3. loop[m] = Round(m, loop[m - 1])
    BY <1>6, Zenon
  <2> QED BY ONLY <2>2, <2>3
<1>9. LeftAfter(tradeType, amounts) = loop
  BY <1>2, <1>7
<1> QED BY <1>1, <1>6, <1>8, <1>9 DEF L, T, start, Round

\* Of some places, one is the first best.
LEMMA FirstBestFacts ==
  ASSUME NEW tradeType, NEW size \in Nat, NEW places, places \subseteq 1 .. size, places # {},
         NEW amounts, \A i \in places : amounts[i] \in Int
  PROVE  /\ FirstBest(tradeType, amounts, places) \in places
         /\ \A j \in places : ~better(tradeType, amounts[j], amounts[FirstBest(tradeType, amounts, places)])
<1> DEFINE R == [i \in places |-> {j \in places :
                  better(tradeType, amounts[i], amounts[j]) \/ (amounts[i] = amounts[j] /\ i < j)}]
           Best(i, set) == i \in set /\ \A j \in set \ {i} : j \in R[i]
           K == {k \in 0 .. size : places \intersect (1 .. k) = {} \/ \E i : Best(i, places \intersect (1 .. k))}
<1>0. places \subseteq 1 .. size /\ \A i \in places : i \in Int /\ amounts[i] \in Int
  OBVIOUS
<1>a. \A i, j \in places :
        j \in R[i] <=> better(tradeType, amounts[i], amounts[j]) \/ (amounts[i] = amounts[j] /\ i < j)
  BY Zenon
<1> HIDE DEF R
<1>1. ASSUME NEW i \in places, NEW j \in places, i # j PROVE j \in R[i] \/ i \in R[j]
  <2>1. i < j \/ j < i
    BY <1>0, <1>1
  <2>2. \/ amounts[i] > amounts[j] \/ amounts[j] > amounts[i] \/ amounts[i] = amounts[j]
    BY <1>0
  <2>3. \/ better(tradeType, amounts[i], amounts[j]) \/ (amounts[i] = amounts[j] /\ i < j)
        \/ better(tradeType, amounts[j], amounts[i]) \/ (amounts[j] = amounts[i] /\ j < i)
    BY <2>1, <2>2 DEF better
  <2> QED BY <1>a, <1>1, <2>3, Zenon
<1>2. ASSUME NEW i \in places, NEW j \in places, NEW k \in places, j \in R[i], k \in R[j]
      PROVE  k \in R[i]
  <2>1. /\ better(tradeType, amounts[i], amounts[j]) \/ (amounts[i] = amounts[j] /\ i < j)
        /\ better(tradeType, amounts[j], amounts[k]) \/ (amounts[j] = amounts[k] /\ j < k)
    BY <1>a, <1>2, Zenon
  <2>2. better(tradeType, amounts[i], amounts[k]) \/ (amounts[i] = amounts[k] /\ i < k)
    BY <1>0, <2>1 DEF better
  <2> QED BY <1>a, <2>2, Zenon
<1>3. 0 \in K
  <2>1. 1 .. 0 = {}
    OBVIOUS
  <2> QED BY <2>1
<1>4. ASSUME NEW k \in 0 .. size - 1, k \in K PROVE k + 1 \in K
  <2> DEFINE old == places \intersect (1 .. k)
             new == places \intersect (1 .. k + 1)
  <2>1. k + 1 \in 0 .. size /\ (1 .. k + 1) = (1 .. k) \union {k + 1} /\ k + 1 \notin 1 .. k
    OBVIOUS
  <2>2. old = {} \/ \E i : Best(i, old)
    BY <1>4
  <2>3. CASE k + 1 \notin places
    <3>1. new = old
      BY <2>1, <2>3
    <3> QED BY <2>1, <2>2, <3>1
  <2>4. CASE k + 1 \in places
    <3>1. new = old \union {k + 1} /\ old \subseteq places
      BY <2>1, <2>4
    <3>2. CASE old = {}
      <4>1. Best(k + 1, new)
        BY <3>1, <3>2
      <4> QED BY <2>1, <4>1
    <3>3. CASE \E i : Best(i, old)
      <4>1. PICK i : Best(i, old)
        BY <3>3
      <4>2. i \in places /\ i # k + 1
        BY <2>1, <3>1, <4>1
      <4>3. CASE k + 1 \in R[i]
        <5>1. Best(i, new)
          BY <3>1, <4>1, <4>3
        <5> QED BY <2>1, <5>1
      <4>4. CASE i \in R[k + 1]
        <5>1. ASSUME NEW j \in old PROVE j \in R[k + 1]
          <6>1. CASE j = i
            BY <4>4, <6>1
          <6>2. CASE j # i
            <7>1. j \in R[i] /\ j \in places
              BY <3>1, <4>1, <6>2
            <7> QED BY <1>2, <2>4, <4>2, <4>4, <7>1
          <6> QED BY <6>1, <6>2
        <5>2. Best(k + 1, new)
          BY <3>1, <5>1
        <5> QED BY <2>1, <5>2
      <4> QED BY <1>1, <2>4, <4>2, <4>3, <4>4
    <3> QED BY <2>2, <3>2, <3>3
  <2> QED BY <2>3, <2>4
<1> HIDE DEF Best
<1>5. \A k \in 0 .. size : k \in K
  <2> HIDE DEF K
  <2> QED BY ONLY <1>3, <1>4, UpToLast
<1>6. \E i : Best(i, places)
  <2>1. places \intersect (1 .. size) = places
    BY ONLY <1>0
  <2>2. size \in K
    BY <1>5
  <2> QED BY <2>1, <2>2 DEF K
<1>7. \E i \in places : \A j \in places \ {i} :
        better(tradeType, amounts[i], amounts[j]) \/ (amounts[i] = amounts[j] /\ i < j)
  <2>1. PICK i : Best(i, places)
    BY <1>6
  <2>2. i \in places /\ \A j \in places \ {i} : j \in R[i]
    BY <2>1 DEF Best
  <2> QED BY <2>2 DEF R
<1>8. PICK f : f = FirstBest(tradeType, amounts, places)
  OBVIOUS
<1>9. f = CHOOSE i \in places : \A j \in places \ {i} :
        better(tradeType, amounts[i], amounts[j]) \/ (amounts[i] = amounts[j] /\ i < j)
  BY <1>8, Zenon DEF FirstBest
<1>10. f \in places /\ \A j \in places \ {f} :
        better(tradeType, amounts[f], amounts[j]) \/ (amounts[f] = amounts[j] /\ f < j)
  BY ONLY <1>7, <1>9, Zenon
<1>11. ASSUME NEW j \in places PROVE ~better(tradeType, amounts[j], amounts[f])
  <2>1. amounts[j] \in Int /\ amounts[f] \in Int
    BY <1>0, <1>10
  <2>2. j # f => better(tradeType, amounts[f], amounts[j]) \/ amounts[f] = amounts[j]
    BY <1>10, Zenon
  <2> QED BY ONLY <2>1, <2>2 DEF better
<1> QED BY <1>8, <1>10, <1>11, Zenon

\* Where the elements of a sorted sequence come from: it has each of them, none twice, and no better
\* one after another.
IsSorting(place, tradeType, amounts, seq) ==
  /\ place \in [1 .. Len(seq) -> 1 .. Len(seq)]
  /\ \A m, n \in 1 .. Len(seq) : m # n => place[m] # place[n]
  /\ \A i \in 1 .. Len(seq) : \E n \in 1 .. Len(seq) : place[n] = i
  /\ \A m, n \in 1 .. Len(seq) : m < n => ~better(tradeType, amounts[place[n]], amounts[place[m]])
  /\ Sorted(tradeType, amounts, seq) = [n \in 1 .. Len(seq) |-> seq[place[n]]]

\* There is such an order.
LEMMA SortedFacts ==
  ASSUME NEW tradeType, NEW S, NEW seq \in Seq(S), NEW amounts \in Seq(Int), Len(amounts) = Len(seq)
  PROVE  \E place : IsSorting(place, tradeType, amounts, seq)
<1> DEFINE L == Len(seq)
           First(places) == FirstBest(tradeType, amounts, places)
<1>1. L \in Nat /\ DOMAIN amounts = 1 .. L /\ DOMAIN seq = 1 .. L /\ \A i \in 1 .. L : amounts[i] \in Int
  OBVIOUS
<1>2. PICK left \in [0 .. L -> SUBSET (1 .. L)] :
        /\ left[0] = 1 .. L
        /\ \A n \in 0 .. L - 1 : left[n + 1] = left[n] \ {First(left[n])}
        /\ LeftAfter(tradeType, amounts) = left
  BY <1>1, LeftLoop
<1> HIDE DEF L
<1>3. ASSUME NEW n \in 0 .. L, left[n] # {}
      PROVE  /\ First(left[n]) \in left[n]
             /\ \A j \in left[n] : ~better(tradeType, amounts[j], amounts[First(left[n])])
  <2>1. left[n] \subseteq 1 .. L
    BY <1>2
  <2>2. \A i \in left[n] : amounts[i] \in Int
    BY <1>1, <2>1
  <2> QED BY ONLY <1>1, <1>3, <2>1, <2>2, FirstBestFacts, Zenon
<1> HIDE DEF First
<1>4. \A n \in 0 .. L : IsFiniteSet(left[n]) /\ Cardinality(left[n]) = L - n
  <2> DEFINE K == {n \in 0 .. L : IsFiniteSet(left[n]) /\ Cardinality(left[n]) = L - n}
  <2>1. 0 \in K
    <3>1. IsFiniteSet(1 .. L) /\ Cardinality(1 .. L) = L
      BY <1>1, FS_Interval
    <3> QED BY <1>1, <1>2, <3>1
  <2>2. \A n \in 0 .. L - 1 : n \in K => n + 1 \in K
    <3>1. SUFFICES ASSUME NEW n \in 0 .. L - 1, n \in K PROVE n + 1 \in K
      OBVIOUS
    <3>2. IsFiniteSet(left[n]) /\ Cardinality(left[n]) = L - n /\ n \in 0 .. L /\ n + 1 \in 0 .. L
      BY <1>1, <3>1
    <3>3. left[n] # {}
      BY <1>1, <3>2, FS_EmptySet
    <3>4. First(left[n]) \in left[n]
      BY <1>3, <3>2, <3>3
    <3>5. left[n + 1] = left[n] \ {First(left[n])}
      BY <1>2
    <3>6. IsFiniteSet(left[n + 1]) /\ Cardinality(left[n + 1]) = Cardinality(left[n]) - 1
      BY <3>2, <3>4, <3>5, FS_RemoveElement
    <3> QED BY <1>1, <3>2, <3>6
  <2> HIDE DEF K
  <2>3. \A n \in 0 .. L : n \in K
    BY ONLY <1>1, <2>1, <2>2, UpToLast
  <2> QED BY <2>3 DEF K
<1>5. \A n \in 0 .. L - 1 : left[n] # {}
  <2>1. TAKE n \in 0 .. L - 1
  <2>2. n \in 0 .. L /\ L - n # 0
    BY <1>1
  <2>3. IsFiniteSet(left[n]) /\ Cardinality(left[n]) # 0
    BY <1>4, <2>2
  <2> QED BY <2>3, FS_EmptySet
<1>6. left[L] = {}
  <2>1. L \in 0 .. L /\ L - L = 0
    BY <1>1
  <2> QED BY <1>4, <2>1, FS_EmptySet
<1>7. \A n \in 0 .. L : \A m \in 0 .. n : left[n] \subseteq left[m]
  <2> DEFINE K == {n \in 0 .. L : \A m \in 0 .. n : left[n] \subseteq left[m]}
  <2>1. 0 \in K
    BY <1>1
  <2>2. \A n \in 0 .. L - 1 : n \in K => n + 1 \in K
    <3>1. SUFFICES ASSUME NEW n \in 0 .. L - 1, n \in K PROVE n + 1 \in K
      OBVIOUS
    <3>a. SUFFICES ASSUME NEW m \in 0 .. n + 1 PROVE left[n + 1] \subseteq left[m]
      BY <1>1
    <3>2. left[n + 1] \subseteq left[n]
      BY <1>2
    <3>3. CASE m = n + 1
      BY <3>3
    <3>4. CASE m # n + 1
      BY <3>1, <3>2, <3>4
    <3> QED BY <3>3, <3>4
  <2> HIDE DEF K
  <2>3. \A n \in 0 .. L : n \in K
    BY ONLY <1>1, <2>1, <2>2, UpToLast
  <2> QED BY <2>3 DEF K
<1> DEFINE place == [n \in 1 .. L |-> First(left[n - 1])]
<1>8. \A n \in 1 .. L : n - 1 \in 0 .. L - 1 /\ n - 1 \in 0 .. L /\ n \in 0 .. L /\ n - 1 + 1 = n
  BY <1>1
<1>9. \A n \in 1 .. L : /\ place[n] \in left[n - 1] /\ place[n] \in 1 .. L
                      /\ left[n] = left[n - 1] \ {place[n]}
                      /\ \A j \in left[n - 1] : ~better(tradeType, amounts[j], amounts[place[n]])
  <2>1. TAKE n \in 1 .. L
  <2>2. PICK k \in 0 .. L - 1 : k = n - 1 /\ k + 1 = n /\ k \in 0 .. L
    BY <1>8
  <2>3. left[k] # {} /\ left[k] \subseteq 1 .. L /\ left[k + 1] = left[k] \ {First(left[k])}
    BY <1>2, <1>5, <2>2
  <2>4. /\ First(left[k]) \in left[k]
        /\ \A j \in left[k] : ~better(tradeType, amounts[j], amounts[First(left[k])])
    BY <1>3, <2>2, <2>3, Zenon
  <2>5. place[n] = First(left[k])
    BY <2>2
  <2> HIDE DEF place
  <2>6. left[n] = left[n - 1] \ {place[n]} /\ place[n] \in left[n - 1] /\ place[n] \in 1 .. L
    BY <2>2, <2>3, <2>4, <2>5
  <2>7. \A j \in left[n - 1] : ~better(tradeType, amounts[j], amounts[place[n]])
    BY <2>2, <2>4, <2>5, Zenon
  <2> QED BY <2>6, <2>7
<1>10. Sorted(tradeType, amounts, seq) = [n \in 1 .. L |-> seq[place[n]]]
  <2>1. Sorted(tradeType, amounts, seq) = [n \in 1 .. L |-> seq[First(left[n - 1])]]
    BY <1>1, <1>2, Zenon DEF Sorted, First
  <2> QED BY <2>1
<1>11. place \in [1 .. L -> 1 .. L]
  BY <1>9
<1> HIDE DEF place
<1>12. ASSUME NEW m \in 1 .. L, NEW n \in 1 .. L, m < n
       PROVE  place[m] # place[n] /\ ~better(tradeType, amounts[place[n]], amounts[place[m]])
  <2>1. PICK k \in 0 .. L : k = n - 1 /\ m \in 0 .. k /\ m - 1 \in 0 .. k
    BY <1>1, <1>12
  <2>2. place[n] \in left[k] /\ left[k] \subseteq left[m] /\ left[k] \subseteq left[m - 1]
    BY <1>7, <1>9, <2>1
  <2>3. place[n] \in left[m] /\ place[n] \in left[m - 1]
    BY <2>2
  <2>4. left[m] = left[m - 1] \ {place[m]}
    BY <1>9
  <2>5. ~better(tradeType, amounts[place[n]], amounts[place[m]])
    BY <1>9, <2>3, Zenon
  <2> QED BY <2>3, <2>4, <2>5
<1>13. \A i \in 1 .. L : \E n \in 1 .. L : place[n] = i
  <2> DEFINE K == {n \in 0 .. L : \A i \in 1 .. L : i \in left[n] \/ \E m \in 1 .. L : place[m] = i}
  <2>1. 0 \in K
    BY <1>1, <1>2
  <2>2. \A n \in 0 .. L - 1 : n \in K => n + 1 \in K
    <3>1. SUFFICES ASSUME NEW n \in 0 .. L - 1, n \in K PROVE n + 1 \in K
      OBVIOUS
    <3>2. PICK k \in 1 .. L : k = n + 1 /\ k - 1 = n /\ k \in 0 .. L
      BY <1>1
    <3>3. left[k] = left[k - 1] \ {place[k]}
      BY <1>9
    <3> QED BY <3>1, <3>2, <3>3
  <2> HIDE DEF K
  <2>3. \A n \in 0 .. L : n \in K
    BY ONLY <1>1, <2>1, <2>2, UpToLast
  <2>4. L \in K
    BY <1>1, <2>3
  <2> QED BY <1>6, <2>4 DEF K
<1>14. \A m, n \in 1 .. L : m # n => place[m] # place[n]
  <2>1. TAKE m, n \in 1 .. L
  <2>2. m # n => m < n \/ n < m
    OBVIOUS
  <2> QED BY <1>12, <2>2
<1>15. \A m, n \in 1 .. L : m < n => ~better(tradeType, amounts[place[n]], amounts[place[m]])
  BY <1>12, Zenon
<1>16. IsSorting(place, tradeType, amounts, seq)
  BY <1>10, <1>11, <1>13, <1>14, <1>15, Zenon DEF L, IsSorting
<1> QED BY <1>16

\* What is sorted is the same elements.
LEMMA SortedRange ==
  ASSUME NEW tradeType, NEW S, NEW seq \in Seq(S), NEW amounts \in Seq(Int), Len(amounts) = Len(seq)
  PROVE  /\ Sorted(tradeType, amounts, seq) \in Seq(S)
         /\ Len(Sorted(tradeType, amounts, seq)) = Len(seq)
         /\ Range(Sorted(tradeType, amounts, seq)) = Range(seq)
<1>1. PICK place : IsSorting(place, tradeType, amounts, seq)
  BY SortedFacts, Zenon
<1>2. Len(seq) \in Nat /\ DOMAIN seq = 1 .. Len(seq) /\ \A n \in 1 .. Len(seq) : seq[n] \in S
  OBVIOUS
<1> DEFINE s == [n \in 1 .. Len(seq) |-> seq[place[n]]]
<1>a. \A n \in 1 .. Len(seq) : place[n] \in 1 .. Len(seq) /\ seq[place[n]] \in S
  BY <1>1, <1>2 DEF IsSorting
<1>3. s \in Seq(S) /\ Len(s) = Len(seq) /\ DOMAIN s = 1 .. Len(seq) /\ \A n \in 1 .. Len(seq) : s[n] = seq[place[n]]
  BY <1>2, <1>a
<1>b. \A i \in 1 .. Len(seq) : \E n \in 1 .. Len(seq) : place[n] = i
  BY <1>1, Zenon DEF IsSorting
<1> HIDE DEF s
<1>4. Range(s) = Range(seq)
  <2>1. ASSUME NEW x \in Range(s) PROVE x \in Range(seq)
    <3>1. PICK n \in 1 .. Len(seq) : x = seq[place[n]]
      BY <1>3 DEF Range
    <3> QED BY <1>2, <1>a, <3>1 DEF Range
  <2>2. ASSUME NEW x \in Range(seq) PROVE x \in Range(s)
    <3>1. PICK i \in 1 .. Len(seq) : x = seq[i]
      BY <1>2 DEF Range
    <3>2. PICK n \in 1 .. Len(seq) : place[n] = i
      BY <1>b
    <3> QED BY <1>3, <3>1, <3>2 DEF Range
  <2> QED BY <2>1, <2>2
<1>5. Sorted(tradeType, amounts, seq) = s
  BY <1>1, Zenon DEF s, IsSorting
<1> QED BY <1>3, <1>4, <1>5

\* filter.
LEMMA OnlyFacts ==
  ASSUME NEW S, NEW seq \in Seq(S), NEW T
  PROVE  Only(seq, T) \in Seq(S) /\ Range(Only(seq, T)) = Range(seq) \intersect T
<1> DEFINE lists == [i \in DOMAIN seq |-> IF seq[i] \in T THEN <<seq[i]>> ELSE <<>>]
<1>1. DOMAIN seq = 1 .. Len(seq) /\ Len(seq) \in Nat /\ \A i \in DOMAIN seq : seq[i] \in S
  OBVIOUS
<1>2. \A i \in DOMAIN seq : <<seq[i]>> \in Seq(S) /\ Range(<<seq[i]>>) = {seq[i]}
  BY <1>1 DEF Range
<1>3. <<>> \in Seq(S) /\ Range(<<>>) = {}
  BY DEF Range
<1>4. \A i \in DOMAIN seq : lists[i] \in Seq(S)
  BY <1>2, <1>3
<1>5. lists \in Seq(Seq(S)) /\ DOMAIN lists = DOMAIN seq
  <2> DEFINE T2 == Seq(S)
  <2>1. \A i \in DOMAIN seq : lists[i] \in T2
    BY <1>4
  <2> HIDE DEF T2
  <2>2. lists \in Seq(T2)
    BY <1>1, <2>1
  <2> QED BY <2>2 DEF T2
<1>6. Only(seq, T) = FlattenSeq(lists)
  BY DEF Only
<1>7. \A i \in DOMAIN seq : Range(lists[i]) = {seq[i]} \intersect T
  BY <1>2, <1>3
<1> HIDE DEF lists
<1>8. /\ FlattenSeq(lists) \in Seq(S)
      /\ Range(FlattenSeq(lists)) = UNION {Range(lists[i]) : i \in DOMAIN lists}
  BY <1>5, FlattenFacts
<1>9. UNION {Range(lists[i]) : i \in DOMAIN lists} = Range(seq) \intersect T
  <2>1. UNION {Range(lists[i]) : i \in DOMAIN lists} = UNION {{seq[i]} \intersect T : i \in DOMAIN seq}
    BY <1>5, <1>7
  <2> QED BY <2>1 DEF Range
<1> QED BY <1>6, <1>8, <1>9

\* A Set filled in a loop holds what was there and what there was room for.
LEMMA AddFacts ==
  ASSUME NEW S, NEW kept \in Seq(S), NEW candidates \in Seq(S), NEW limit \in Int
  PROVE  /\ AddUpTo(kept, candidates, limit) \in Seq(S)
         /\ Range(kept) \subseteq Range(AddUpTo(kept, candidates, limit))
         /\ Range(AddUpTo(kept, candidates, limit)) \subseteq Range(kept) \union Range(candidates)
         /\ limit >= Len(kept) + Len(candidates)
              => Range(candidates) \subseteq Range(AddUpTo(kept, candidates, limit))
<1>1. /\ Len(candidates) \in Nat /\ DOMAIN candidates = 1 .. Len(candidates) /\ \A n \in 1 .. Len(candidates) : candidates[n] \in S
      /\ Len(kept) \in Nat
  OBVIOUS
<1>2. PICK set : IsFilling(set, S, kept, candidates, limit)
  BY AddLoop, Zenon
<1> USE DEF IsFilling
<1> DEFINE K == {n \in 0 .. Len(candidates) :
                   /\ Len(set[n]) <= Len(kept) + n
                   /\ Range(kept) \subseteq Range(set[n])
                   /\ Range(set[n]) \subseteq Range(kept) \union Range(candidates)
                   /\ limit >= Len(kept) + Len(candidates) => \A i \in 1 .. n : candidates[i] \in Range(set[n])}
<1>3. 0 \in K
  BY <1>1, <1>2
<1>4. \A n \in 0 .. Len(candidates) - 1 : n \in K => n + 1 \in K
  <2>1. SUFFICES ASSUME NEW n \in 0 .. Len(candidates) - 1, n \in K PROVE n + 1 \in K
    OBVIOUS
  <2>2. /\ n + 1 \in 0 .. Len(candidates) /\ n + 1 \in 1 .. Len(candidates)
        /\ set[n] \in Seq(S) /\ Len(set[n]) \in Nat /\ n \in 0 .. Len(candidates)
        /\ (1 .. n + 1) = (1 .. n) \union {n + 1}
    <3>1. n + 1 \in 0 .. Len(candidates) /\ n + 1 \in 1 .. Len(candidates) /\ n \in 0 .. Len(candidates)
      BY ONLY <1>1, n \in 0 .. Len(candidates) - 1
    <3>2. set[n] \in Seq(S)
      BY <1>2, <3>1
    <3>3. (1 .. n + 1) = (1 .. n) \union {n + 1}
      BY <3>1
    <3> QED BY <3>1, <3>2, <3>3
  <2>3. candidates[n + 1] \in S /\ candidates[n + 1] \in Range(candidates)
    BY <1>1, <2>2 DEF Range
  <2>4. CASE Len(set[n]) >= limit \/ candidates[n + 1] \in Range(set[n])
    <3>1. set[n + 1] = set[n]
      BY <1>2, <2>4
    <3>2. limit >= Len(kept) + Len(candidates) => candidates[n + 1] \in Range(set[n])
      BY <1>1, <2>1, <2>2, <2>4
    <3> QED BY <1>1, <2>1, <2>2, <3>1, <3>2
  <2>5. CASE ~(Len(set[n]) >= limit \/ candidates[n + 1] \in Range(set[n]))
    <3>1. set[n + 1] = Append(set[n], candidates[n + 1])
      BY <1>2, <2>5
    <3>2. Len(set[n + 1]) = Len(set[n]) + 1 /\ Range(set[n + 1]) = Range(set[n]) \union {candidates[n + 1]}
      BY <2>2, <2>3, <3>1, PushFacts
    <3> QED BY <1>1, <2>1, <2>2, <2>3, <3>2
  <2> QED BY <2>4, <2>5
<1>5. Len(candidates) \in K
  <2> HIDE DEF K
  <2>1. \A n \in 0 .. Len(candidates) : n \in K
    BY ONLY <1>1, <1>3, <1>4, UpToLast
  <2> QED BY <1>1, <2>1
<1>6. limit >= Len(kept) + Len(candidates) => Range(candidates) \subseteq Range(set[Len(candidates)])
  BY <1>1, <1>5 DEF Range
<1> QED BY <1>1, <1>2, <1>5, <1>6

\* The sums of the legs grow with each leg.
LEMMA SumFacts ==
  ASSUME NEW S, \A q \in S : q.quote \in Nat /\ q.percent \in Nat, NEW these \in Seq(S), NEW q \in S
  PROVE  /\ QuoteOf(these) \in Nat /\ PercentOf(these) \in Nat
         /\ QuoteOf(<<q>>) = q.quote /\ PercentOf(<<q>>) = q.percent
         /\ QuoteOf(Append(these, q)) = QuoteOf(these) + q.quote
         /\ PercentOf(Append(these, q)) = PercentOf(these) + q.percent
<1> DEFINE one == <<q>>
           more == Append(these, q)
<1>1. one \in Seq(S) /\ Len(one) = 1 /\ one[1] = q
  OBVIOUS
<1>2. /\ more \in Seq(S) /\ Len(more) = Len(these) + 1 /\ Len(these) \in Nat
      /\ more[Len(these) + 1] = q /\ \A n \in 1 .. Len(these) : more[n] = these[n]
  OBVIOUS
<1> HIDE DEF one, more
<1>3. \A s \in Seq(S) : /\ Len(s) \in Nat
                       /\ \A n \in 1 .. Len(s) : s[n] \in S /\ s[n].quote \in Nat /\ s[n].percent \in Nat
  OBVIOUS
<1>4. QuoteOf(these) \in Nat /\ QuoteOf(one) = q.quote /\ QuoteOf(more) = QuoteOf(these) + q.quote
  <2>1. PICK a \in [0 .. 1 -> Nat] :
          a[0] = 0 /\ (\A n \in 0 .. 1 - 1 : a[n + 1] = a[n] + one[n + 1].quote) /\ QuoteOf(one) = a[1]
    BY <1>1, <1>3, QuoteOfLoop
  <2>2. a[0 + 1] = a[0] + one[0 + 1].quote
    BY <2>1
  <2>3. QuoteOf(one) = q.quote
    BY <1>1, <2>1, <2>2
  <2>4. PICK b \in [0 .. Len(these) -> Nat] :
          /\ b[0] = 0
          /\ \A n \in 0 .. Len(these) - 1 : b[n + 1] = b[n] + these[n + 1].quote
          /\ QuoteOf(these) = b[Len(these)]
    BY <1>3, QuoteOfLoop
  <2>5. PICK c \in [0 .. Len(more) -> Nat] :
          /\ c[0] = 0
          /\ \A n \in 0 .. Len(more) - 1 : c[n + 1] = c[n] + more[n + 1].quote
          /\ QuoteOf(more) = c[Len(more)]
    BY <1>2, <1>3, QuoteOfLoop
  <2> DEFINE K == {n \in 0 .. Len(these) : c[n] = b[n]}
  <2>6. 0 \in K
    BY <1>2, <2>4, <2>5
  <2>7. \A n \in 0 .. Len(these) - 1 : n \in K => n + 1 \in K
    <3>1. SUFFICES ASSUME NEW n \in 0 .. Len(these) - 1, c[n] = b[n]
                   PROVE  n + 1 \in 0 .. Len(these) /\ c[n + 1] = b[n + 1]
      OBVIOUS
    <3>2. PICK m \in 1 .. Len(these) : m = n + 1 /\ m \in 0 .. Len(these) /\ n \in 0 .. Len(more) - 1
      BY <1>2
    <3>3. more[m] = these[m]
      BY <1>2, <3>2
    <3>4. b[m] = b[n] + these[m].quote
      BY <2>4, <3>1, <3>2
    <3>5. c[m] = c[n] + more[m].quote
      BY <2>5, <3>2
    <3> QED BY <3>1, <3>2, <3>3, <3>4, <3>5
  <2>8. Len(these) \in K
    <3> HIDE DEF K
    <3>1. \A n \in 0 .. Len(these) : n \in K
      BY ONLY <1>2, <2>6, <2>7, UpToLast
    <3> QED BY <1>2, <3>1
  <2>9. c[Len(these) + 1] = c[Len(these)] + more[Len(these) + 1].quote
    <3>1. Len(these) \in 0 .. Len(more) - 1
      BY <1>2
    <3> QED BY <2>5, <3>1, Zenon
  <2> QED BY <1>2, <2>3, <2>4, <2>5, <2>8, <2>9
<1>5. PercentOf(these) \in Nat /\ PercentOf(one) = q.percent /\ PercentOf(more) = PercentOf(these) + q.percent
  <2>1. PICK a \in [0 .. 1 -> Nat] :
          a[0] = 0 /\ (\A n \in 0 .. 1 - 1 : a[n + 1] = a[n] + one[n + 1].percent) /\ PercentOf(one) = a[1]
    BY <1>1, <1>3, PercentOfLoop
  <2>2. a[0 + 1] = a[0] + one[0 + 1].percent
    BY <2>1
  <2>3. PercentOf(one) = q.percent
    BY <1>1, <2>1, <2>2
  <2>4. PICK b \in [0 .. Len(these) -> Nat] :
          /\ b[0] = 0
          /\ \A n \in 0 .. Len(these) - 1 : b[n + 1] = b[n] + these[n + 1].percent
          /\ PercentOf(these) = b[Len(these)]
    BY <1>3, PercentOfLoop
  <2>5. PICK c \in [0 .. Len(more) -> Nat] :
          /\ c[0] = 0
          /\ \A n \in 0 .. Len(more) - 1 : c[n + 1] = c[n] + more[n + 1].percent
          /\ PercentOf(more) = c[Len(more)]
    BY <1>2, <1>3, PercentOfLoop
  <2> DEFINE K == {n \in 0 .. Len(these) : c[n] = b[n]}
  <2>6. 0 \in K
    BY <1>2, <2>4, <2>5
  <2>7. \A n \in 0 .. Len(these) - 1 : n \in K => n + 1 \in K
    <3>1. SUFFICES ASSUME NEW n \in 0 .. Len(these) - 1, c[n] = b[n]
                   PROVE  n + 1 \in 0 .. Len(these) /\ c[n + 1] = b[n + 1]
      OBVIOUS
    <3>2. PICK m \in 1 .. Len(these) : m = n + 1 /\ m \in 0 .. Len(these) /\ n \in 0 .. Len(more) - 1
      BY <1>2
    <3>3. more[m] = these[m]
      BY <1>2, <3>2
    <3>4. b[m] = b[n] + these[m].percent
      BY <2>4, <3>1, <3>2
    <3>5. c[m] = c[n] + more[m].percent
      BY <2>5, <3>2
    <3> QED BY <3>1, <3>2, <3>3, <3>4, <3>5
  <2>8. Len(these) \in K
    <3> HIDE DEF K
    <3>1. \A n \in 0 .. Len(these) : n \in K
      BY ONLY <1>2, <2>6, <2>7, UpToLast
    <3> QED BY <1>2, <3>1
  <2>9. c[Len(these) + 1] = c[Len(these)] + more[Len(these) + 1].percent
    <3>1. Len(these) \in 0 .. Len(more) - 1
      BY <1>2
    <3> QED BY <2>5, <3>1, Zenon
  <2> QED BY <1>2, <2>3, <2>4, <2>5, <2>8, <2>9
<1> QED BY <1>4, <1>5 DEF one, more

-----------------------------------------------------------------------------
(* The search for the best split *)

\* What is quoted: each for a part, and something.
AreQuotes(qs) ==
  /\ qs \in Seq(Range(qs))
  /\ \A q \in Range(qs) : q.percent \in 1 .. Steps /\ q.quote \in Nat

\* What is in the queue.
QueueEntries(qs) == [percentIndex : 1 .. Steps, routes : Seq(Range(qs)), remainingPercent : Nat]

\* No pool is used by two of these quotes.
NoPoolTwice(these) ==
  \A i, j \in DOMAIN these : i # j => Range(these[i].route) \intersect Range(these[j].route) = {}

\* A partial split in some legs: with what remains they are the whole, and no two share a pool.
IsSplit(entry, qs, size) ==
  /\ entry \in QueueEntries(qs)
  /\ Len(entry.routes) = size
  /\ PercentOf(entry.routes) + entry.remainingPercent = Steps
  /\ NoPoolTwice(entry.routes)

\* A quote has a route, a part and a value.
LEMMA QuoteTypes ==
  ASSUME NEW qs, AreQuotes(qs)
  PROVE  /\ Len(qs) \in Nat /\ DOMAIN qs = 1 .. Len(qs)
         /\ \A i \in 1 .. Len(qs) : qs[i] \in Range(qs) /\ qs[i].percent \in 1 .. Steps /\ qs[i].quote \in Nat
         /\ \A q \in Range(qs) : q.percent \in 1 .. Steps /\ q.quote \in Nat /\ q.percent \in Nat
<1>1. Len(qs) \in Nat /\ DOMAIN qs = 1 .. Len(qs)
  BY DEF AreQuotes
<1>2. \A q \in Range(qs) : q.percent \in 1 .. Steps /\ q.quote \in Nat
  BY DEF AreQuotes
<1>3. \A i \in 1 .. Len(qs) : qs[i] \in Range(qs)
  BY <1>1 DEF Range
<1> QED BY <1>1, <1>2, <1>3, StepsAssumption

\* The best of some places is one of them, and none of them is better.
LEMMA BestPlace ==
  ASSUME NEW qs, AreQuotes(qs), NEW tradeType, NEW places, places \subseteq DOMAIN qs, places # {}
  PROVE  /\ FirstBest(tradeType, Amounts(qs), places) \in places
         /\ \A j \in places :
              ~better(tradeType, qs[j].quote, qs[FirstBest(tradeType, Amounts(qs), places)].quote)
<1>1. Len(qs) \in Nat /\ DOMAIN qs = 1 .. Len(qs) /\ \A i \in 1 .. Len(qs) : qs[i].quote \in Nat
  BY QuoteTypes
<1>2. \A i \in DOMAIN qs : Amounts(qs)[i] = qs[i].quote
  BY DEF Amounts
<1>3. /\ places \subseteq 1 .. Len(qs) /\ \A i \in places : Amounts(qs)[i] \in Int
  BY <1>1, <1>2
<1> DEFINE f == FirstBest(tradeType, Amounts(qs), places)
<1>4. f \in places /\ \A j \in places : ~better(tradeType, Amounts(qs)[j], Amounts(qs)[f])
  BY <1>1, <1>3, FirstBestFacts, Zenon
<1> HIDE DEF f
<1>5. \A j \in places : ~better(tradeType, qs[j].quote, qs[f].quote)
  <2>1. TAKE j \in places
  <2>2. Amounts(qs)[j] = qs[j].quote /\ Amounts(qs)[f] = qs[f].quote
    BY <1>2, <1>4
  <2> QED BY <1>4, <2>2, Zenon
<1> QED BY <1>4, <1>5, Zenon DEF f

\* A seed is a split in one leg.
LEMMA SeedFacts ==
  ASSUME NEW qs, AreQuotes(qs), NEW i \in DOMAIN qs
  PROVE  IsSplit(Seed(qs, i), qs, 1) /\ QuoteOf(Seed(qs, i).routes) = qs[i].quote
<1> DEFINE one == <<qs[i]>>
<1>1. qs[i] \in Range(qs) /\ qs[i].percent \in 1 .. Steps /\ Steps \in Nat
  BY QuoteTypes, StepsAssumption
<1>2. one \in Seq(Range(qs)) /\ Len(one) = 1 /\ DOMAIN one = {1}
  BY <1>1
<1>3. <<>> \in Seq(Range(qs)) /\ \A q \in Range(qs) : q.quote \in Nat /\ q.percent \in Nat
  BY QuoteTypes
<1>4. PercentOf(one) = qs[i].percent /\ QuoteOf(one) = qs[i].quote
  BY <1>1, <1>3, SumFacts
<1> HIDE DEF one
<1>5. Seed(qs, i) = [percentIndex |-> qs[i].percent, routes |-> one, remainingPercent |-> Steps - qs[i].percent]
  BY DEF Seed, one
<1>6. Steps - qs[i].percent \in Nat /\ qs[i].percent + (Steps - qs[i].percent) = Steps
  BY <1>1
<1> QED BY <1>1, <1>2, <1>4, <1>5, <1>6 DEF IsSplit, QueueEntries, NoPoolTwice

\* The search starts from splits in one leg; among them is the best for each part and, if there is
\* another, the best of the others.
LEMMA SeedsFacts ==
  ASSUME NEW qs, AreQuotes(qs), NEW tradeType
  PROVE  /\ Seeds(tradeType, qs) \in Seq(QueueEntries(qs))
         /\ \A entry \in Range(Seeds(tradeType, qs)) : IsSplit(entry, qs, 1)
         /\ \A percent \in 1 .. Steps :
              LET places == Places(qs, percent)
                  first == FirstBest(tradeType, Amounts(qs), places)
                  second == FirstBest(tradeType, Amounts(qs), places \ {first})
              IN  /\ places # {} => Seed(qs, first) \in Range(Seeds(tradeType, qs))
                  /\ places \ {first} # {} => Seed(qs, second) \in Range(Seeds(tradeType, qs))
<1> DEFINE places(p) == Places(qs, p)
           first(p) == FirstBest(tradeType, Amounts(qs), places(p))
           second(p) == FirstBest(tradeType, Amounts(qs), places(p) \ {first(p)})
           Of(p) == CASE places(p) = {} -> <<>>
                      [] places(p) = {first(p)} -> <<Seed(qs, first(p))>>
                      [] places(p) \ {first(p)} # {} -> <<Seed(qs, first(p)), Seed(qs, second(p))>>
           lists == [k \in 1 .. Steps |-> Of(Steps + 1 - k)]
           E == QueueEntries(qs)
<1>1. Seeds(tradeType, qs) = FlattenSeq(lists)
  BY DEF Seeds
<1>2. \A p \in 1 .. Steps : places(p) \subseteq DOMAIN qs
  BY DEF Places
<1>3. ASSUME NEW p \in 1 .. Steps
      PROVE  /\ Of(p) \in Seq(E) /\ \A entry \in Range(Of(p)) : IsSplit(entry, qs, 1)
             /\ places(p) # {} => Seed(qs, first(p)) \in Range(Of(p))
             /\ places(p) \ {first(p)} # {} => Seed(qs, second(p)) \in Range(Of(p))
  <2> DEFINE a == first(p)
             b == second(p)
             P == places(p)
  <2>1. P # {} => a \in P
    BY <1>2, BestPlace, Zenon
  <2>2. P \ {a} # {} => b \in P \ {a}
    <3>1. P \ {a} \subseteq DOMAIN qs
      BY <1>2
    <3> QED BY <3>1, BestPlace, Zenon
  <2>3. P \subseteq DOMAIN qs
    BY <1>2
  <2>4. Of(p) = CASE P = {} -> <<>>
                  [] P = {a} -> <<Seed(qs, a)>>
                  [] P \ {a} # {} -> <<Seed(qs, a), Seed(qs, b)>>
    OBVIOUS
  <2> HIDE DEF a, b, P, Of
  <2>5. CASE P = {}
    <3>1. Of(p) = <<>> /\ Range(<<>>) = {}
      BY <2>4, <2>5 DEF Range
    <3> QED BY <2>5, <3>1 DEF a, b, P
  <2>6. CASE P = {a}
    <3>1. Of(p) = <<Seed(qs, a)>>
      BY <2>4, <2>6
    <3>2. IsSplit(Seed(qs, a), qs, 1)
      BY <2>3, <2>6, SeedFacts
    <3>3. Seed(qs, a) \in E
      BY <3>2 DEF IsSplit
    <3>4. Range(<<Seed(qs, a)>>) = {Seed(qs, a)}
      BY DEF Range
    <3> HIDE DEF E
    <3>5. Of(p) \in Seq(E) /\ \A entry \in Range(Of(p)) : IsSplit(entry, qs, 1)
      BY <3>1, <3>2, <3>3, <3>4
    <3>6. P \ {a} = {} /\ Seed(qs, a) \in Range(Of(p))
      BY <2>6, <3>1, <3>4
    <3> QED BY <3>5, <3>6 DEF a, b, P, E
  <2>7. CASE P \ {a} # {}
    <3>1. Of(p) = <<Seed(qs, a), Seed(qs, b)>>
      BY <2>4, <2>7
    <3>2. IsSplit(Seed(qs, a), qs, 1) /\ IsSplit(Seed(qs, b), qs, 1)
      BY <2>1, <2>2, <2>3, <2>7, SeedFacts
    <3>3. Seed(qs, a) \in E /\ Seed(qs, b) \in E
      BY <3>2 DEF IsSplit
    <3>4. Range(<<Seed(qs, a), Seed(qs, b)>>) = {Seed(qs, a), Seed(qs, b)}
      BY DEF Range
    <3> HIDE DEF E
    <3>5. Of(p) \in Seq(E) /\ \A entry \in Range(Of(p)) : IsSplit(entry, qs, 1)
      BY <3>1, <3>2, <3>3, <3>4
    <3>6. Seed(qs, b) \in Range(Of(p)) /\ Seed(qs, a) \in Range(Of(p))
      BY <3>1, <3>4
    <3> QED BY <3>5, <3>6 DEF a, b, P, E
  <2> QED BY <2>1, <2>5, <2>6, <2>7
<1> HIDE DEF Of, places, first, second, E
<1>4. \A k \in 1 .. Steps : Steps + 1 - k \in 1 .. Steps
  BY StepsAssumption
<1>5. lists \in Seq(Seq(E)) /\ DOMAIN lists = 1 .. Steps
  <2> DEFINE T == Seq(E)
  <2>1. \A k \in 1 .. Steps : Of(Steps + 1 - k) \in T
    BY <1>3, <1>4
  <2> HIDE DEF T
  <2>2. lists \in Seq(T)
    BY <2>1, StepsAssumption
  <2> QED BY <2>2 DEF T
<1>6. /\ FlattenSeq(lists) \in Seq(E)
      /\ Range(FlattenSeq(lists)) = UNION {Range(lists[k]) : k \in DOMAIN lists}
  <2> HIDE DEF lists
  <2> QED BY <1>5, FlattenFacts
<1>7. ASSUME NEW entry \in Range(FlattenSeq(lists)) PROVE IsSplit(entry, qs, 1)
  <2>1. PICK k \in 1 .. Steps : entry \in Range(lists[k])
    BY <1>5, <1>6
  <2>2. lists[k] = Of(Steps + 1 - k)
    OBVIOUS
  <2> QED BY <1>3, <1>4, <2>1, <2>2
<1>8. ASSUME NEW p \in 1 .. Steps PROVE Range(Of(p)) \subseteq Range(FlattenSeq(lists))
  <2>1. PICK k \in 1 .. Steps : Steps + 1 - k = p
    <3>1. Steps + 1 - p \in 1 .. Steps /\ Steps + 1 - (Steps + 1 - p) = p
      BY StepsAssumption
    <3> QED BY <3>1
  <2>2. lists[k] = Of(p)
    BY <2>1
  <2> HIDE DEF lists
  <2> QED BY <1>5, <1>6, <2>2
<1>9. \A p \in 1 .. Steps :
        /\ places(p) # {} => Seed(qs, first(p)) \in Range(Seeds(tradeType, qs))
        /\ places(p) \ {first(p)} # {} => Seed(qs, second(p)) \in Range(Seeds(tradeType, qs))
  BY <1>1, <1>3, <1>8
<1> QED BY <1>1, <1>6, <1>7, <1>9 DEF places, first, second, E

\* Where a leg of some size is taken from: the quotes of this size that share no pool with the others.
Candidates(qs, entry, percent) ==
  {i \in Places(qs, percent) : Range(qs[i].route) \intersect PoolsOf(entry.routes) = {}}

\* A split with one more leg.
Longer1(tradeType, qs, entry, percent) ==
  [percentIndex |-> percent,
   routes |-> Append(entry.routes, qs[FirstBest(tradeType, Amounts(qs), Candidates(qs, entry, percent))]),
   remainingPercent |-> entry.remainingPercent - percent]

\* It is one, if there is room and there are candidates.
LEMMA LongerFacts ==
  ASSUME NEW qs, AreQuotes(qs), NEW tradeType, NEW entry \in QueueEntries(qs), NEW percent \in 1 .. Steps,
         percent <= entry.remainingPercent, Candidates(qs, entry, percent) # {}
  PROVE  /\ Longer1(tradeType, qs, entry, percent) \in QueueEntries(qs)
         /\ \A size \in Nat : IsSplit(entry, qs, size) => IsSplit(Longer1(tradeType, qs, entry, percent), qs, size + 1)
<1> DEFINE C == Candidates(qs, entry, percent)
           i == FirstBest(tradeType, Amounts(qs), C)
           new == Longer1(tradeType, qs, entry, percent)
<1>1. /\ entry.percentIndex \in 1 .. Steps /\ entry.routes \in Seq(Range(qs)) /\ entry.remainingPercent \in Nat
      /\ Steps \in Nat
  BY StepsAssumption DEF QueueEntries
<1>2. C \subseteq DOMAIN qs
  BY DEF Candidates, Places
<1>3. i \in C
  <2> HIDE DEF C
  <2> QED BY <1>2, BestPlace, Zenon DEF C
<1>4. /\ i \in DOMAIN qs /\ qs[i].percent = percent
      /\ Range(qs[i].route) \intersect PoolsOf(entry.routes) = {}
  BY <1>3 DEF Candidates, Places
<1> HIDE DEF i
<1> DEFINE q == qs[i]
           more == Append(entry.routes, q)
<1>5. q \in Range(qs) /\ q.percent = percent
  BY <1>4, QuoteTypes
<1> HIDE DEF q
<1>6. more \in Seq(Range(qs)) /\ Len(more) = Len(entry.routes) + 1
  BY <1>1, <1>5
<1>7. new = [percentIndex |-> percent, routes |-> more, remainingPercent |-> entry.remainingPercent - percent]
  BY DEF Longer1, i, q
<1>8. entry.remainingPercent - percent \in Nat
  BY <1>1
<1>9. new \in QueueEntries(qs)
  <2> HIDE DEF more, new
  <2> QED BY <1>1, <1>6, <1>7, <1>8 DEF QueueEntries
<1>10. PercentOf(more) = PercentOf(entry.routes) + percent /\ PercentOf(entry.routes) \in Nat
  <2>1. \A x \in Range(qs) : x.quote \in Nat /\ x.percent \in Nat
    BY QuoteTypes
  <2> QED BY <1>1, <1>5, <2>1, SumFacts
<1>11. ASSUME NoPoolTwice(entry.routes) PROVE NoPoolTwice(more)
  <2>1. Len(entry.routes) \in Nat /\ DOMAIN entry.routes = 1 .. Len(entry.routes)
        /\ DOMAIN more = 1 .. Len(entry.routes) + 1
        /\ more[Len(entry.routes) + 1] = q
        /\ \A k \in 1 .. Len(entry.routes) : more[k] = entry.routes[k]
    BY <1>1, <1>5
  <2>2. \A k \in DOMAIN entry.routes : Range(entry.routes[k].route) \intersect Range(q.route) = {}
    BY <1>4 DEF PoolsOf, q
  <2> HIDE DEF more
  <2>3. SUFFICES ASSUME NEW j \in DOMAIN more, NEW k \in DOMAIN more, j # k
                 PROVE  Range(more[j].route) \intersect Range(more[k].route) = {}
    BY DEF NoPoolTwice
  <2>4. CASE j = Len(entry.routes) + 1
    <3>1. k \in 1 .. Len(entry.routes)
      BY <2>1, <2>3, <2>4
    <3> QED BY <2>1, <2>2, <2>4, <3>1
  <2>5. CASE k = Len(entry.routes) + 1
    <3>1. j \in 1 .. Len(entry.routes)
      BY <2>1, <2>3, <2>5
    <3> QED BY <2>1, <2>2, <2>5, <3>1
  <2>6. CASE j # Len(entry.routes) + 1 /\ k # Len(entry.routes) + 1
    <3>1. j \in 1 .. Len(entry.routes) /\ k \in 1 .. Len(entry.routes)
      BY <2>1, <2>6
    <3> QED BY <1>11, <2>1, <2>3, <3>1 DEF NoPoolTwice
  <2> QED BY <2>4, <2>5, <2>6
<1> HIDE DEF more, new
<1>12. ASSUME NEW size \in Nat, IsSplit(entry, qs, size) PROVE IsSplit(new, qs, size + 1)
  <2>1. Len(entry.routes) = size /\ PercentOf(entry.routes) + entry.remainingPercent = Steps
        /\ NoPoolTwice(entry.routes)
    BY <1>12 DEF IsSplit
  <2>2. new.routes = more /\ new.remainingPercent = entry.remainingPercent - percent
    BY <1>7
  <2>3. PercentOf(more) + (entry.remainingPercent - percent) = Steps
    BY <1>1, <1>10, <2>1
  <2> QED BY <1>6, <1>9, <1>11, <2>1, <2>2, <2>3 DEF IsSplit
<1> QED BY <1>9, <1>12 DEF new

\* The splits with one more leg: one for each size there is room and a candidate for.
LEMMA ExtendedFacts ==
  ASSUME NEW qs, AreQuotes(qs), NEW tradeType, NEW entry \in QueueEntries(qs)
  PROVE  /\ Extended(tradeType, qs, entry) \in Seq(QueueEntries(qs))
         /\ \A x : x \in Range(Extended(tradeType, qs, entry)) <=>
              \E percent \in 1 .. entry.percentIndex :
                /\ percent <= entry.remainingPercent
                /\ Candidates(qs, entry, percent) # {}
                /\ x = Longer1(tradeType, qs, entry, percent)
<1> DEFINE I == entry.percentIndex
           fits(p) == ~(entry.remainingPercent - p < 0 \/ Candidates(qs, entry, p) = {})
           Of(p) == IF fits(p) THEN <<Longer1(tradeType, qs, entry, p)>> ELSE <<>>
           lists == [k \in 1 .. I |-> Of(I + 1 - k)]
           E == QueueEntries(qs)
<1>1. entry.percentIndex \in 1 .. Steps /\ entry.remainingPercent \in Nat /\ Steps \in Nat
  BY StepsAssumption DEF QueueEntries
<1>2. Extended(tradeType, qs, entry) = FlattenSeq(lists)
  BY DEF Extended, Longer1, Candidates
<1>3. ASSUME NEW p \in 1 .. I
      PROVE  /\ Of(p) \in Seq(E)
             /\ \A x : x \in Range(Of(p)) <=>
                  /\ p <= entry.remainingPercent
                  /\ Candidates(qs, entry, p) # {}
                  /\ x = Longer1(tradeType, qs, entry, p)
  <2> DEFINE new == Longer1(tradeType, qs, entry, p)
  <2>1. p \in 1 .. Steps
    BY <1>1
  <2>2. fits(p) <=> p <= entry.remainingPercent /\ Candidates(qs, entry, p) # {}
    BY <1>1, <2>1
  <2>3. CASE fits(p)
    <3>1. new \in E
      BY <2>1, <2>2, <2>3, LongerFacts
    <3> HIDE DEF new, E
    <3>2. Of(p) = <<new>>
      BY <2>3 DEF new
    <3>3. <<new>> \in Seq(E) /\ Range(<<new>>) = {new}
      BY <3>1 DEF Range
    <3> HIDE DEF Of, fits
    <3> QED BY <2>2, <2>3, <3>2, <3>3 DEF new
  <2>4. CASE ~fits(p)
    <3>1. Of(p) = <<>> /\ Range(<<>>) = {}
      BY <2>4 DEF Range
    <3> HIDE DEF Of, fits, E
    <3>2. <<>> \in Seq(E)
      OBVIOUS
    <3> QED BY <2>2, <2>4, <3>1, <3>2
  <2> HIDE DEF fits
  <2> QED BY <2>3, <2>4
<1> HIDE DEF Of, fits, E
<1>4. I \in Nat /\ \A k \in 1 .. I : I + 1 - k \in 1 .. I
  BY <1>1
<1>5. lists \in Seq(Seq(E)) /\ DOMAIN lists = 1 .. I
  <2> DEFINE T == Seq(E)
  <2>1. \A k \in 1 .. I : Of(I + 1 - k) \in T
    BY <1>3, <1>4
  <2> HIDE DEF T
  <2>2. lists \in Seq(T)
    BY <1>4, <2>1
  <2> QED BY <2>2 DEF T
<1>6. /\ FlattenSeq(lists) \in Seq(E)
      /\ Range(FlattenSeq(lists)) = UNION {Range(lists[k]) : k \in DOMAIN lists}
  <2> HIDE DEF lists
  <2> QED BY <1>5, FlattenFacts
<1>7. \A x : x \in Range(FlattenSeq(lists)) <=> \E p \in 1 .. I : x \in Range(Of(p))
  <2>1. TAKE x
  <2>2. ASSUME x \in Range(FlattenSeq(lists)) PROVE \E p \in 1 .. I : x \in Range(Of(p))
    <3>1. PICK k \in 1 .. I : x \in Range(lists[k])
      BY <1>5, <1>6, <2>2
    <3>2. lists[k] = Of(I + 1 - k) /\ I + 1 - k \in 1 .. I
      BY <1>4
    <3> QED BY <3>1, <3>2
  <2>3. ASSUME NEW p \in 1 .. I, x \in Range(Of(p)) PROVE x \in Range(FlattenSeq(lists))
    <3>1. I + 1 - p \in 1 .. I /\ I + 1 - (I + 1 - p) = p
      BY <1>4
    <3>2. PICK k \in 1 .. I : I + 1 - k = p
      BY <3>1
    <3>3. lists[k] = Of(p)
      BY <3>2
    <3> HIDE DEF lists
    <3> QED BY <1>5, <1>6, <2>3, <3>3
  <2> QED BY <2>2, <2>3
<1>8. \A x : x \in Range(FlattenSeq(lists)) <=>
        \E percent \in 1 .. I :
          /\ percent <= entry.remainingPercent
          /\ Candidates(qs, entry, percent) # {}
          /\ x = Longer1(tradeType, qs, entry, percent)
  <2> HIDE DEF lists
  <2> QED BY <1>3, <1>7
<1> QED BY <1>2, <1>6, <1>8 DEF E

\* A turn extends all splits of the queue.
LEMMA NextLayerFacts ==
  ASSUME NEW qs, AreQuotes(qs), NEW tradeType, NEW queue \in Seq(QueueEntries(qs))
  PROVE  /\ NextLayer(tradeType, qs, queue) \in Seq(QueueEntries(qs))
         /\ \A x : x \in Range(NextLayer(tradeType, qs, queue)) <=>
              \E entry \in Range(queue) : x \in Range(Extended(tradeType, qs, entry))
<1> DEFINE E == QueueEntries(qs)
           T == Seq(E)
           lists == [k \in DOMAIN queue |-> Extended(tradeType, qs, queue[k])]
<1>1. Len(queue) \in Nat /\ DOMAIN queue = 1 .. Len(queue) /\ \A k \in DOMAIN queue : queue[k] \in E
  OBVIOUS
<1>2. \A k \in DOMAIN queue : Extended(tradeType, qs, queue[k]) \in T
  <2> HIDE DEF E
  <2> QED BY <1>1, ExtendedFacts DEF E
<1>3. lists \in Seq(Seq(E)) /\ DOMAIN lists = DOMAIN queue
  <2> HIDE DEF T
  <2>1. lists \in Seq(T)
    BY <1>1, <1>2
  <2> QED BY <2>1 DEF T
<1>4. NextLayer(tradeType, qs, queue) = FlattenSeq(lists)
  BY DEF NextLayer
<1>5. \A k \in DOMAIN queue : lists[k] = Extended(tradeType, qs, queue[k])
  OBVIOUS
<1> HIDE DEF lists, E, T
<1>6. /\ FlattenSeq(lists) \in Seq(E)
      /\ Range(FlattenSeq(lists)) = UNION {Range(lists[k]) : k \in DOMAIN lists}
  BY <1>3, FlattenFacts
<1>7. \A x : x \in Range(FlattenSeq(lists)) <=> \E k \in DOMAIN queue : x \in Range(Extended(tradeType, qs, queue[k]))
  BY <1>3, <1>5, <1>6
<1>8. Range(queue) = {queue[k] : k \in DOMAIN queue}
  BY DEF Range
<1> QED BY <1>4, <1>6, <1>7, <1>8 DEF E

\* The queues of all turns, and what was in them.
IsSearch(turns, tradeType, qs, maxSplits) ==
  /\ turns \in [0 .. (maxSplits - 1) -> Seq(QueueEntries(qs))]
  /\ turns[0] = Seeds(tradeType, qs)
  /\ \A n \in 0 .. (maxSplits - 1) - 1 : turns[n + 1] = NextLayer(tradeType, qs, turns[n])
  /\ Found(tradeType, qs, maxSplits) = FlattenSeq([n \in 1 .. maxSplits |-> turns[n - 1]])

\* It is.
LEMMA SearchLoop ==
  ASSUME NEW qs, AreQuotes(qs), NEW tradeType, NEW maxSplits \in Nat \ {0}
  PROVE  \E turns : IsSearch(turns, tradeType, qs, maxSplits)
<1> DEFINE L == (maxSplits - 1)
           T == Seq(QueueEntries(qs))
           start == Seeds(tradeType, qs)
           Round(n, x) == NextLayer(tradeType, qs, x)
           layer[n \in 0 .. L] == IF n = 0 THEN start ELSE Round(n, layer[n - 1])
<1>1. L \in Nat /\ start \in T /\ \A n \in 1 .. L, x \in T : Round(n, x) \in T
  BY SeedsFacts, NextLayerFacts
<1>2. Found(tradeType, qs, maxSplits) = FlattenSeq([n \in 1 .. maxSplits |-> layer[n - 1]])
  BY DEF Found
<1>3. layer = CHOOSE h : h = [n \in 0 .. L |-> IF n = 0 THEN start ELSE Round(n, h[n - 1])]
  BY Zenon
<1> HIDE DEF layer, L, T, start, Round
<1>4. PICK step : step = [p \in (1 .. L) \X T |-> Round(p[1], p[2])]
  OBVIOUS
<1>5. PICK loop : IsLoop(loop, T, start, L, step)
  <2>1. step \in [(1 .. L) \X T -> T]
    <3>1. \A p \in (1 .. L) \X T : p[1] \in 1 .. L /\ p[2] \in T
      OBVIOUS
    <3>2. \A p \in (1 .. L) \X T : Round(p[1], p[2]) \in T
      BY ONLY <1>1, <3>1
    <3> QED BY ONLY <1>4, <3>2
  <2> QED BY ONLY <1>1, <2>1, LoopExists, Zenon
<1>6. /\ loop \in [0 .. L -> T] /\ loop[0] = start
      /\ \A n \in 1 .. L : loop[n] = Round(n, loop[n - 1])
  <2>1. ASSUME NEW n \in 1 .. L PROVE loop[n] = Round(n, loop[n - 1])
    <3>1. n - 1 \in 0 .. L
      BY <1>1
    <3> QED BY <1>4, <1>5, <3>1 DEF IsLoop
  <2> QED BY <1>5, <2>1 DEF IsLoop
<1>7. layer = loop
  <2>1. \A n \in 0 .. L : loop[n] = IF n = 0 THEN start ELSE Round(n, loop[n - 1])
    BY <1>1, <1>6
  <2>2. loop = [n \in 0 .. L |-> IF n = 0 THEN start ELSE Round(n, loop[n - 1])]
    BY <1>6, <2>1
  <2>3. layer = [n \in 0 .. L |-> IF n = 0 THEN start ELSE Round(n, layer[n - 1])]
    BY <1>3, <2>2, Zenon
  <2> DEFINE K == {n \in 0 .. L : layer[n] = loop[n]}
  <2>4. \A n \in 0 .. L : layer[n] = IF n = 0 THEN start ELSE Round(n, layer[n - 1])
    BY <2>3, Zenon
  <2>5. 0 \in K
    BY <1>1, <1>6, <2>4
  <2>6. \A n \in 0 .. L - 1 : n \in K => n + 1 \in K
    <3>1. SUFFICES ASSUME NEW n \in 0 .. L - 1, n \in K PROVE n + 1 \in K
      OBVIOUS
    <3>2. PICK m \in 1 .. L : m = n + 1 /\ m - 1 = n /\ m # 0 /\ m \in 0 .. L
      BY <1>1
    <3>3. layer[m] = Round(m, layer[m - 1]) /\ loop[m] = Round(m, loop[m - 1])
      BY ONLY <1>6, <2>4, <3>2, Zenon
    <3> QED BY <3>1, <3>2, <3>3
  <2> HIDE DEF K
  <2>7. \A n \in 0 .. L : n \in K
    BY ONLY <1>1, <2>5, <2>6, UpToLast
  <2>8. \A n \in 0 .. L : layer[n] = loop[n]
    BY <2>7 DEF K
  <2> QED BY <1>6, <2>3, <2>8
<1>8. \A n \in 0 .. L - 1 : loop[n + 1] = Round(n + 1, loop[n])
  <2>1. TAKE n \in 0 .. L - 1
  <2>2. PICK m \in 1 .. L : m = n + 1 /\ m - 1 = n
    BY <1>1
  <2>3. loop[m] = Round(m, loop[m - 1])
    BY <1>6, Zenon
  <2> QED BY ONLY <2>2, <2>3
<1>9. Found(tradeType, qs, maxSplits) = FlattenSeq([n \in 1 .. maxSplits |-> loop[n - 1]])
  BY <1>2, <1>7
<1>10. IsSearch(loop, tradeType, qs, maxSplits)
  BY <1>6, <1>8, <1>9, Zenon DEF L, T, start, Round, IsSearch
<1> QED BY <1>10

\* All that is found is a split in no more legs than allowed; the seeds and their extensions are found.
LEMMA FoundFacts ==
  ASSUME NEW qs, AreQuotes(qs), NEW tradeType, NEW maxSplits \in Nat \ {0}
  PROVE  /\ Found(tradeType, qs, maxSplits) \in Seq(QueueEntries(qs))
         /\ \A x \in Range(Found(tradeType, qs, maxSplits)) : \E size \in 1 .. maxSplits : IsSplit(x, qs, size)
         /\ Range(Seeds(tradeType, qs)) \subseteq Range(Found(tradeType, qs, maxSplits))
         /\ maxSplits > 1 =>
              \A entry \in Range(Seeds(tradeType, qs)) :
                Range(Extended(tradeType, qs, entry)) \subseteq Range(Found(tradeType, qs, maxSplits))
<1> DEFINE E == QueueEntries(qs)
           L == maxSplits - 1
<1>1. PICK turns : IsSearch(turns, tradeType, qs, maxSplits)
  BY SearchLoop, Zenon
<1>2. L \in Nat /\ \A n \in 1 .. maxSplits : n - 1 \in 0 .. L
  OBVIOUS
<1>3. /\ turns \in [0 .. L -> Seq(E)]
      /\ turns[0] = Seeds(tradeType, qs)
      /\ \A n \in 0 .. L - 1 : turns[n + 1] = NextLayer(tradeType, qs, turns[n])
      /\ Found(tradeType, qs, maxSplits) = FlattenSeq([n \in 1 .. maxSplits |-> turns[n - 1]])
  BY <1>1, Zenon DEF IsSearch
<1> DEFINE lists == [n \in 1 .. maxSplits |-> turns[n - 1]]
<1> HIDE DEF E
<1>4. lists \in Seq(Seq(E)) /\ DOMAIN lists = 1 .. maxSplits
  <2> DEFINE T == Seq(E)
  <2>1. \A n \in 1 .. maxSplits : turns[n - 1] \in T
    BY <1>2, <1>3
  <2> HIDE DEF T
  <2>2. lists \in Seq(T)
    BY <2>1
  <2> QED BY <2>2 DEF T
<1>5. \A n \in 0 .. L : n + 1 \in 1 .. maxSplits /\ lists[n + 1] = turns[n]
  BY <1>2
<1>a. \A n \in 1 .. maxSplits : lists[n] = turns[n - 1]
  OBVIOUS
<1> HIDE DEF L, lists
<1>6. /\ FlattenSeq(lists) \in Seq(E)
      /\ Range(FlattenSeq(lists)) = UNION {Range(lists[n]) : n \in DOMAIN lists}
  BY <1>4, FlattenFacts
<1>7. Found(tradeType, qs, maxSplits) = FlattenSeq(lists)
  BY <1>3 DEF lists
<1> DEFINE K == {n \in 0 .. L : \A x \in Range(turns[n]) : IsSplit(x, qs, n + 1)}
<1>8. 0 \in K
  BY <1>2, <1>3, SeedsFacts
<1>9. \A n \in 0 .. L - 1 : n \in K => n + 1 \in K
  <2>1. SUFFICES ASSUME NEW n \in 0 .. L - 1, n \in K PROVE n + 1 \in K
    OBVIOUS
  <2>2. n \in 0 .. L /\ n + 1 \in 0 .. L /\ n + 1 \in Nat
    BY <1>2
  <2>3. turns[n] \in Seq(E) /\ turns[n + 1] = NextLayer(tradeType, qs, turns[n])
    BY <1>3, <2>2
  <2>4. ASSUME NEW x \in Range(turns[n + 1]) PROVE IsSplit(x, qs, n + 1 + 1)
    <3>1. PICK entry \in Range(turns[n]) : x \in Range(Extended(tradeType, qs, entry))
      BY <2>3, <2>4, NextLayerFacts DEF E
    <3>2. IsSplit(entry, qs, n + 1)
      BY <2>1
    <3>3. entry \in QueueEntries(qs)
      BY <3>2 DEF IsSplit
    <3>4. PICK percent \in 1 .. entry.percentIndex :
            /\ percent <= entry.remainingPercent
            /\ Candidates(qs, entry, percent) # {}
            /\ x = Longer1(tradeType, qs, entry, percent)
      BY <3>1, <3>3, ExtendedFacts
    <3>5. percent \in 1 .. Steps
      BY <3>3, StepsAssumption DEF QueueEntries
    <3> QED BY <2>2, <3>2, <3>3, <3>4, <3>5, LongerFacts
  <2> QED BY <2>2, <2>4
<1>10. \A n \in 0 .. L : n \in K
  <2> HIDE DEF K
  <2> QED BY ONLY <1>2, <1>8, <1>9, UpToLast
<1>11. ASSUME NEW x \in Range(FlattenSeq(lists)) PROVE \E size \in 1 .. maxSplits : IsSplit(x, qs, size)
  <2>1. PICK n \in 1 .. maxSplits : x \in Range(lists[n])
    BY <1>4, <1>6
  <2>2. PICK k \in 0 .. L : k = n - 1 /\ k + 1 = n
    BY <1>2
  <2>3. x \in Range(turns[k])
    BY <1>a, <2>1, <2>2
  <2>4. IsSplit(x, qs, k + 1)
    BY <1>10, <2>3
  <2> QED BY <2>2, <2>4
<1>12. \A n \in 0 .. L : Range(turns[n]) \subseteq Range(FlattenSeq(lists))
  BY <1>4, <1>5, <1>6
<1>13. Range(Seeds(tradeType, qs)) \subseteq Range(FlattenSeq(lists))
  BY <1>2, <1>3, <1>12
<1>14. ASSUME maxSplits > 1, NEW entry \in Range(Seeds(tradeType, qs))
       PROVE  Range(Extended(tradeType, qs, entry)) \subseteq Range(FlattenSeq(lists))
  <2>1. 0 \in 0 .. L - 1 /\ 1 \in 0 .. L /\ 0 \in 0 .. L /\ 0 + 1 = 1
    BY <1>2, <1>14 DEF L
  <2>2. turns[1] = NextLayer(tradeType, qs, turns[0])
    BY <1>3, <2>1
  <2>3. turns[0] \in Seq(QueueEntries(qs))
    BY <1>3, <2>1 DEF E
  <2>4. Range(Extended(tradeType, qs, entry)) \subseteq Range(turns[1])
    BY <1>3, <2>2, <2>3, NextLayerFacts
  <2> QED BY <1>12, <2>1, <2>4
<1> QED BY <1>6, <1>7, <1>11, <1>13, <1>14 DEF E

\* A complete split is a trade.
Complete(entry, minSplits) == entry.remainingPercent = 0 /\ Len(entry.routes) >= minSplits

\* The trade is a complete split that was found, and none that was found is better.
LEMMA BestFacts ==
  ASSUME NEW qs, AreQuotes(qs), NEW tradeType, NEW maxSplits \in Nat, NEW minSplits \in 1 .. maxSplits
  PROVE  LET best == getBestSwapRoute(qs, tradeType, minSplits, maxSplits)
         IN  /\ best # <<>> =>
                  \E entry \in Range(Found(tradeType, qs, maxSplits)) : Complete(entry, minSplits) /\ best = entry.routes
             /\ \A entry \in Range(Found(tradeType, qs, maxSplits)) :
                  Complete(entry, minSplits) =>
                    best # <<>> /\ ~better(tradeType, QuoteOf(entry.routes), QuoteOf(best))
<1> DEFINE found == Found(tradeType, qs, maxSplits)
           complete == {i \in DOMAIN found : found[i].remainingPercent = 0 /\ Len(found[i].routes) >= minSplits}
           amounts == [i \in DOMAIN found |-> QuoteOf(found[i].routes)]
           best == getBestSwapRoute(qs, tradeType, minSplits, maxSplits)
           f == FirstBest(tradeType, amounts, complete)
<1>1. best = IF complete = {} THEN <<>> ELSE found[f].routes
  BY DEF getBestSwapRoute
<1>2. maxSplits \in Nat \ {0}
  OBVIOUS
<1>3. found \in Seq(QueueEntries(qs)) /\ \A x \in Range(found) : \E size \in 1 .. maxSplits : IsSplit(x, qs, size)
  BY <1>2, FoundFacts
<1> HIDE DEF found, best
<1>4. Len(found) \in Nat /\ DOMAIN found = 1 .. Len(found) /\ \A i \in DOMAIN found : found[i] \in Range(found)
  BY <1>3 DEF Range
<1>5. \A i \in DOMAIN found : QuoteOf(found[i].routes) \in Int
  <2>1. TAKE i \in DOMAIN found
  <2>2. found[i].routes \in Seq(Range(qs))
    <3>1. found[i] \in QueueEntries(qs)
      BY <1>3
    <3> QED BY <3>1 DEF QueueEntries
  <2>3. \A q \in Range(qs) : q.quote \in Nat /\ q.percent \in Nat
    BY QuoteTypes
  <2>4. Range(qs) # {}
    <3>1. PICK size \in 1 .. maxSplits : IsSplit(found[i], qs, size)
      BY <1>3, <1>4
    <3>2. Len(found[i].routes) \in Nat \ {0}
      BY <3>1 DEF IsSplit
    <3>3. found[i].routes[1] \in Range(qs)
      BY <2>2, <3>2
    <3> QED BY <3>3
  <2>5. PICK q \in Range(qs) : TRUE
    BY <2>4
  <2>6. QuoteOf(found[i].routes) \in Nat
    BY ONLY <2>2, <2>3, <2>5, SumFacts, Zenon
  <2> QED BY <2>6
<1>6. complete # {} => f \in complete /\ \A j \in complete : ~better(tradeType, amounts[j], amounts[f])
  <2>1. complete \subseteq 1 .. Len(found) /\ \A i \in complete : amounts[i] \in Int
    BY <1>4, <1>5
  <2> HIDE DEF complete, amounts
  <2> QED BY <1>4, <2>1, FirstBestFacts, Zenon
<1>7. \A i \in DOMAIN found : i \in complete <=> Complete(found[i], minSplits)
  BY DEF Complete
<1>8. complete \subseteq DOMAIN found /\ \A i \in DOMAIN found : amounts[i] = QuoteOf(found[i].routes)
  OBVIOUS
<1> HIDE DEF complete, amounts, f
<1>9. ASSUME best # <<>> PROVE \E entry \in Range(found) : Complete(entry, minSplits) /\ best = entry.routes
  <2>1. complete # {} /\ best = found[f].routes
    BY <1>1, <1>9
  <2> QED BY <1>4, <1>6, <1>7, <1>8, <2>1
<1>10. ASSUME NEW entry \in Range(found), Complete(entry, minSplits)
       PROVE  best # <<>> /\ ~better(tradeType, QuoteOf(entry.routes), QuoteOf(best))
  <2>1. PICK i \in DOMAIN found : entry = found[i]
    BY DEF Range
  <2>2. i \in complete
    BY <1>7, <1>10, <2>1
  <2>3. f \in complete /\ ~better(tradeType, amounts[i], amounts[f]) /\ best = found[f].routes
    BY <1>1, <1>6, <2>2, Zenon
  <2>4. amounts[i] = QuoteOf(entry.routes) /\ amounts[f] = QuoteOf(best) /\ f \in DOMAIN found
    BY <1>8, <2>1, <2>3
  <2>5. best # <<>>
    <3>1. PICK size \in 1 .. maxSplits : IsSplit(found[f], qs, size)
      BY <1>3, <1>4, <2>4
    <3> QED BY <2>3, <3>1 DEF IsSplit
  <2> QED BY <2>3, <2>4, <2>5, Zenon
<1> QED BY <1>9, <1>10 DEF found, best

-----------------------------------------------------------------------------
(* Order *)

\* filter keeps the order.
LEMMA OnlyOrdered ==
  ASSUME NEW S, NEW seq \in Seq(S), NEW T, NEW after, Ordered(seq, after)
  PROVE  Ordered(Only(seq, T), after)
<1> DEFINE lists == [i \in DOMAIN seq |-> IF seq[i] \in T THEN <<seq[i]>> ELSE <<>>]
           Q == Seq(S)
<1>1. DOMAIN seq = 1 .. Len(seq) /\ Len(seq) \in Nat /\ \A i \in DOMAIN seq : seq[i] \in S
  OBVIOUS
<1>2. \A i \in DOMAIN seq : lists[i] \in Q
  BY <1>1
<1>3. lists \in Seq(Q) /\ DOMAIN lists = DOMAIN seq
  <2> HIDE DEF Q
  <2> QED BY <1>1, <1>2
<1>4. \A i \in DOMAIN seq : Range(lists[i]) \subseteq {seq[i]} /\ Ordered(lists[i], after)
  <2>1. TAKE i \in DOMAIN seq
  <2>2. CASE seq[i] \in T
    <3>1. lists[i] = <<seq[i]>>
      BY <2>2
    <3>2. Range(<<seq[i]>>) = {seq[i]} /\ Ordered(<<seq[i]>>, after)
      BY DEF Range, Ordered
    <3> QED BY <3>1, <3>2
  <2>3. CASE seq[i] \notin T
    <3>1. lists[i] = <<>>
      BY <2>3
    <3>2. Range(<<>>) = {} /\ Ordered(<<>>, after)
      BY DEF Range, Ordered
    <3> QED BY <3>1, <3>2
  <2> QED BY <2>2, <2>3
<1>5. Only(seq, T) = FlattenSeq(lists)
  BY DEF Only
<1> HIDE DEF lists, Q
<1>6. \A i, j \in DOMAIN lists : i < j => \A x \in Range(lists[i]), y \in Range(lists[j]) : y \in after[x]
  BY <1>3, <1>4 DEF Ordered
<1>7. \A i \in DOMAIN lists : Ordered(lists[i], after)
  BY <1>3, <1>4
<1>8. lists \in Seq(Seq(S))
  BY <1>3 DEF Q
<1>9. Ordered(FlattenSeq(lists), after)
  BY <1>6, <1>7, <1>8, FlattenOrdered
<1> QED BY <1>5, <1>9

-----------------------------------------------------------------------------
(* The search for routes *)

\* What is known of pools.
ArePools(pools) == pools \in Seq(Range(pools)) /\ \A i \in DOMAIN pools : pools[i].depth \in Nat

\* The tokens that a path may reach.
Tokens(pools) == {tokenIn} \union UNION {{pools[i].token0, pools[i].token1} : i \in DOMAIN pools}

\* The tokens a path goes through.
IsTrail(trail, pools, path) ==
  /\ trail \in [0 .. Len(path) -> Tokens(pools)]
  /\ trail[0] = tokenIn
  /\ \A n \in 0 .. Len(path) - 1 : trail[n + 1] = nextToken(pools[path[n + 1]], trail[n])
  /\ TokenAfter(pools, path) = trail[Len(path)]

\* It is.
LEMMA TrailExists ==
  ASSUME NEW pools, ArePools(pools), NEW path \in Seq(DOMAIN pools)
  PROVE  \E trail : IsTrail(trail, pools, path)
<1> DEFINE L == Len(path)
           T == Tokens(pools)
           start == tokenIn
           Round(n, x) == nextToken(pools[path[n]], x)
           stops[n \in 0 .. L] == IF n = 0 THEN start ELSE Round(n, stops[n - 1])
<1>1. L \in Nat /\ start \in T /\ \A n \in 1 .. L, x \in T : Round(n, x) \in T
  BY DEF ArePools, Tokens, nextToken
<1>2. TokenAfter(pools, path) = stops[L]
  BY DEF TokenAfter
<1>3. stops = CHOOSE h : h = [n \in 0 .. L |-> IF n = 0 THEN start ELSE Round(n, h[n - 1])]
  BY Zenon
<1> HIDE DEF stops, L, T, start, Round
<1>4. PICK step : step = [p \in (1 .. L) \X T |-> Round(p[1], p[2])]
  OBVIOUS
<1>5. PICK loop : IsLoop(loop, T, start, L, step)
  <2>1. step \in [(1 .. L) \X T -> T]
    <3>1. \A p \in (1 .. L) \X T : p[1] \in 1 .. L /\ p[2] \in T
      OBVIOUS
    <3>2. \A p \in (1 .. L) \X T : Round(p[1], p[2]) \in T
      BY ONLY <1>1, <3>1
    <3> QED BY ONLY <1>4, <3>2
  <2> QED BY ONLY <1>1, <2>1, LoopExists, Zenon
<1>6. /\ loop \in [0 .. L -> T] /\ loop[0] = start
      /\ \A n \in 1 .. L : loop[n] = Round(n, loop[n - 1])
  <2>1. ASSUME NEW n \in 1 .. L PROVE loop[n] = Round(n, loop[n - 1])
    <3>1. n - 1 \in 0 .. L
      BY <1>1
    <3> QED BY <1>4, <1>5, <3>1 DEF IsLoop
  <2> QED BY <1>5, <2>1 DEF IsLoop
<1>7. stops = loop
  <2>1. \A n \in 0 .. L : loop[n] = IF n = 0 THEN start ELSE Round(n, loop[n - 1])
    BY <1>1, <1>6
  <2>2. loop = [n \in 0 .. L |-> IF n = 0 THEN start ELSE Round(n, loop[n - 1])]
    BY <1>6, <2>1
  <2>3. stops = [n \in 0 .. L |-> IF n = 0 THEN start ELSE Round(n, stops[n - 1])]
    BY <1>3, <2>2, Zenon
  <2> DEFINE K == {n \in 0 .. L : stops[n] = loop[n]}
  <2>4. \A n \in 0 .. L : stops[n] = IF n = 0 THEN start ELSE Round(n, stops[n - 1])
    BY <2>3, Zenon
  <2>5. 0 \in K
    BY <1>1, <1>6, <2>4
  <2>6. \A n \in 0 .. L - 1 : n \in K => n + 1 \in K
    <3>1. SUFFICES ASSUME NEW n \in 0 .. L - 1, n \in K PROVE n + 1 \in K
      OBVIOUS
    <3>2. PICK m \in 1 .. L : m = n + 1 /\ m - 1 = n /\ m # 0 /\ m \in 0 .. L
      BY <1>1
    <3>3. stops[m] = Round(m, stops[m - 1]) /\ loop[m] = Round(m, loop[m - 1])
      BY ONLY <1>6, <2>4, <3>2, Zenon
    <3> QED BY <3>1, <3>2, <3>3
  <2> HIDE DEF K
  <2>7. \A n \in 0 .. L : n \in K
    BY ONLY <1>1, <2>5, <2>6, UpToLast
  <2>8. \A n \in 0 .. L : stops[n] = loop[n]
    BY <2>7 DEF K
  <2> QED BY <1>6, <2>3, <2>8
<1>8. \A n \in 0 .. L - 1 : loop[n + 1] = Round(n + 1, loop[n])
  <2>1. TAKE n \in 0 .. L - 1
  <2>2. PICK m \in 1 .. L : m = n + 1 /\ m - 1 = n
    BY <1>1
  <2>3. loop[m] = Round(m, loop[m - 1])
    BY <1>6, Zenon
  <2> QED BY ONLY <2>2, <2>3
<1>9. TokenAfter(pools, path) = loop[L]
  BY <1>2, <1>7
<1>10. IsTrail(loop, pools, path)
  BY <1>6, <1>8, <1>9, Zenon DEF L, T, start, Round, IsTrail
<1> QED BY <1>10

\* Each pool of a path is between two tokens, and no pool is entered at tokenOut.
Leads(stops, pools, path) ==
  /\ stops \in [0 .. Len(path) -> Tokens(pools)]
  /\ stops[0] = tokenIn
  /\ \A k \in 1 .. Len(path) :
       /\ stops[k - 1] # tokenOut
       /\ {stops[k - 1], stops[k]} = {pools[path[k]].token0, pools[path[k]].token1}

\* What the search is for, not counting where it ends.
IsPartial(pools, path) ==
  /\ path \in Seq(DOMAIN pools)
  /\ IsInjective(path)
  /\ \E stops : Leads(stops, pools, path)

\* There is only one way through the tokens.
LEMMA LeadsTo ==
  ASSUME NEW pools, ArePools(pools), NEW path \in Seq(DOMAIN pools), NEW stops, Leads(stops, pools, path)
  PROVE  TokenAfter(pools, path) = stops[Len(path)]
<1> DEFINE L == Len(path)
<1>1. L \in Nat
  OBVIOUS
<1>2. PICK trail : IsTrail(trail, pools, path)
  BY TrailExists, Zenon
<1> HIDE DEF L
<1> DEFINE K == {n \in 0 .. L : stops[n] = trail[n]}
<1>3. 0 \in K
  BY <1>1, <1>2 DEF Leads, IsTrail
<1>4. \A n \in 0 .. L - 1 : n \in K => n + 1 \in K
  <2>1. SUFFICES ASSUME NEW n \in 0 .. L - 1, n \in K PROVE n + 1 \in K
    OBVIOUS
  <2>2. PICK k \in 1 .. L : k = n + 1 /\ k - 1 = n /\ k \in 0 .. L
    BY <1>1
  <2>3. {stops[k - 1], stops[k]} = {pools[path[k]].token0, pools[path[k]].token1}
    BY <2>2 DEF Leads, L
  <2>4. {stops[n], stops[k]} = {pools[path[k]].token0, pools[path[k]].token1}
    BY <2>2, <2>3
  <2>5. trail[k] = nextToken(pools[path[k]], trail[n])
    BY <1>2, <2>2 DEF IsTrail, L
  <2>6. stops[n] = trail[n]
    BY <2>1
  <2>7. stops[k] = trail[k]
    BY <2>4, <2>5, <2>6 DEF nextToken
  <2> QED BY <2>2, <2>7
<1>5. L \in K
  <2> HIDE DEF K
  <2>1. \A n \in 0 .. L : n \in K
    BY ONLY <1>1, <1>3, <1>4, UpToLast
  <2> QED BY <1>1, <2>1
<1> QED BY <1>2, <1>5 DEF IsTrail, L

\* One pool more.
LEMMA TokenAfterOneMore ==
  ASSUME NEW pools, ArePools(pools), NEW path \in Seq(DOMAIN pools), NEW i \in DOMAIN pools
  PROVE  TokenAfter(pools, Append(path, i)) = nextToken(pools[i], TokenAfter(pools, path))
<1> DEFINE L == Len(path)
           more == Append(path, i)
<1>1. /\ L \in Nat /\ more \in Seq(DOMAIN pools) /\ Len(more) = L + 1
      /\ more[L + 1] = i /\ \A n \in 1 .. L : more[n] = path[n]
  OBVIOUS
<1> HIDE DEF more
<1>2. PICK a : IsTrail(a, pools, path)
  BY TrailExists, Zenon
<1>3. PICK b : IsTrail(b, pools, more)
  BY <1>1, TrailExists, Zenon
<1>4. /\ a[0] = tokenIn /\ TokenAfter(pools, path) = a[L]
      /\ \A n \in 0 .. L - 1 : a[n + 1] = nextToken(pools[path[n + 1]], a[n])
  BY <1>2 DEF IsTrail
<1>5. /\ b[0] = tokenIn /\ TokenAfter(pools, more) = b[L + 1]
      /\ \A n \in 0 .. L : b[n + 1] = nextToken(pools[more[n + 1]], b[n])
  <2>1. Len(more) - 1 = L
    BY <1>1
  <2> QED BY <1>1, <1>3, <2>1 DEF IsTrail
<1> HIDE DEF L
<1> DEFINE K == {n \in 0 .. L : a[n] = b[n]}
<1>6. 0 \in K
  BY <1>1, <1>4, <1>5
<1>7. \A n \in 0 .. L - 1 : n \in K => n + 1 \in K
  <2>1. SUFFICES ASSUME NEW n \in 0 .. L - 1, n \in K PROVE n + 1 \in K
    OBVIOUS
  <2>2. n \in 0 .. L /\ n + 1 \in 0 .. L /\ n + 1 \in 1 .. L
    BY <1>1
  <2>3. more[n + 1] = path[n + 1] /\ a[n] = b[n]
    BY <1>1, <2>1, <2>2
  <2>4. a[n + 1] = nextToken(pools[path[n + 1]], a[n]) /\ b[n + 1] = nextToken(pools[more[n + 1]], b[n])
    BY <1>4, <1>5, <2>2
  <2> QED BY <2>2, <2>3, <2>4
<1>8. L \in K
  <2> HIDE DEF K
  <2>1. \A n \in 0 .. L : n \in K
    BY ONLY <1>1, <1>6, <1>7, UpToLast
  <2> QED BY <1>1, <2>1
<1>9. b[L + 1] = nextToken(pools[more[L + 1]], b[L])
  <2>1. L \in 0 .. L
    BY <1>1
  <2> QED BY <1>5, <2>1, Zenon
<1>10. a[L] = b[L]
  BY <1>8
<1> QED BY <1>1, <1>4, <1>5, <1>9, <1>10 DEF more

\* A partial path of some length is one that is a pool shorter, and a pool that can follow.
LEMMA PartialOneMore ==
  ASSUME NEW pools, ArePools(pools), NEW path \in Seq(DOMAIN pools), NEW i \in DOMAIN pools
  PROVE  IsPartial(pools, Append(path, i)) <=>
           /\ IsPartial(pools, path)
           /\ TokenAfter(pools, path) # tokenOut
           /\ i \notin Range(path)
           /\ involvesToken(pools[i], TokenAfter(pools, path))
<1> DEFINE L == Len(path)
           more == Append(path, i)
           here == TokenAfter(pools, path)
<1>1. /\ L \in Nat /\ more \in Seq(DOMAIN pools) /\ Len(more) = L + 1
      /\ DOMAIN path = 1 .. L /\ DOMAIN more = 1 .. L + 1
      /\ more[L + 1] = i /\ \A n \in 1 .. L : more[n] = path[n]
  OBVIOUS
<1> HIDE DEF more, L
<1>2. IsInjective(more) <=> IsInjective(path) /\ i \notin Range(path)
  <2>1. ASSUME IsInjective(more) PROVE IsInjective(path) /\ i \notin Range(path)
    <3>1. L + 1 \in 1 .. L + 1 /\ \A n \in 1 .. L : n \in 1 .. L + 1 /\ n # L + 1
      BY <1>1
    <3>2. IsInjective(path)
      BY <1>1, <2>1, <3>1 DEF IsInjective
    <3>3. i \notin Range(path)
      BY <1>1, <2>1, <3>1 DEF IsInjective, Range
    <3> QED BY <3>2, <3>3
  <2>2. ASSUME IsInjective(path), i \notin Range(path) PROVE IsInjective(more)
    <3>1. SUFFICES ASSUME NEW a \in 1 .. L + 1, NEW b \in 1 .. L + 1, more[a] = more[b] PROVE a = b
      BY <1>1 DEF IsInjective
    <3>2. \A n \in 1 .. L + 1 : n = L + 1 \/ n \in 1 .. L
      BY <1>1
    <3>3. \A n \in 1 .. L : more[n] \in Range(path)
      BY <1>1 DEF Range
    <3>4. CASE a = L + 1
      BY <1>1, <2>2, <3>1, <3>2, <3>3, <3>4
    <3>5. CASE b = L + 1
      BY <1>1, <2>2, <3>1, <3>2, <3>3, <3>5
    <3>6. CASE a \in 1 .. L /\ b \in 1 .. L
      BY <1>1, <2>2, <3>1, <3>6 DEF IsInjective
    <3> QED BY <3>2, <3>4, <3>5, <3>6
  <2> QED BY <2>1, <2>2
<1>3. ASSUME NEW stops, Leads(stops, pools, more)
      PROVE  /\ \E shorter : Leads(shorter, pools, path)
             /\ here # tokenOut /\ involvesToken(pools[i], here)
  <2> DEFINE shorter == [n \in 0 .. L |-> stops[n]]
  <2>1. /\ stops \in [0 .. L + 1 -> Tokens(pools)] /\ stops[0] = tokenIn
        /\ \A k \in 1 .. L + 1 : /\ stops[k - 1] # tokenOut
                                 /\ {stops[k - 1], stops[k]} = {pools[more[k]].token0, pools[more[k]].token1}
    BY <1>1, <1>3 DEF Leads
  <2>2. /\ shorter \in [0 .. L -> Tokens(pools)] /\ shorter[0] = tokenIn
        /\ \A n \in 0 .. L : shorter[n] = stops[n]
    BY <1>1, <2>1
  <2> HIDE DEF shorter
  <2>3. ASSUME NEW k \in 1 .. L
        PROVE  /\ shorter[k - 1] # tokenOut
               /\ {shorter[k - 1], shorter[k]} = {pools[path[k]].token0, pools[path[k]].token1}
    <3>1. PICK j \in 0 .. L : j = k - 1 /\ k \in 1 .. L + 1 /\ k \in 0 .. L
      BY <1>1
    <3>2. more[k] = path[k] /\ shorter[j] = stops[j] /\ shorter[k] = stops[k]
      BY <1>1, <2>2, <3>1
    <3> QED BY <2>1, <3>1, <3>2
  <2>4. Leads(shorter, pools, path)
    BY <2>2, <2>3 DEF Leads, L
  <2>5. here = shorter[L]
    BY <2>4, LeadsTo DEF L
  <2>6. PICK k \in 1 .. L + 1 : k = L + 1 /\ k - 1 = L /\ L \in 0 .. L
    BY <1>1
  <2>7. stops[L] # tokenOut /\ {stops[L], stops[k]} = {pools[i].token0, pools[i].token1}
    BY <1>1, <2>1, <2>6
  <2>8. here = stops[L]
    BY <2>2, <2>5, <2>6
  <2> QED BY <2>4, <2>7, <2>8 DEF involvesToken
<1>4. ASSUME NEW stops, Leads(stops, pools, path), here # tokenOut, involvesToken(pools[i], here)
      PROVE  \E longer : Leads(longer, pools, more)
  <2> DEFINE longer == [n \in 0 .. L + 1 |-> IF n = L + 1 THEN nextToken(pools[i], here) ELSE stops[n]]
  <2>1. /\ stops \in [0 .. L -> Tokens(pools)] /\ stops[0] = tokenIn
        /\ \A k \in 1 .. L : /\ stops[k - 1] # tokenOut
                             /\ {stops[k - 1], stops[k]} = {pools[path[k]].token0, pools[path[k]].token1}
    BY <1>4 DEF Leads, L
  <2>2. here = stops[L]
    BY <1>4, LeadsTo DEF L
  <2>3. nextToken(pools[i], here) \in Tokens(pools)
        /\ {here, nextToken(pools[i], here)} = {pools[i].token0, pools[i].token1}
    BY <1>4 DEF nextToken, involvesToken, Tokens
  <2>4. longer \in [0 .. L + 1 -> Tokens(pools)]
    <3>1. \A n \in 0 .. L + 1 : n # L + 1 => n \in 0 .. L
      BY <1>1
    <3> QED BY <2>1, <2>3, <3>1
  <2>5. longer[L + 1] = nextToken(pools[i], here) /\ \A n \in 0 .. L : longer[n] = stops[n]
    BY <1>1
  <2> HIDE DEF longer
  <2>6. longer[0] = tokenIn
    BY <1>1, <2>1, <2>5
  <2>7. ASSUME NEW k \in 1 .. L + 1
        PROVE  /\ longer[k - 1] # tokenOut
               /\ {longer[k - 1], longer[k]} = {pools[more[k]].token0, pools[more[k]].token1}
    <3>1. PICK j \in 0 .. L : j = k - 1
      BY <1>1
    <3>2. CASE k = L + 1
      <4>1. j = L /\ longer[j] = here /\ longer[k] = nextToken(pools[i], here) /\ more[k] = i
        BY <1>1, <2>2, <2>5, <3>1, <3>2
      <4> QED BY <1>4, <2>3, <3>1, <4>1
    <3>3. CASE k # L + 1
      <4>1. k \in 1 .. L /\ k \in 0 .. L
        BY <1>1, <3>3
      <4>2. longer[j] = stops[j] /\ longer[k] = stops[k] /\ more[k] = path[k]
        BY <1>1, <2>5, <4>1
      <4> QED BY <2>1, <3>1, <4>1, <4>2
    <3> QED BY <3>2, <3>3
  <2>8. Leads(longer, pools, more)
    BY <1>1, <2>4, <2>6, <2>7 DEF Leads
  <2> QED BY <2>8
<1> HIDE DEF here
<1>5. IsPartial(pools, more) => /\ IsPartial(pools, path) /\ here # tokenOut /\ i \notin Range(path)
                               /\ involvesToken(pools[i], here)
  BY <1>2, <1>3, Zenon DEF IsPartial
<1>6. (/\ IsPartial(pools, path) /\ here # tokenOut /\ i \notin Range(path)
       /\ involvesToken(pools[i], here)) => IsPartial(pools, more)
  BY <1>1, <1>2, <1>4, Zenon DEF IsPartial
<1> QED BY <1>5, <1>6, Zenon DEF more, here

\* Nothing comes twice when all that comes later is something else.
Others(S) == [x \in S |-> S \ {x}]

\* Order by difference: no element comes twice.
LEMMA OrderedOthers ==
  ASSUME NEW S, NEW s \in Seq(S)
  PROVE  Ordered(s, Others(S)) <=> IsInjective(s)
<1>1. \A i \in DOMAIN s : s[i] \in S /\ Others(S)[s[i]] = S \ {s[i]}
  BY DEF Others
<1>2. ASSUME Ordered(s, Others(S)) PROVE IsInjective(s)
  <2>1. SUFFICES ASSUME NEW m \in DOMAIN s, NEW n \in DOMAIN s, m # n PROVE s[m] # s[n]
    BY DEF IsInjective
  <2>2. \A a, b \in DOMAIN s : a < b => s[b] # s[a]
    BY <1>1, <1>2 DEF Ordered
  <2>3. m < n \/ n < m
    <3>1. DOMAIN s = 1 .. Len(s) /\ Len(s) \in Nat
      OBVIOUS
    <3> QED BY <2>1, <3>1
  <2> QED BY <2>2, <2>3
<1>3. ASSUME IsInjective(s) PROVE Ordered(s, Others(S))
  <2>1. SUFFICES ASSUME NEW m \in DOMAIN s, NEW n \in DOMAIN s, m < n PROVE s[n] \in S \ {s[m]}
    BY <1>1 DEF Ordered
  <2>2. m # n
    <3>1. DOMAIN s = 1 .. Len(s) /\ Len(s) \in Nat
      OBVIOUS
    <3> QED BY <2>1, <3>1
  <2> QED BY <1>1, <1>3, <2>2 DEF IsInjective
<1> QED BY <1>2, <1>3

\* The pools that can follow a path.
Follows(pools, path) ==
  {i \in DOMAIN pools : i \notin Range(path) /\ involvesToken(pools[i], TokenAfter(pools, path))}

\* A path goes on with each of these, and no other; with none after it has arrived.
LEMMA OnwardFacts ==
  ASSUME NEW pools, ArePools(pools), NEW path \in Seq(DOMAIN pools)
  PROVE  /\ Onward(pools, path) \in Seq(Seq(DOMAIN pools))
         /\ \A x : x \in Range(Onward(pools, path)) <=>
              ~Arrived(pools, path) /\ \E i \in Follows(pools, path) : x = Append(path, i)
         /\ Ordered(Onward(pools, path), Others(Seq(DOMAIN pools)))
<1> DEFINE D == DOMAIN pools
           all == [i \in D |-> i]
           usable == Only(all, Follows(pools, path))
           P == Seq(D)
<1>1. D = 1 .. Len(pools) /\ Len(pools) \in Nat
  BY DEF ArePools
<1>2. all \in Seq(D) /\ Range(all) = D /\ IsInjective(all)
  BY <1>1 DEF Range, IsInjective
<1>3. usable \in Seq(D) /\ Range(usable) = Follows(pools, path)
  <2>1. Follows(pools, path) \subseteq D
    BY DEF Follows
  <2>2. usable \in Seq(D) /\ Range(usable) = Range(all) \intersect Follows(pools, path)
    BY <1>2, OnlyFacts
  <2> QED BY <1>2, <2>1, <2>2
<1>4. IsInjective(usable)
  <2>1. Ordered(usable, Others(D))
    BY <1>2, OrderedOthers, OnlyOrdered
  <2> QED BY <1>3, <2>1, OrderedOthers
<1>5. Onward(pools, path) = IF Arrived(pools, path) THEN <<>> ELSE [n \in DOMAIN usable |-> Append(path, usable[n])]
  BY DEF Onward, Follows
<1>6. CASE Arrived(pools, path)
  <2>1. Onward(pools, path) = <<>>
    BY <1>5, <1>6
  <2>2. Range(<<>>) = {}
    BY DEF Range
  <2>3. Ordered(<<>>, Others(P))
    BY DEF Ordered
  <2>4. <<>> \in Seq(P)
    OBVIOUS
  <2> QED BY <1>6, <2>1, <2>2, <2>3, <2>4
<1>7. CASE ~Arrived(pools, path)
  <2> DEFINE more == [n \in DOMAIN usable |-> Append(path, usable[n])]
  <2>1. Onward(pools, path) = more
    BY <1>5, <1>7
  <2>2. DOMAIN usable = 1 .. Len(usable) /\ Len(usable) \in Nat /\ \A n \in DOMAIN usable : usable[n] \in D
    BY <1>3
  <2> HIDE DEF usable
  <2>3. \A i \in D : Append(path, i) \in P
    OBVIOUS
  <2> HIDE DEF P
  <2>4. more \in Seq(P)
    BY <2>2, <2>3
  <2>5. \A x : x \in Range(more) <=> \E i \in Range(usable) : x = Append(path, i)
    BY DEF Range
  <2>6. IsInjective(more)
    <3>1. SUFFICES ASSUME NEW m \in DOMAIN usable, NEW n \in DOMAIN usable, Append(path, usable[m]) = Append(path, usable[n])
                   PROVE m = n
      BY DEF IsInjective
    <3>2. usable[m] = usable[n]
      <4>1. \A i \in D : Append(path, i)[Len(path) + 1] = i
        OBVIOUS
      <4> QED BY <2>2, <3>1, <4>1
    <3> QED BY <1>4, <3>2 DEF IsInjective
  <2>7. Ordered(more, Others(P))
    BY <2>4, <2>6, OrderedOthers
  <2> QED BY <1>3, <1>7, <2>1, <2>4, <2>5, <2>7 DEF P
<1> QED BY <1>6, <1>7

\* So does each path of a list, in turn.
LEMMA LongerTypes ==
  ASSUME NEW pools, ArePools(pools), NEW paths \in Seq(Seq(DOMAIN pools))
  PROVE  /\ Longer(pools, paths) \in Seq(Seq(DOMAIN pools))
         /\ \A x : x \in Range(Longer(pools, paths)) <=>
              \E path \in Range(paths) :
                ~Arrived(pools, path) /\ \E i \in Follows(pools, path) : x = Append(path, i)
         /\ IsInjective(paths) => IsInjective(Longer(pools, paths))
<1> DEFINE P == Seq(DOMAIN pools)
           seqs == [k \in DOMAIN paths |-> Onward(pools, paths[k])]
<1>1. Longer(pools, paths) = FlattenSeq(seqs)
  BY DEF Longer
<1>2. \A k \in DOMAIN paths : paths[k] \in P
  OBVIOUS
<1>3. \A k \in DOMAIN paths :
        /\ Onward(pools, paths[k]) \in Seq(P)
        /\ \A x : x \in Range(Onward(pools, paths[k])) <=>
             ~Arrived(pools, paths[k]) /\ \E i \in Follows(pools, paths[k]) : x = Append(paths[k], i)
        /\ Ordered(Onward(pools, paths[k]), Others(P))
  BY <1>2, OnwardFacts
<1>4. DOMAIN paths = 1 .. Len(paths) /\ Len(paths) \in Nat
  OBVIOUS
<1>5. \A path \in P, i \in DOMAIN pools : Append(path, i) \in P
  OBVIOUS
<1>6. \A a, b \in P : \A i, j \in DOMAIN pools : Append(a, i) = Append(b, j) => a = b
  <2>1. SUFFICES ASSUME NEW a \in P, NEW b \in P, NEW i \in DOMAIN pools, NEW j \in DOMAIN pools, Append(a, i) = Append(b, j)
                 PROVE a = b
    OBVIOUS
  <2>2. Len(a) = Len(b)
    <3>1. Len(Append(a, i)) = Len(a) + 1 /\ Len(Append(b, j)) = Len(b) + 1 /\ Len(a) \in Nat /\ Len(b) \in Nat
      OBVIOUS
    <3> QED BY <2>1, <3>1
  <2>3. \A n \in 1 .. Len(a) : a[n] = b[n]
    <3>1. \A n \in 1 .. Len(a) : Append(a, i)[n] = a[n]
      OBVIOUS
    <3>2. \A n \in 1 .. Len(b) : Append(b, j)[n] = b[n]
      OBVIOUS
    <3> QED BY <2>1, <2>2, <3>1, <3>2
  <2> QED BY <2>2, <2>3
<1>7. \A path : Follows(pools, path) \subseteq DOMAIN pools
  BY DEF Follows
<1> HIDE DEF P
<1>8. seqs \in Seq(Seq(P)) /\ DOMAIN seqs = DOMAIN paths /\ \A k \in DOMAIN paths : seqs[k] = Onward(pools, paths[k])
  <2> DEFINE T == Seq(P)
  <2>1. \A k \in DOMAIN paths : Onward(pools, paths[k]) \in T
    BY <1>3
  <2> HIDE DEF T
  <2>2. seqs \in Seq(T)
    BY ONLY <1>4, <2>1
  <2> QED BY <2>2 DEF T
<1> HIDE DEF seqs
<1>9. FlattenSeq(seqs) \in Seq(P) /\ Range(FlattenSeq(seqs)) = UNION {Range(seqs[k]) : k \in DOMAIN seqs}
  BY <1>8, FlattenFacts
<1>10. \A x : x \in Range(FlattenSeq(seqs)) <=> \E k \in DOMAIN paths : x \in Range(Onward(pools, paths[k]))
  BY <1>8, <1>9
<1>11. \A x : x \in Range(FlattenSeq(seqs)) <=>
         \E k \in DOMAIN paths : ~Arrived(pools, paths[k]) /\ \E i \in Follows(pools, paths[k]) : x = Append(paths[k], i)
  <2>1. SUFFICES ASSUME NEW x
                 PROVE x \in Range(FlattenSeq(seqs)) <=>
                   \E k \in DOMAIN paths : ~Arrived(pools, paths[k]) /\ \E i \in Follows(pools, paths[k]) : x = Append(paths[k], i)
    OBVIOUS
  <2>2. \A k \in DOMAIN paths : x \in Range(Onward(pools, paths[k])) <=>
          (~Arrived(pools, paths[k]) /\ \E i \in Follows(pools, paths[k]) : x = Append(paths[k], i))
    BY <1>3, Zenon
  <2>3. x \in Range(FlattenSeq(seqs)) <=> \E k \in DOMAIN paths : x \in Range(Onward(pools, paths[k]))
    BY <1>10
  <2> QED BY ONLY <2>2, <2>3, Zenon
<1>12. \A x : x \in Range(FlattenSeq(seqs)) <=>
         \E path \in Range(paths) : ~Arrived(pools, path) /\ \E i \in Follows(pools, path) : x = Append(path, i)
  BY <1>11, Zenon DEF Range
<1>13. ASSUME IsInjective(paths) PROVE IsInjective(FlattenSeq(seqs))
  <2>1. ASSUME NEW i \in DOMAIN seqs, NEW j \in DOMAIN seqs, i < j, NEW x \in Range(seqs[i]), NEW y \in Range(seqs[j])
        PROVE  y \in Others(P)[x]
    <3>1. PICK a \in Follows(pools, paths[i]) : x = Append(paths[i], a)
      BY <1>3, <1>8, <2>1
    <3>2. PICK b \in Follows(pools, paths[j]) : y = Append(paths[j], b)
      BY <1>3, <1>8, <2>1
    <3>3. i # j /\ paths[i] # paths[j]
      BY <1>4, <1>8, <1>13, <2>1 DEF IsInjective
    <3>4. x # y /\ x \in P /\ y \in P
      BY <1>2, <1>5, <1>6, <1>7, <1>8, <3>1, <3>2, <3>3
    <3> QED BY <3>4 DEF Others
  <2>2. \A i \in DOMAIN seqs : Ordered(seqs[i], Others(P))
    BY <1>3, <1>8
  <2>3. Ordered(FlattenSeq(seqs), Others(P))
    BY <1>8, <2>1, <2>2, FlattenOrdered
  <2> QED BY <1>9, <2>3, OrderedOthers
<1> QED BY <1>1, <1>9, <1>12, <1>13 DEF P

\* All turns of the search.
IsWalk(layers, pools) ==
  /\ layers \in [0 .. maxHops -> Seq(Seq(DOMAIN pools))]
  /\ layers[0] = <<<<>>>>
  /\ \A n \in 0 .. maxHops - 1 : layers[n + 1] = Longer(pools, layers[n])
  /\ Walk(pools) = layers

\* It is.
LEMMA WalkExists ==
  ASSUME NEW pools, ArePools(pools)
  PROVE  \E layers : IsWalk(layers, pools)
<1> DEFINE L == maxHops
           T == Seq(Seq(DOMAIN pools))
           start == <<<<>>>>
           Round(n, x) == Longer(pools, x)
           layer[n \in 0 .. L] == IF n = 0 THEN start ELSE Round(n, layer[n - 1])
<1>1. L \in Nat /\ start \in T /\ \A n \in 1 .. L, x \in T : Round(n, x) \in T
  BY SearchAssumption, LongerTypes
<1>2. Walk(pools) = layer
  BY DEF Walk
<1>3. layer = CHOOSE h : h = [n \in 0 .. L |-> IF n = 0 THEN start ELSE Round(n, h[n - 1])]
  BY Zenon
<1> HIDE DEF layer, L, T, start, Round
<1>4. PICK step : step = [p \in (1 .. L) \X T |-> Round(p[1], p[2])]
  OBVIOUS
<1>5. PICK loop : IsLoop(loop, T, start, L, step)
  <2>1. step \in [(1 .. L) \X T -> T]
    <3>1. \A p \in (1 .. L) \X T : p[1] \in 1 .. L /\ p[2] \in T
      OBVIOUS
    <3>2. \A p \in (1 .. L) \X T : Round(p[1], p[2]) \in T
      BY ONLY <1>1, <3>1
    <3> QED BY ONLY <1>4, <3>2
  <2> QED BY ONLY <1>1, <2>1, LoopExists, Zenon
<1>6. /\ loop \in [0 .. L -> T] /\ loop[0] = start
      /\ \A n \in 1 .. L : loop[n] = Round(n, loop[n - 1])
  <2>1. ASSUME NEW n \in 1 .. L PROVE loop[n] = Round(n, loop[n - 1])
    <3>1. n - 1 \in 0 .. L
      BY <1>1
    <3> QED BY <1>4, <1>5, <3>1 DEF IsLoop
  <2> QED BY <1>5, <2>1 DEF IsLoop
<1>7. layer = loop
  <2>1. \A n \in 0 .. L : loop[n] = IF n = 0 THEN start ELSE Round(n, loop[n - 1])
    BY <1>1, <1>6
  <2>2. loop = [n \in 0 .. L |-> IF n = 0 THEN start ELSE Round(n, loop[n - 1])]
    BY <1>6, <2>1
  <2>3. layer = [n \in 0 .. L |-> IF n = 0 THEN start ELSE Round(n, layer[n - 1])]
    BY <1>3, <2>2, Zenon
  <2> DEFINE K == {n \in 0 .. L : layer[n] = loop[n]}
  <2>4. \A n \in 0 .. L : layer[n] = IF n = 0 THEN start ELSE Round(n, layer[n - 1])
    BY <2>3, Zenon
  <2>5. 0 \in K
    BY <1>1, <1>6, <2>4
  <2>6. \A n \in 0 .. L - 1 : n \in K => n + 1 \in K
    <3>1. SUFFICES ASSUME NEW n \in 0 .. L - 1, n \in K PROVE n + 1 \in K
      OBVIOUS
    <3>2. PICK m \in 1 .. L : m = n + 1 /\ m - 1 = n /\ m # 0 /\ m \in 0 .. L
      BY <1>1
    <3>3. layer[m] = Round(m, layer[m - 1]) /\ loop[m] = Round(m, loop[m - 1])
      BY ONLY <1>6, <2>4, <3>2, Zenon
    <3> QED BY <3>1, <3>2, <3>3
  <2> HIDE DEF K
  <2>7. \A n \in 0 .. L : n \in K
    BY ONLY <1>1, <2>5, <2>6, UpToLast
  <2>8. \A n \in 0 .. L : layer[n] = loop[n]
    BY <2>7 DEF K
  <2> QED BY <1>6, <2>3, <2>8
<1>8. \A n \in 0 .. L - 1 : loop[n + 1] = Round(n + 1, loop[n])
  <2>1. TAKE n \in 0 .. L - 1
  <2>2. PICK m \in 1 .. L : m = n + 1 /\ m - 1 = n
    BY <1>1
  <2>3. loop[m] = Round(m, loop[m - 1])
    BY <1>6, Zenon
  <2> QED BY ONLY <2>2, <2>3
<1>9. Walk(pools) = loop
  BY <1>2, <1>7
<1>10. IsWalk(loop, pools)
  BY <1>6, <1>8, <1>9, Zenon DEF L, T, start, Round, IsWalk
<1> QED BY <1>10

\* A search that goes on is not at tokenOut.
LEMMA NotArrived ==
  ASSUME NEW pools, ArePools(pools), NEW path \in Seq(DOMAIN pools)
  PROVE  Arrived(pools, path) <=> TokenAfter(pools, path) = tokenOut
<1>1. ASSUME path = <<>> PROVE TokenAfter(pools, path) # tokenOut
  <2>1. PICK trail : IsTrail(trail, pools, path)
    BY TrailExists, Zenon
  <2>2. Len(path) = 0
    BY <1>1
  <2> QED BY <2>1, <2>2, SearchAssumption DEF IsTrail
<1> QED BY <1>1 DEF Arrived

\* The search finds the partial paths of each length, and none twice.
LEMMA LayerFacts ==
  ASSUME NEW pools, ArePools(pools)
  PROVE  \A n \in 0 .. maxHops :
           /\ Walk(pools)[n] \in Seq(Seq(DOMAIN pools))
           /\ \A x : x \in Range(Walk(pools)[n]) <=> IsPartial(pools, x) /\ Len(x) = n
           /\ IsInjective(Walk(pools)[n])
<1> DEFINE P == Seq(DOMAIN pools)
<1>1. PICK layers : IsWalk(layers, pools)
  BY WalkExists, Zenon
<1>2. /\ layers \in [0 .. maxHops -> Seq(P)] /\ layers[0] = <<<<>>>> /\ Walk(pools) = layers
      /\ \A n \in 0 .. maxHops - 1 : layers[n + 1] = Longer(pools, layers[n])
  BY <1>1 DEF IsWalk
<1> DEFINE Right(n) == /\ \A x : x \in Range(layers[n]) <=> IsPartial(pools, x) /\ Len(x) = n
                       /\ IsInjective(layers[n])
           K == {n \in 0 .. maxHops : Right(n)}
<1>3. maxHops \in Nat
  BY SearchAssumption
<1>4. 0 \in K
  <2>1. Range(layers[0]) = {<<>>} /\ IsInjective(layers[0])
    BY <1>2 DEF Range, IsInjective
  <2>2. IsPartial(pools, <<>>)
    <3> DEFINE stops == [n \in 0 .. 0 |-> tokenIn]
    <3>1. stops \in [0 .. 0 -> Tokens(pools)] /\ stops[0] = tokenIn
      BY DEF Tokens
    <3>2. Len(<<>>) = 0 /\ <<>> \in P /\ IsInjective(<<>>)
      BY DEF IsInjective
    <3> HIDE DEF stops
    <3>3. Leads(stops, pools, <<>>)
      BY <3>1, <3>2 DEF Leads
    <3> QED BY <3>2, <3>3 DEF IsPartial
  <2>3. \A x : IsPartial(pools, x) /\ Len(x) = 0 => x = <<>>
    BY DEF IsPartial
  <2>4. Len(<<>>) = 0
    OBVIOUS
  <2>5. \A x : x \in Range(layers[0]) <=> IsPartial(pools, x) /\ Len(x) = 0
    BY <2>1, <2>2, <2>3, <2>4
  <2> QED BY <1>3, <2>1, <2>5
<1>5. \A n \in 0 .. maxHops - 1 : n \in K => n + 1 \in K
  <2>1. SUFFICES ASSUME NEW n \in 0 .. maxHops - 1, n \in K PROVE n + 1 \in K
    OBVIOUS
  <2>2. n \in 0 .. maxHops /\ n + 1 \in 0 .. maxHops /\ n \in Nat
    BY <1>3
  <2>3. layers[n] \in Seq(P) /\ layers[n + 1] = Longer(pools, layers[n]) /\ Right(n)
    BY <1>2, <2>1, <2>2
  <2>4. /\ \A x : x \in Range(Longer(pools, layers[n])) <=>
             \E path \in Range(layers[n]) :
               ~Arrived(pools, path) /\ \E i \in Follows(pools, path) : x = Append(path, i)
        /\ IsInjective(Longer(pools, layers[n]))
    BY <2>3, LongerTypes
  <2>5. ASSUME NEW x, x \in Range(layers[n + 1]) PROVE IsPartial(pools, x) /\ Len(x) = n + 1
    <3>1. PICK path \in Range(layers[n]) :
            ~Arrived(pools, path) /\ \E i \in Follows(pools, path) : x = Append(path, i)
      BY <2>3, <2>4, <2>5
    <3>2. PICK i \in Follows(pools, path) : x = Append(path, i)
      BY <3>1
    <3>3. IsPartial(pools, path) /\ Len(path) = n /\ path \in P
      BY <2>3 DEF IsPartial
    <3>4. i \in DOMAIN pools /\ i \notin Range(path) /\ involvesToken(pools[i], TokenAfter(pools, path))
      BY <3>2 DEF Follows
    <3>5. TokenAfter(pools, path) # tokenOut
      BY <3>1, <3>3, NotArrived
    <3>6. IsPartial(pools, x)
      BY <3>2, <3>3, <3>4, <3>5, PartialOneMore
    <3>7. Len(x) = n + 1
      BY <3>2, <3>3
    <3> QED BY <3>6, <3>7
  <2>6. ASSUME NEW x, IsPartial(pools, x), Len(x) = n + 1 PROVE x \in Range(layers[n + 1])
    <3>1. x \in P /\ x # <<>>
      BY <2>2, <2>6 DEF IsPartial
    <3>2. PICK front \in P, i \in DOMAIN pools : x = Append(front, i) /\ Len(front) = Len(x) - 1
      BY <3>1, FrontAndLast
    <3>3. /\ IsPartial(pools, front) /\ TokenAfter(pools, front) # tokenOut /\ i \notin Range(front)
          /\ involvesToken(pools[i], TokenAfter(pools, front))
      BY <2>6, <3>2, PartialOneMore
    <3>4. front \in Range(layers[n])
      <4>1. Len(front) = n
        BY <2>2, <2>6, <3>2
      <4> QED BY <2>3, <3>3, <4>1
    <3>5. i \in Follows(pools, front) /\ ~Arrived(pools, front)
      BY <3>2, <3>3, NotArrived DEF Follows
    <3> QED BY <2>3, <2>4, <3>2, <3>4, <3>5
  <2>7. Right(n + 1)
    BY <2>3, <2>4, <2>5, <2>6
  <2> QED BY <2>2, <2>7
<1>6. \A n \in 0 .. maxHops : n \in K
  <2> HIDE DEF K
  <2> QED BY ONLY <1>3, <1>4, <1>5, UpToLast
<1> QED BY <1>2, <1>6

\* Lists of the same elements, none of which comes twice, are equally long.
LEMMA SameLength ==
  ASSUME NEW S, NEW s \in Seq(S), NEW t \in Seq(S), IsInjective(s), IsInjective(t), Range(s) = Range(t)
  PROVE  Len(s) = Len(t)
<1>1. ASSUME NEW r \in Seq(S), IsInjective(r) PROVE Cardinality(Range(r)) = Len(r)
  <2>1. DOMAIN r = 1 .. Len(r) /\ Len(r) \in Nat
    OBVIOUS
  <2>2. r \in [1 .. Len(r) -> Range(r)] /\ \A y \in Range(r) : \E n \in 1 .. Len(r) : r[n] = y
    BY <2>1 DEF Range
  <2>3. \A a, b \in 1 .. Len(r) : r[a] = r[b] => a = b
    BY <1>1, <2>1 DEF IsInjective
  <2>4. r \in Bijection(1 .. Len(r), Range(r))
    BY <2>1, <2>2, <2>3 DEF Bijection, Injection, Surjection, IsInjective, Range
  <2>5. ExistsBijection(1 .. Len(r), Range(r))
    BY <2>4 DEF ExistsBijection
  <2> QED BY <2>1, <2>5, FS_CountingElements
<1> QED BY <1>1

-----------------------------------------------------------------------------
(* Ranking *)

\* What a path may come before: others that are longer, or as long and no deeper.
Earlier(pools) ==
  LET P == Seq(DOMAIN pools)
  IN  [x \in P |-> {y \in P : y # x /\ (\/ Len(x) < Len(y)
                                       \/ (Len(x) = Len(y) /\ pathDepth(pools, x) >= pathDepth(pools, y)))}]

\* A path that is not empty has a depth.
LEMMA DepthIsThere ==
  ASSUME NEW pools, ArePools(pools), NEW path \in Seq(DOMAIN pools), path # <<>>
  PROVE  pathDepth(pools, path) \in Nat
<1> DEFINE depths == {pools[i].depth : i \in Range(path)}
<1>1. Range(path) \subseteq DOMAIN pools /\ Range(path) # {}
  <2>1. 1 \in DOMAIN path /\ \A n \in DOMAIN path : path[n] \in DOMAIN pools
    OBVIOUS
  <2> QED BY <2>1 DEF Range
<1>2. depths \subseteq Nat /\ depths # {}
  BY <1>1 DEF ArePools
<1>3. pathDepth(pools, path) = CHOOSE x \in depths : \A y \in depths : x <= y
  BY DEF pathDepth, Smallest
<1> HIDE DEF depths
<1>4. \E x \in depths : \A y \in depths : x <= y
  BY <1>2, LeastElement
<1> QED BY <1>2, <1>3, <1>4

\* Paths of one length, ranked: all that have arrived, in order.
LEMMA ByDepthFacts ==
  ASSUME NEW pools, ArePools(pools), NEW paths \in Seq(Seq(DOMAIN pools)), IsInjective(paths), NEW size \in Nat,
         \A x \in Range(paths) : Len(x) = size
  PROVE  /\ ByDepth(pools, paths) \in Seq(Seq(DOMAIN pools))
         /\ Range(ByDepth(pools, paths)) = {x \in Range(paths) : Arrived(pools, x)}
         /\ Ordered(ByDepth(pools, paths), Earlier(pools))
<1> DEFINE P == Seq(DOMAIN pools)
           arrived == Only(paths, {path \in Range(paths) : Arrived(pools, path)})
           depths == [i \in DOMAIN arrived |-> pathDepth(pools, arrived[i])]
           ranked == Sorted("EXACT_INPUT", depths, arrived)
<1>1. ByDepth(pools, paths) = ranked
  BY DEF ByDepth
<1>2. arrived \in Seq(P) /\ Range(arrived) = {x \in Range(paths) : Arrived(pools, x)}
  <2> HIDE DEF P
  <2>1. paths \in Seq(P)
    BY DEF P
  <2>2. /\ arrived \in Seq(P)
        /\ Range(arrived) = Range(paths) \intersect {path \in Range(paths) : Arrived(pools, path)}
    BY <2>1, OnlyFacts
  <2> QED BY <2>2
<1>3. IsInjective(arrived)
  <2> HIDE DEF P
  <2>1. paths \in Seq(P)
    BY DEF P
  <2>2. Ordered(arrived, Others(P))
    BY <2>1, OrderedOthers, OnlyOrdered
  <2> HIDE DEF arrived
  <2> QED BY <1>2, <2>2, OrderedOthers
<1> HIDE DEF arrived
<1>4. DOMAIN arrived = 1 .. Len(arrived) /\ Len(arrived) \in Nat /\ \A i \in DOMAIN arrived : arrived[i] \in P
  <2> HIDE DEF P
  <2> QED BY <1>2
<1>5. \A i \in DOMAIN arrived : arrived[i] # <<>> /\ Len(arrived[i]) = size
  BY <1>2 DEF Range, Arrived
<1>6. \A i \in DOMAIN arrived : pathDepth(pools, arrived[i]) \in Nat
  BY <1>4, <1>5, DepthIsThere
<1>7. depths \in Seq(Int) /\ Len(depths) = Len(arrived) /\ \A i \in DOMAIN arrived : depths[i] = pathDepth(pools, arrived[i])
  BY <1>4, <1>6
<1> HIDE DEF depths, P
<1>8. /\ ranked \in Seq(P) /\ Len(ranked) = Len(arrived) /\ Range(ranked) = Range(arrived)
  BY <1>2, <1>7, SortedRange
<1>9. PICK place : IsSorting(place, "EXACT_INPUT", depths, arrived)
  BY <1>2, <1>7, SortedFacts, Zenon
<1>10. ranked = [n \in 1 .. Len(arrived) |-> arrived[place[n]]]
  BY <1>9 DEF IsSorting
<1>11. ASSUME NEW m \in 1 .. Len(arrived), NEW n \in 1 .. Len(arrived), m < n PROVE ranked[n] \in Earlier(pools)[ranked[m]]
  <2>1. place[m] \in 1 .. Len(arrived) /\ place[n] \in 1 .. Len(arrived) /\ place[m] # place[n]
    <3>1. m # n
      BY <1>4, <1>11
    <3> QED BY <1>9, <1>11, <3>1 DEF IsSorting
  <2>2. ~better("EXACT_INPUT", depths[place[n]], depths[place[m]])
    BY <1>9, <1>11, Zenon DEF IsSorting
  <2>3. ranked[m] = arrived[place[m]] /\ ranked[n] = arrived[place[n]]
    BY <1>10
  <2>4. ranked[m] # ranked[n]
    BY <1>3, <1>4, <2>1, <2>3 DEF IsInjective
  <2>5. pathDepth(pools, ranked[m]) >= pathDepth(pools, ranked[n])
    <3>1. PICK a \in 1 .. Len(arrived), b \in 1 .. Len(arrived) : a = place[m] /\ b = place[n]
      BY <2>1
    <3>2. /\ depths[a] = pathDepth(pools, arrived[a]) /\ depths[a] \in Nat
          /\ depths[b] = pathDepth(pools, arrived[b]) /\ depths[b] \in Nat
      BY <1>4, <1>6, <1>7
    <3>3. ~(depths[b] > depths[a])
      BY <2>2, <3>1 DEF better
    <3>4. depths[a] >= depths[b]
      BY ONLY <3>2, <3>3
    <3> HIDE DEF ranked
    <3> QED BY ONLY <2>3, <3>1, <3>2, <3>4
  <2>6. Len(ranked[m]) = Len(ranked[n]) /\ ranked[m] \in P /\ ranked[n] \in P
    BY <1>4, <1>5, <2>1, <2>3
  <2> HIDE DEF ranked
  <2> QED BY <2>4, <2>5, <2>6 DEF Earlier, P
<1>12. Ordered(ranked, Earlier(pools))
  <2>1. DOMAIN ranked = 1 .. Len(arrived)
    BY <1>10
  <2> QED BY <1>11, <2>1 DEF Ordered
<1> HIDE DEF ranked
<1> QED BY <1>1, <1>2, <1>8, <1>12 DEF P

\* The ways that are found: partial paths that have arrived.
IsWay(pools, x) == IsPartial(pools, x) /\ Len(x) \in 1 .. maxHops /\ TokenAfter(pools, x) = tokenOut

\* The ranking is of all ways, and in order.
LEMMA RankedFacts ==
  ASSUME NEW pools, ArePools(pools)
  PROVE  /\ RankedPaths(pools) \in Seq(Seq(DOMAIN pools))
         /\ \A x : x \in Range(RankedPaths(pools)) <=> IsWay(pools, x)
         /\ Ordered(RankedPaths(pools), Earlier(pools))
<1> DEFINE P == Seq(DOMAIN pools)
           T == Seq(P)
           ranks == [n \in 1 .. maxHops |-> ByDepth(pools, Walk(pools)[n])]
<1>1. RankedPaths(pools) = FlattenSeq(ranks)
  BY DEF RankedPaths
<1>2. maxHops \in Nat
  BY SearchAssumption
<1>3. \A n \in 1 .. maxHops :
        /\ Walk(pools)[n] \in Seq(P)
        /\ \A x : x \in Range(Walk(pools)[n]) <=> (IsPartial(pools, x) /\ Len(x) = n)
        /\ IsInjective(Walk(pools)[n])
  <2>1. \A n \in 1 .. maxHops : n \in 0 .. maxHops
    BY <1>2
  <2> QED BY <2>1, LayerFacts
<1>4. \A n \in 1 .. maxHops :
        /\ ranks[n] \in T
        /\ Range(ranks[n]) = {x \in Range(Walk(pools)[n]) : Arrived(pools, x)}
        /\ Ordered(ranks[n], Earlier(pools))
  <2>1. TAKE n \in 1 .. maxHops
  <2>2. n \in Nat /\ ranks[n] = ByDepth(pools, Walk(pools)[n])
    BY <1>2
  <2>3. \A x \in Range(Walk(pools)[n]) : Len(x) = n
    BY <1>3
  <2> HIDE DEF ranks
  <2> QED BY <1>3, <2>2, <2>3, ByDepthFacts
<1>5. ranks \in Seq(T) /\ DOMAIN ranks = 1 .. maxHops
  <2> HIDE DEF T
  <2>1. DOMAIN ranks = 1 .. maxHops /\ \A n \in 1 .. maxHops : ranks[n] \in T
    BY <1>4
  <2> QED BY <1>2, <1>4
<1> HIDE DEF ranks, P
<1>6. FlattenSeq(ranks) \in Seq(P) /\ Range(FlattenSeq(ranks)) = UNION {Range(ranks[n]) : n \in DOMAIN ranks}
  BY <1>5, FlattenFacts
<1>7. \A x : x \in Range(FlattenSeq(ranks)) <=>
               \E n \in 1 .. maxHops : (IsPartial(pools, x) /\ Len(x) = n /\ Arrived(pools, x))
  <2>1. TAKE x
  <2>2. x \in Range(FlattenSeq(ranks)) <=> \E n \in 1 .. maxHops : x \in Range(ranks[n])
    BY <1>5, <1>6
  <2>3. \A n \in 1 .. maxHops : x \in Range(ranks[n]) <=> (IsPartial(pools, x) /\ Len(x) = n /\ Arrived(pools, x))
    BY <1>3, <1>4
  <2> QED BY <2>2, <2>3, Zenon
<1>8. \A x : x \in Range(FlattenSeq(ranks)) <=> IsWay(pools, x)
  <2>1. \A x : IsPartial(pools, x) => (Arrived(pools, x) <=> TokenAfter(pools, x) = tokenOut)
    BY NotArrived DEF IsPartial
  <2> QED BY <1>7, <2>1 DEF IsWay
<1>9. \A i, j \in DOMAIN ranks : i < j => \A x \in Range(ranks[i]), y \in Range(ranks[j]) : y \in Earlier(pools)[x]
  <2>1. SUFFICES ASSUME NEW i \in 1 .. maxHops, NEW j \in 1 .. maxHops, i < j, NEW x \in Range(ranks[i]), NEW y \in Range(ranks[j])
                 PROVE y \in Earlier(pools)[x]
    BY <1>5
  <2>2. IsPartial(pools, x) /\ Len(x) = i /\ IsPartial(pools, y) /\ Len(y) = j
    <3>1. x \in Range(Walk(pools)[i]) /\ y \in Range(Walk(pools)[j])
      BY <1>4, <2>1
    <3> QED BY <1>3, <3>1, Zenon
  <2>3. x \in P /\ y \in P
    BY <2>2 DEF IsPartial, P
  <2>4. Len(x) < Len(y) /\ x # y
    BY <1>2, <2>1, <2>2
  <2> QED BY <2>3, <2>4 DEF Earlier, P
<1>10. Ordered(FlattenSeq(ranks), Earlier(pools))
  <2>1. ranks \in Seq(Seq(P)) /\ \A i \in DOMAIN ranks : Ordered(ranks[i], Earlier(pools))
    BY <1>4, <1>5
  <2> QED BY <1>9, <2>1, FlattenOrdered
<1> QED BY <1>1, <1>6, <1>8, <1>10 DEF P

\* The first of a list: all of it or as many as there may be, and what is dropped comes after them.
LEMMA FirstOfFacts ==
  ASSUME NEW S, NEW seq \in Seq(S), NEW n \in Nat
  PROVE  /\ FirstOf(seq, n) \in Seq(S)
         /\ Range(FirstOf(seq, n)) \subseteq Range(seq)
         /\ n > 0 /\ Len(seq) > 0 => seq[1] \in Range(FirstOf(seq, n))
         /\ FirstOf(seq, n) = seq \/ Len(FirstOf(seq, n)) = n
         /\ \A after : Ordered(seq, after) =>
              /\ Ordered(FirstOf(seq, n), after)
              /\ \A x \in Range(FirstOf(seq, n)), y \in Range(seq) \ Range(FirstOf(seq, n)) : y \in after[x]
<1>1. Len(seq) \in Nat /\ DOMAIN seq = 1 .. Len(seq) /\ \A i \in DOMAIN seq : seq[i] \in S
  OBVIOUS
<1>2. CASE Len(seq) <= n
  <2>1. FirstOf(seq, n) = seq
    BY <1>2 DEF FirstOf
  <2>2. Len(seq) > 0 => seq[1] \in Range(seq)
    BY <1>1 DEF Range
  <2> QED BY <2>1, <2>2
<1>3. CASE ~(Len(seq) <= n)
  <2> DEFINE first == SubSeq(seq, 1, n)
  <2>1. FirstOf(seq, n) = first
    BY <1>3 DEF FirstOf
  <2>2. /\ first \in Seq(S) /\ Len(first) = n /\ DOMAIN first = 1 .. n
        /\ \A i \in 1 .. n : first[i] = seq[i] /\ i \in DOMAIN seq
    <3>1. \A i \in 1 .. n : i \in DOMAIN seq
      BY <1>1, <1>3
    <3> QED BY <1>1, <1>3, <3>1
  <2> HIDE DEF first
  <2>3. Range(first) \subseteq Range(seq)
    BY <2>2 DEF Range
  <2>4. n > 0 => seq[1] \in Range(first)
    <3>1. n > 0 => 1 \in 1 .. n
      OBVIOUS
    <3> QED BY <2>2, <3>1 DEF Range
  <2>5. ASSUME NEW after, Ordered(seq, after)
        PROVE  /\ Ordered(first, after)
               /\ \A x \in Range(first), y \in Range(seq) \ Range(first) : y \in after[x]
    <3>1. Ordered(first, after)
      BY <2>2, <2>5 DEF Ordered
    <3>2. ASSUME NEW x \in Range(first), NEW y \in Range(seq), y \notin Range(first) PROVE y \in after[x]
      <4>1. PICK i \in 1 .. n : x = seq[i] /\ i \in DOMAIN seq
        BY <2>2 DEF Range
      <4>2. PICK j \in DOMAIN seq : y = seq[j]
        BY DEF Range
      <4>3. j \notin 1 .. n
        BY <2>2, <3>2, <4>2 DEF Range
      <4>4. i < j
        BY <1>1, <4>1, <4>2, <4>3
      <4> QED BY <2>5, <4>1, <4>2, <4>4 DEF Ordered
    <3> QED BY <3>1, <3>2
  <2> QED BY <2>1, <2>2, <2>3, <2>4, <2>5
<1> QED BY <1>2, <1>3

\* The routes of a protocol: ways, in order; all of them unless there are too many.
LEMMA RoutesOfFacts ==
  ASSUME NEW pools, ArePools(pools), NEW protocol
  PROVE  /\ RoutesOf(pools, protocol) \in Seq(Seq(DOMAIN pools))
         /\ IsInjective(RoutesOf(pools, protocol))
         /\ \A x \in Range(RoutesOf(pools, protocol)) : IsWay(pools, x) /\ Protocol(pools, x) = protocol
         /\ \/ Len(RoutesOf(pools, protocol)) = maxRoutesPerProtocol
            \/ \A x : IsWay(pools, x) /\ Protocol(pools, x) = protocol => x \in Range(RoutesOf(pools, protocol))
         /\ \A x : IsWay(pools, x) /\ Protocol(pools, x) = protocol /\ x \notin Range(RoutesOf(pools, protocol)) =>
              \A y \in Range(RoutesOf(pools, protocol)) : x \in Earlier(pools)[y]
<1> DEFINE P == Seq(DOMAIN pools)
           ranked == RankedPaths(pools)
           those == Only(ranked, {path \in Range(ranked) : Protocol(pools, path) = protocol})
           first == FirstOf(those, maxRoutesPerProtocol)
<1>1. RoutesOf(pools, protocol) = first
  BY DEF RoutesOf
<1>2. /\ ranked \in Seq(P) /\ (\A x : x \in Range(ranked) <=> IsWay(pools, x))
      /\ Ordered(ranked, Earlier(pools))
  BY RankedFacts
<1> HIDE DEF ranked, P
<1>3. those \in Seq(P) /\ Ordered(those, Earlier(pools)) /\ \A x : x \in Range(those) <=> (IsWay(pools, x) /\ Protocol(pools, x) = protocol)
  <2>1. /\ those \in Seq(P)
        /\ Range(those) = Range(ranked) \intersect {path \in Range(ranked) : Protocol(pools, path) = protocol}
    BY <1>2, OnlyFacts
  <2>2. Ordered(those, Earlier(pools))
    BY <1>2, OnlyOrdered
  <2> QED BY <1>2, <2>1, <2>2
<1> HIDE DEF those
<1>4. maxRoutesPerProtocol \in Nat
  BY SearchAssumption
<1>5. /\ first \in Seq(P)
      /\ Range(first) \subseteq Range(those)
      /\ first = those \/ Len(first) = maxRoutesPerProtocol
      /\ Ordered(first, Earlier(pools))
      /\ \A x \in Range(first), y \in Range(those) \ Range(first) : y \in Earlier(pools)[x]
  BY <1>3, <1>4, FirstOfFacts
<1> HIDE DEF first
<1>6. IsInjective(first)
  <2>1. \A i \in DOMAIN first : first[i] \in P
    BY <1>5
  <2>2. Ordered(first, Others(P))
    <3>1. \A x \in P : \A y \in Earlier(pools)[x] : y \in Others(P)[x]
      BY DEF Earlier, Others, P
    <3> QED BY <1>5, <2>1, <3>1 DEF Ordered
  <2> QED BY <1>5, <2>2, OrderedOthers
<1> QED BY <1>1, <1>3, <1>5, <1>6 DEF P

\* The ways that are found are the ways there are.
LEMMA WaysAreFound ==
  ASSUME NEW pools, ArePools(pools), NEW x
  PROVE  x \in Ways(pools) <=> IsWay(pools, x)
<1> DEFINE Between2 == UNION {{pools[i].token0, pools[i].token1} : i \in DOMAIN pools}
           Is(p) == \E stops \in [0 .. Len(p) -> Between2] :
                      /\ stops[0] = tokenIn /\ stops[Len(p)] = tokenOut
                      /\ \A k \in DOMAIN p : /\ stops[k - 1] # tokenOut
                                            /\ {stops[k - 1], stops[k]} = {pools[p[k]].token0, pools[p[k]].token1}
<1>1. x \in Ways(pools) <=>
        (x \in UNION {[1 .. n -> DOMAIN pools] : n \in 1 .. maxHops} /\ IsInjective(x) /\ Is(x))
  BY DEF Ways
<1>2. maxHops \in Nat
  BY SearchAssumption
<1>3. x \in UNION {[1 .. n -> DOMAIN pools] : n \in 1 .. maxHops} <=> (x \in Seq(DOMAIN pools) /\ Len(x) \in 1 .. maxHops)
  <2>1. ASSUME x \in UNION {[1 .. n -> DOMAIN pools] : n \in 1 .. maxHops} PROVE x \in Seq(DOMAIN pools) /\ Len(x) \in 1 .. maxHops
    <3>1. PICK n \in 1 .. maxHops : x \in [1 .. n -> DOMAIN pools]
      BY <2>1
    <3>2. n \in Nat
      BY <1>2
    <3>3. x \in Seq(DOMAIN pools) /\ Len(x) = n
      BY <3>1, <3>2
    <3> QED BY <3>3
  <2>2. ASSUME x \in Seq(DOMAIN pools), Len(x) \in 1 .. maxHops PROVE x \in UNION {[1 .. n -> DOMAIN pools] : n \in 1 .. maxHops}
    <3>1. x \in [1 .. Len(x) -> DOMAIN pools]
      BY <2>2
    <3> QED BY <2>2, <3>1
  <2> QED BY <2>1, <2>2
<1> HIDE DEF Is
<1>4. ASSUME x \in Seq(DOMAIN pools), Len(x) \in 1 .. maxHops
      PROVE  Is(x) <=> ((\E stops : Leads(stops, pools, x)) /\ TokenAfter(pools, x) = tokenOut)
  <2>1. DOMAIN x = 1 .. Len(x) /\ Len(x) \in Nat \ {0} /\ \A k \in 1 .. Len(x) : x[k] \in DOMAIN pools
    BY <1>2, <1>4
  <2>2. ASSUME Is(x) PROVE (\E stops : Leads(stops, pools, x)) /\ TokenAfter(pools, x) = tokenOut
    <3>1. PICK stops \in [0 .. Len(x) -> Between2] :
            /\ stops[0] = tokenIn /\ stops[Len(x)] = tokenOut
            /\ \A k \in DOMAIN x : /\ stops[k - 1] # tokenOut
                                  /\ {stops[k - 1], stops[k]} = {pools[x[k]].token0, pools[x[k]].token1}
      BY <2>2 DEF Is
    <3>2. stops \in [0 .. Len(x) -> Tokens(pools)]
      BY <3>1 DEF Tokens
    <3>3. Leads(stops, pools, x)
      BY <2>1, <3>1, <3>2 DEF Leads
    <3>4. TokenAfter(pools, x) = stops[Len(x)]
      BY <1>4, <3>3, LeadsTo
    <3> QED BY <3>1, <3>3, <3>4
  <2>3. ASSUME NEW stops, Leads(stops, pools, x), TokenAfter(pools, x) = tokenOut PROVE Is(x)
    <3>1. /\ stops \in [0 .. Len(x) -> Tokens(pools)] /\ stops[0] = tokenIn
          /\ \A k \in 1 .. Len(x) : /\ stops[k - 1] # tokenOut
                                   /\ {stops[k - 1], stops[k]} = {pools[x[k]].token0, pools[x[k]].token1}
      BY <2>3 DEF Leads
    <3>2. stops[Len(x)] = tokenOut
      BY <1>4, <2>3, LeadsTo
    <3>3. ASSUME NEW k \in 1 .. Len(x) PROVE stops[k] \in Between2 /\ stops[k - 1] \in Between2
      <4>1. x[k] \in DOMAIN pools
        BY <2>1
      <4>2. {pools[x[k]].token0, pools[x[k]].token1} \subseteq Between2
        BY <4>1
      <4> HIDE DEF Between2
      <4> QED BY <3>1, <4>2
    <3>4. stops[0] \in Between2
      <4>1. 1 \in 1 .. Len(x) /\ 1 - 1 = 0
        BY <2>1
      <4> HIDE DEF Between2
      <4> QED BY <3>3, <4>1
    <3>5. \A k \in 0 .. Len(x) : k = 0 \/ k \in 1 .. Len(x)
      BY <2>1
    <3> HIDE DEF Between2
    <3>6. stops \in [0 .. Len(x) -> Between2]
      BY <3>1, <3>3, <3>4, <3>5
    <3> QED BY <2>1, <3>1, <3>2, <3>6 DEF Is
  <2> QED BY <2>2, <2>3
<1> HIDE DEF Between2
<1> QED BY <1>1, <1>3, <1>4 DEF IsWay, IsPartial

\* All routes: each is of one protocol, and none comes twice.
LEMMA AllRoutesFacts ==
  ASSUME NEW pools, ArePools(pools), NEW mixed \in BOOLEAN
  PROVE  /\ computeAllRoutes(pools, mixed) \in Seq(Seq(DOMAIN pools))
         /\ IsInjective(computeAllRoutes(pools, mixed))
         /\ \A x : x \in Range(computeAllRoutes(pools, mixed)) <=>
              \/ x \in Range(RoutesOf(pools, "CL"))
              \/ x \in Range(RoutesOf(pools, "V2"))
              \/ mixed /\ x \in Range(RoutesOf(pools, "MIXED"))
<1> DEFINE P == Seq(DOMAIN pools)
           last == IF mixed THEN RoutesOf(pools, "MIXED") ELSE <<>>
           cl == RoutesOf(pools, "CL")
           v2 == RoutesOf(pools, "V2")
           both == cl \o v2
           all == both \o last
<1>1. computeAllRoutes(pools, mixed) = all
  BY DEF computeAllRoutes
<1>2. /\ cl \in Seq(P) /\ Ordered(cl, Others(P)) /\ \A x \in Range(cl) : x \in P /\ Protocol(pools, x) = "CL"
      /\ v2 \in Seq(P) /\ Ordered(v2, Others(P)) /\ \A x \in Range(v2) : x \in P /\ Protocol(pools, x) = "V2"
  BY RoutesOfFacts, OrderedOthers DEF IsWay, IsPartial
<1>3. /\ last \in Seq(P) /\ Ordered(last, Others(P))
      /\ \A x \in Range(last) : x \in P /\ Protocol(pools, x) = "MIXED"
      /\ \A x : x \in Range(last) <=> (mixed /\ x \in Range(RoutesOf(pools, "MIXED")))
  <2>1. CASE mixed
    BY <2>1, RoutesOfFacts, OrderedOthers DEF IsWay, IsPartial
  <2>2. CASE ~mixed
    <3>1. last = <<>> /\ Range(<<>>) = {} /\ Ordered(<<>>, Others(P))
      BY <2>2 DEF Range, Ordered
    <3> QED BY <2>2, <3>1
  <2> QED BY <2>1, <2>2
<1> HIDE DEF cl, v2, last, P
<1>4. /\ both \in Seq(P) /\ Range(both) = Range(cl) \union Range(v2) /\ Ordered(both, Others(P))
  <2>1. \A x \in Range(cl), y \in Range(v2) : y \in Others(P)[x]
    <3>1. \A x \in Range(cl), y \in Range(v2) : x \in P /\ y \in P /\ x # y
      BY <1>2
    <3> QED BY <3>1 DEF Others
  <2> QED BY <1>2, <2>1, ConcatFacts, ConcatOrdered
<1> HIDE DEF both
<1>5. /\ all \in Seq(P) /\ Range(all) = Range(both) \union Range(last) /\ Ordered(all, Others(P))
  <2>1. \A x \in Range(both), y \in Range(last) : y \in Others(P)[x]
    <3>1. \A x \in Range(both), y \in Range(last) : x \in P /\ y \in P /\ x # y
      BY <1>2, <1>3, <1>4
    <3> QED BY <3>1 DEF Others
  <2> QED BY <1>3, <1>4, <2>1, ConcatFacts, ConcatOrdered
<1>6. IsInjective(all)
  <2> HIDE DEF all
  <2> QED BY <1>5, OrderedOthers
<1> HIDE DEF all
<1> QED BY <1>1, <1>3, <1>4, <1>5, <1>6 DEF P, cl, v2

\* The routes of one protocol among all of them are the ones that were found for it.
LEMMA KeptFacts ==
  ASSUME NEW pools, ArePools(pools), NEW mixed \in BOOLEAN, NEW protocol \in Protocols
  PROVE  LET all == computeAllRoutes(pools, mixed)
             kept == Only(all, {p \in Range(all) : Protocol(pools, p) = protocol})
         IN  /\ IsInjective(kept)
             /\ Range(kept) = IF protocol = "MIXED" /\ ~mixed THEN {} ELSE Range(RoutesOf(pools, protocol))
             /\ protocol # "MIXED" \/ mixed => Len(kept) = Len(RoutesOf(pools, protocol))
<1> DEFINE P == Seq(DOMAIN pools)
           all == computeAllRoutes(pools, mixed)
           kept == Only(all, {p \in Range(all) : Protocol(pools, p) = protocol})
<1>1. /\ all \in Seq(P) /\ IsInjective(all)
      /\ \A x : x \in Range(all) <=>
           \/ x \in Range(RoutesOf(pools, "CL"))
           \/ x \in Range(RoutesOf(pools, "V2"))
           \/ mixed /\ x \in Range(RoutesOf(pools, "MIXED"))
  BY AllRoutesFacts
<1>2. \A p \in Protocols : \A x \in Range(RoutesOf(pools, p)) : Protocol(pools, x) = p
  BY RoutesOfFacts
<1>3. RoutesOf(pools, protocol) \in Seq(P) /\ IsInjective(RoutesOf(pools, protocol))
  BY RoutesOfFacts
<1> HIDE DEF P, all
<1>4. kept \in Seq(P) /\ Range(kept) = Range(all) \intersect {p \in Range(all) : Protocol(pools, p) = protocol}
  BY <1>1, OnlyFacts
<1>5. IsInjective(kept)
  <2>1. Ordered(kept, Others(P))
    BY <1>1, OrderedOthers, OnlyOrdered
  <2> HIDE DEF kept
  <2> QED BY <1>4, <2>1, OrderedOthers
<1> HIDE DEF kept
<1>6. \A x : x \in Range(kept) <=> (x \in Range(RoutesOf(pools, protocol)) /\ (protocol # "MIXED" \/ mixed))
  <2>1. TAKE x
  <2>2. x \in Range(kept) <=> (x \in Range(all) /\ Protocol(pools, x) = protocol)
    BY <1>4
  <2>3. /\ x \in Range(RoutesOf(pools, "CL")) => Protocol(pools, x) = "CL"
        /\ x \in Range(RoutesOf(pools, "V2")) => Protocol(pools, x) = "V2"
        /\ x \in Range(RoutesOf(pools, "MIXED")) => Protocol(pools, x) = "MIXED"
    BY <1>2 DEF Protocols
  <2>4. protocol = "CL" \/ protocol = "V2" \/ protocol = "MIXED"
    BY DEF Protocols
  <2> DEFINE inCl == x \in Range(RoutesOf(pools, "CL"))
             inV2 == x \in Range(RoutesOf(pools, "V2"))
             inMixed == x \in Range(RoutesOf(pools, "MIXED"))
             of == Protocol(pools, x)
  <2>5. x \in Range(all) <=> (inCl \/ inV2 \/ (mixed /\ inMixed))
    BY <1>1
  <2>6. (inCl => of = "CL") /\ (inV2 => of = "V2") /\ (inMixed => of = "MIXED")
    BY <2>3
  <2> HIDE DEF inCl, inV2, inMixed, of
  <2>7. CASE protocol = "CL"
    <3>1. x \in Range(kept) <=> inCl
      BY <2>2, <2>5, <2>6, <2>7 DEF of
    <3> QED BY <2>7, <3>1 DEF inCl
  <2>8. CASE protocol = "V2"
    <3>1. x \in Range(kept) <=> inV2
      BY <2>2, <2>5, <2>6, <2>8 DEF of
    <3> QED BY <2>8, <3>1 DEF inV2
  <2>9. CASE protocol = "MIXED"
    <3>1. x \in Range(kept) <=> (mixed /\ inMixed)
      BY <2>2, <2>5, <2>6, <2>9 DEF of
    <3> QED BY <2>9, <3>1 DEF inMixed
  <2> QED BY <2>4, <2>7, <2>8, <2>9
<1>7. Range(kept) = IF protocol = "MIXED" /\ ~mixed THEN {} ELSE Range(RoutesOf(pools, protocol))
  BY <1>6
<1>8. ASSUME protocol # "MIXED" \/ mixed PROVE Len(kept) = Len(RoutesOf(pools, protocol))
  <2>1. Range(kept) = Range(RoutesOf(pools, protocol))
    BY <1>7, <1>8
  <2> QED BY <1>3, <1>4, <1>5, <2>1, SameLength
<1> QED BY <1>5, <1>7, <1>8 DEF all, kept

\* The search is exact for any pools.
LEMMA RoutesRight ==
  ASSUME NEW pools, ArePools(pools), NEW mixed \in BOOLEAN, NEW protocol \in Protocols
  PROVE  ExactRoutes(pools, mixed, protocol)
<1> DEFINE all == computeAllRoutes(pools, mixed)
           kept == Only(all, {p \in Range(all) : Protocol(pools, p) = protocol})
           ways == IF protocol = "MIXED" /\ ~mixed THEN {} ELSE {p \in Ways(pools) : Protocol(pools, p) = protocol}
           found == RoutesOf(pools, protocol)
<1>1. /\ IsInjective(kept)
      /\ Range(kept) = IF protocol = "MIXED" /\ ~mixed THEN {} ELSE Range(found)
      /\ (protocol # "MIXED" \/ mixed) => Len(kept) = Len(found)
  BY KeptFacts
<1>2. \A p : p \in Ways(pools) <=> IsWay(pools, p)
  BY WaysAreFound
<1>3. /\ \A x \in Range(found) : IsWay(pools, x) /\ Protocol(pools, x) = protocol
      /\ \/ Len(found) = maxRoutesPerProtocol
         \/ \A x : IsWay(pools, x) /\ Protocol(pools, x) = protocol => x \in Range(found)
      /\ \A x : (IsWay(pools, x) /\ Protocol(pools, x) = protocol /\ x \notin Range(found)) =>
           \A y \in Range(found) : x \in Earlier(pools)[y]
  BY RoutesOfFacts
<1>4. \A y : IsWay(pools, y) => y \in Seq(DOMAIN pools)
  BY DEF IsWay, IsPartial
<1>5. ASSUME NEW y \in Seq(DOMAIN pools), NEW x \in Earlier(pools)[y]
      PROVE  Len(y) < Len(x) \/ (Len(y) = Len(x) /\ pathDepth(pools, y) >= pathDepth(pools, x))
  BY <1>5 DEF Earlier
<1> HIDE DEF all, kept, found
<1>6. CASE protocol = "MIXED" /\ ~mixed
  BY <1>1, <1>6 DEF all, kept, ExactRoutes
<1>7. CASE protocol # "MIXED" \/ mixed
  <2>1. Range(kept) = Range(found) /\ Len(kept) = Len(found)
    BY <1>1, <1>7
  <2>2. \A p : p \in ways <=> (IsWay(pools, p) /\ Protocol(pools, p) = protocol)
    BY <1>2, <1>7
  <2> HIDE DEF ways
  <2>3. Range(kept) \subseteq ways
    BY <1>3, <2>1, <2>2
  <2>4. Len(kept) = maxRoutesPerProtocol \/ Range(kept) = ways
    BY <1>3, <2>1, <2>2, <2>3
  <2>5. ASSUME NEW p \in ways \ Range(kept), NEW q \in Range(kept)
        PROVE  Len(q) < Len(p) \/ (Len(q) = Len(p) /\ pathDepth(pools, q) >= pathDepth(pools, p))
    <3>1. p \in Earlier(pools)[q]
      BY <1>3, <2>1, <2>2, <2>5
    <3>2. q \in Seq(DOMAIN pools)
      BY <1>3, <1>4, <2>1
    <3> QED BY <1>5, <3>1, <3>2
  <2> QED BY <1>1, <2>3, <2>4, <2>5 DEF all, kept, ways, ExactRoutes
<1> QED BY <1>6, <1>7

-----------------------------------------------------------------------------
(* What is priced *)

\* A route that can be taken, and the pools it goes through.
Paths(pools) == Seq(DOMAIN pools) \ {<<>>}

\* What is known of a request.
LEMMA RequestFacts ==
  ASSUME NEW r \in Requests
  PROVE  /\ ArePools(r.pools) /\ r.includeMixedRoutes \in BOOLEAN
         /\ \A i \in DOMAIN r.pools : r.pools[i].estimate["small"] \in Nat /\ r.pools[i].estimate["large"] \in Nat
         /\ r.maxRoutesToScreen \in Nat \ {0} /\ r.maxRoutesToQuote \in Nat
         /\ r.minSplits \in 1 .. r.maxSplits /\ r.maxSplits \in Nat
BY RoutingAssumption DEF ArePools

\* Adding to a Set keeps it a set.
LEMMA AddInjective ==
  ASSUME NEW S, NEW kept \in Seq(S), NEW candidates \in Seq(S), NEW limit \in Int, IsInjective(kept)
  PROVE  IsInjective(AddUpTo(kept, candidates, limit))
<1> DEFINE L == Len(candidates)
<1>1. PICK set : IsFilling(set, S, kept, candidates, limit)
  BY AddLoop, Zenon
<1>2. L \in Nat /\ \A n \in 1 .. L : candidates[n] \in S
  OBVIOUS
<1>3. /\ set \in [0 .. L -> Seq(S)] /\ set[0] = kept /\ AddUpTo(kept, candidates, limit) = set[L]
      /\ \A n \in 0 .. L - 1 :
           set[n + 1] = IF Len(set[n]) >= limit \/ candidates[n + 1] \in Range(set[n]) THEN set[n]
                        ELSE Append(set[n], candidates[n + 1])
  BY <1>1 DEF IsFilling
<1> DEFINE K == {n \in 0 .. L : IsInjective(set[n])}
<1> HIDE DEF L
<1>4. 0 \in K
  BY <1>2, <1>3
<1>5. \A n \in 0 .. L - 1 : n \in K => n + 1 \in K
  <2>1. SUFFICES ASSUME NEW n \in 0 .. L - 1, n \in K PROVE n + 1 \in K
    OBVIOUS
  <2>2. PICK m \in 1 .. L : m = n + 1 /\ m \in 0 .. L /\ n \in 0 .. L
    BY <1>2
  <2>3. set[n] \in Seq(S) /\ candidates[m] \in S /\ IsInjective(set[n])
    BY <1>2, <1>3, <2>1, <2>2
  <2>4. CASE candidates[m] \notin Range(set[n])
    <3>1. IsInjective(Append(set[n], candidates[m]))
      BY <2>3, <2>4, AppendFacts
    <3> QED BY <1>3, <2>1, <2>2, <2>3, <3>1
  <2>5. CASE candidates[m] \in Range(set[n])
    BY <1>3, <2>1, <2>2, <2>3, <2>5
  <2> QED BY <2>4, <2>5
<1>6. L \in K
  <2> HIDE DEF K
  <2>1. \A n \in 0 .. L : n \in K
    BY ONLY <1>2, <1>4, <1>5, UpToLast
  <2> QED BY <1>2, <2>1
<1> QED BY <1>3, <1>6

\* filter keeps what comes once.
LEMMA OnlyInjective ==
  ASSUME NEW S, NEW seq \in Seq(S), IsInjective(seq), NEW T
  PROVE  IsInjective(Only(seq, T))
<1>1. Only(seq, T) \in Seq(S)
  BY OnlyFacts
<1>2. Ordered(Only(seq, T), Others(S))
  BY OrderedOthers, OnlyOrdered
<1> QED BY <1>1, <1>2, OrderedOthers

\* The routes that are found are paths, none comes twice, and all can be priced.
LEMMA FoundRoutesFacts ==
  ASSUME request \in Requests
  PROVE  /\ FoundRoutes \in Seq(Paths(request.pools))
         /\ IsInjective(FoundRoutes)
         /\ \A r \in Range(FoundRoutes) : routeSupportsTradeType(request.pools, r, request.tradeType)
<1> DEFINE pools == request.pools
           all == computeAllRoutes(request.pools, request.includeMixedRoutes)
           P == Seq(DOMAIN pools)
           Supported == {r \in Range(all) : routeSupportsTradeType(pools, r, request.tradeType)}
<1>1. ArePools(pools) /\ request.includeMixedRoutes \in BOOLEAN
  BY RequestFacts
<1>2. /\ all \in Seq(P) /\ IsInjective(all)
      /\ \A x \in Range(all) : \E protocol : x \in Range(RoutesOf(pools, protocol))
  BY <1>1, AllRoutesFacts, Zenon
<1>3. FoundRoutes = Only(all, Supported)
  BY DEF FoundRoutes
<1>4. \A x \in Range(all) : x \in Paths(pools)
  <2>1. TAKE x \in Range(all)
  <2>2. IsWay(pools, x)
    BY <1>1, <1>2, RoutesOfFacts
  <2> QED BY <2>2, SearchAssumption DEF IsWay, IsPartial, Paths
<1> HIDE DEF pools, all, P
<1>5. all \in Seq(Paths(pools))
  <2>1. Range(all) \subseteq Paths(pools)
    BY <1>4
  <2> QED BY <1>2, <2>1, ListOf
<1>6. Only(all, Supported) \in Seq(Paths(pools)) /\ Range(Only(all, Supported)) = Range(all) \intersect Supported
  BY <1>5, OnlyFacts
<1>7. IsInjective(Only(all, Supported))
  BY <1>2, <1>5, OnlyInjective
<1> QED BY <1>3, <1>6, <1>7 DEF pools

\* An estimate is a number.
LEMMA EstimateTypes ==
  ASSUME NEW r \in Requests, NEW path \in Paths(r.pools), NEW size \in {"small", "large"}
  PROVE  estimateOutput(r.pools, path, size) \in Nat
<1> DEFINE amounts == {r.pools[i].estimate[size] : i \in Range(path)}
<1>1. path \in Seq(DOMAIN r.pools) /\ path # <<>>
  BY DEF Paths
<1>2. Range(path) \subseteq DOMAIN r.pools /\ Range(path) # {}
  <2>1. 1 \in DOMAIN path /\ \A n \in DOMAIN path : path[n] \in DOMAIN r.pools
    BY <1>1
  <2> QED BY <2>1 DEF Range
<1>3. \A i \in DOMAIN r.pools : r.pools[i].estimate[size] \in Nat
  BY RequestFacts
<1>4. amounts \subseteq Nat /\ amounts # {}
  BY <1>2, <1>3
<1>5. estimateOutput(r.pools, path, size) = CHOOSE x \in amounts : \A y \in amounts : x <= y
  BY DEF estimateOutput, Smallest
<1> HIDE DEF amounts
<1>6. \E x \in amounts : \A y \in amounts : x <= y
  BY <1>4, LeastElement
<1> QED BY <1>4, <1>5, <1>6

\* What is kept for quoting are routes that were found, none twice.
LEMMA PrerankFacts ==
  ASSUME NEW r \in Requests, NEW rs \in Seq(Paths(r.pools)), IsInjective(rs), NEW limit \in Int
  PROVE  /\ prerankRoutes(r.pools, rs, limit) \in Seq(Paths(r.pools))
         /\ Range(prerankRoutes(r.pools, rs, limit)) \subseteq Range(rs)
         /\ IsInjective(prerankRoutes(r.pools, rs, limit))
<1> DEFINE R == Range(rs)
           Q == Seq(R)
           backward == Reverse(rs)
           Estimated(size) == Only(backward, {x \in Range(rs) : estimateOutput(r.pools, x, size) # 0})
           Amount(size) == [i \in DOMAIN Estimated(size) |-> estimateOutput(r.pools, Estimated(size)[i], size)]
           Ranking(size) == Sorted("EXACT_INPUT", Amount(size), Estimated(size))
           small == Ranking("small")
           large == Ranking("large")
           At(ranking, position) == IF position <= Len(ranking) THEN <<ranking[position]>> ELSE <<>>
           turns == [position \in DOMAIN rs |-> At(small, position) \o At(large, position)]
           candidates == FlattenSeq(turns) \o rs
<1>1. prerankRoutes(r.pools, rs, limit) = IF Len(rs) <= limit THEN rs ELSE AddUpTo(<<>>, candidates, limit)
  BY DEF prerankRoutes
<1>2. rs \in Q /\ R \subseteq Paths(r.pools)
  <2>1. rs \in Q
    BY ListOf
  <2>2. R \subseteq Paths(r.pools)
    BY DEF Range
  <2> QED BY <2>1, <2>2
<1>3. backward \in Q
  BY <1>2, ReverseFacts
<1> HIDE DEF backward
<1>4. ASSUME NEW size \in {"small", "large"} PROVE Ranking(size) \in Q
  <2>1. Estimated(size) \in Q
    BY <1>3, OnlyFacts
  <2>2. /\ DOMAIN Estimated(size) = 1 .. Len(Estimated(size)) /\ Len(Estimated(size)) \in Nat
        /\ \A i \in DOMAIN Estimated(size) : Estimated(size)[i] \in Paths(r.pools)
    <3> HIDE DEF Estimated, R
    <3> QED BY <1>2, <2>1
  <2>3. \A i \in DOMAIN Estimated(size) : estimateOutput(r.pools, Estimated(size)[i], size) \in Nat
    BY <2>2, EstimateTypes
  <2> HIDE DEF Estimated, Q
  <2>4. Amount(size) \in Seq(Int) /\ Len(Amount(size)) = Len(Estimated(size))
    BY <2>2, <2>3
  <2> HIDE DEF Amount
  <2> QED BY <2>1, <2>4, SortedRange DEF Q
<1>5. small \in Q /\ large \in Q
  BY <1>4
<1> HIDE DEF small, large, Q
<1>6. ASSUME NEW ranking \in Q, NEW position \in DOMAIN rs PROVE At(ranking, position) \in Q
  <2>1. position \in Nat \ {0}
    BY <1>2
  <2>2. ASSUME position <= Len(ranking) PROVE <<ranking[position]>> \in Q
    <3>1. ranking[position] \in R
      BY <1>6, <2>1, <2>2 DEF Q
    <3> HIDE DEF R
    <3> QED BY <3>1 DEF Q
  <2>3. <<>> \in Q
    BY DEF Q
  <2> QED BY <2>2, <2>3
<1>7. \A position \in DOMAIN rs : At(small, position) \o At(large, position) \in Q
  <2>1. \A a, b \in Q : a \o b \in Q
    <3> HIDE DEF R
    <3> QED BY ConcatFacts DEF Q
  <2> HIDE DEF At
  <2> QED BY <1>5, <1>6, <2>1
<1>8. turns \in Seq(Q)
  <2>1. DOMAIN rs = 1 .. Len(rs) /\ Len(rs) \in Nat
    OBVIOUS
  <2> HIDE DEF At
  <2> QED BY <1>7, <2>1
<1> HIDE DEF turns, R
<1>9. FlattenSeq(turns) \in Q
  BY <1>8, FlattenFacts DEF Q
<1>10. candidates \in Q
  BY <1>2, <1>9, ConcatFacts DEF Q
<1>11. /\ AddUpTo(<<>>, candidates, limit) \in Q
       /\ IsInjective(AddUpTo(<<>>, candidates, limit))
  <2>1. <<>> \in Q /\ IsInjective(<<>>)
    BY DEF Q, IsInjective
  <2> HIDE DEF candidates
  <2> QED BY <1>10, <2>1, AddFacts, AddInjective DEF Q
<1>12. prerankRoutes(r.pools, rs, limit) \in Q /\ IsInjective(prerankRoutes(r.pools, rs, limit))
  BY <1>1, <1>2, <1>11
<1>13. Range(prerankRoutes(r.pools, rs, limit)) \subseteq R
  BY <1>12 DEF Range, Q
<1> QED BY <1>2, <1>12, <1>13, ListOf DEF Q, R

\* What is priced, and what is of another route or for another part.
Priced(R) == [route : R, percent : 1 .. Steps, quote : Nat \ {0}]

\* The quotes of another route or of another part.
Apart(R) == [x \in Priced(R) |-> {y \in Priced(R) : y.route # x.route \/ y.percent # x.percent}]

\* The quote of a route for a part that has a price.
PriceOf(prices, r, percent) == [route |-> r, percent |-> percent, quote |-> prices[r][percent]]

\* A quote, if there is a price.
LEMMA QuoteForFacts ==
  ASSUME NEW R, NEW prices \in [R -> Curves], NEW r \in R, NEW percent \in 1 .. Steps
  PROVE  /\ QuoteFor(prices, r, percent) \in Seq(Priced(R))
         /\ \A x : x \in Range(QuoteFor(prices, r, percent)) <=> prices[r][percent] # 0 /\ x = PriceOf(prices, r, percent)
         /\ Ordered(QuoteFor(prices, r, percent), Apart(R))
         /\ prices[r][percent] # 0 => PriceOf(prices, r, percent) \in Priced(R)
<1>1. prices[r][percent] \in Nat
  BY RoutingAssumption
<1>2. CASE prices[r][percent] = 0
  <2>1. QuoteFor(prices, r, percent) = <<>>
    BY <1>2 DEF QuoteFor
  <2>2. <<>> \in Seq(Priced(R)) /\ Range(<<>>) = {} /\ Ordered(<<>>, Apart(R))
    BY DEF Range, Ordered
  <2> QED BY <1>2, <2>1, <2>2
<1>3. CASE prices[r][percent] # 0
  <2> DEFINE x == PriceOf(prices, r, percent)
  <2>1. x \in Priced(R)
    BY <1>1, <1>3 DEF Priced, PriceOf
  <2>2. QuoteFor(prices, r, percent) = <<x>>
    BY <1>3 DEF QuoteFor, PriceOf
  <2> HIDE DEF x
  <2>3. <<x>> \in Seq(Priced(R)) /\ Range(<<x>>) = {x} /\ Ordered(<<x>>, Apart(R))
    BY <2>1 DEF Range, Ordered
  <2> QED BY <1>3, <2>1, <2>2, <2>3 DEF x
<1> QED BY <1>2, <1>3

\* The quotes of a route: one for each part it has a price for.
LEMMA RouteQuotes ==
  ASSUME NEW R, NEW prices \in [R -> Curves], NEW r \in R, NEW percents \in Seq(1 .. Steps), IsInjective(percents)
  PROVE  LET these == FlattenSeq([n \in DOMAIN percents |-> QuoteFor(prices, r, percents[n])])
         IN  /\ these \in Seq(Priced(R))
             /\ \A x : x \in Range(these) <=>
                  \E percent \in Range(percents) : prices[r][percent] # 0 /\ x = PriceOf(prices, r, percent)
             /\ Ordered(these, Apart(R))
<1> DEFINE T == Seq(Priced(R))
           lists == [n \in DOMAIN percents |-> QuoteFor(prices, r, percents[n])]
<1>1. DOMAIN percents = 1 .. Len(percents) /\ Len(percents) \in Nat /\ \A n \in DOMAIN percents : percents[n] \in 1 .. Steps
  <2>1. \A Parts : percents \in Seq(Parts) =>
          (DOMAIN percents = 1 .. Len(percents) /\ Len(percents) \in Nat /\ \A n \in DOMAIN percents : percents[n] \in Parts)
    OBVIOUS
  <2> QED BY <2>1, Zenon
<1>2. \A n \in DOMAIN percents :
        /\ QuoteFor(prices, r, percents[n]) \in T
        /\ \A x : x \in Range(QuoteFor(prices, r, percents[n])) <=>
             (prices[r][percents[n]] # 0 /\ x = PriceOf(prices, r, percents[n]))
        /\ Ordered(QuoteFor(prices, r, percents[n]), Apart(R))
        /\ (prices[r][percents[n]] # 0 => PriceOf(prices, r, percents[n]) \in Priced(R))
  BY <1>1, QuoteForFacts
<1>3. lists \in Seq(T) /\ DOMAIN lists = DOMAIN percents /\ \A n \in DOMAIN percents : lists[n] = QuoteFor(prices, r, percents[n])
  <2> HIDE DEF T
  <2> QED BY <1>1, <1>2
<1> HIDE DEF lists
<1>4. FlattenSeq(lists) \in T /\ Range(FlattenSeq(lists)) = UNION {Range(lists[n]) : n \in DOMAIN lists}
  BY <1>3, FlattenFacts
<1>5. ASSUME NEW x
      PROVE  x \in Range(FlattenSeq(lists)) <=>
               \E percent \in Range(percents) : (prices[r][percent] # 0 /\ x = PriceOf(prices, r, percent))
  <2>1. x \in Range(FlattenSeq(lists)) <=> \E n \in DOMAIN percents : x \in Range(QuoteFor(prices, r, percents[n]))
    BY <1>3, <1>4
  <2>2. \A n \in DOMAIN percents : x \in Range(QuoteFor(prices, r, percents[n])) <=>
          (prices[r][percents[n]] # 0 /\ x = PriceOf(prices, r, percents[n]))
    BY <1>2, Zenon
  <2>3. x \in Range(FlattenSeq(lists)) <=>
          \E n \in DOMAIN percents : (prices[r][percents[n]] # 0 /\ x = PriceOf(prices, r, percents[n]))
    BY ONLY <2>1, <2>2, Zenon
  <2> QED BY <2>3, Zenon DEF Range
<1>6. ASSUME NEW i \in DOMAIN lists, NEW j \in DOMAIN lists, i < j, NEW x \in Range(lists[i]), NEW y \in Range(lists[j])
      PROVE  y \in Apart(R)[x]
  <2>1. percents[i] # percents[j]
    BY <1>1, <1>3, <1>6 DEF IsInjective
  <2>2. /\ x = PriceOf(prices, r, percents[i]) /\ x \in Priced(R)
        /\ y = PriceOf(prices, r, percents[j]) /\ y \in Priced(R)
    BY <1>2, <1>3, <1>6
  <2>3. x.percent # y.percent
    BY <2>1, <2>2 DEF PriceOf
  <2> QED BY <2>2, <2>3 DEF Apart
<1>7. Ordered(FlattenSeq(lists), Apart(R))
  <2>1. \A i \in DOMAIN lists : Ordered(lists[i], Apart(R))
    BY <1>2, <1>3
  <2> QED BY <1>3, <1>6, <2>1, FlattenOrdered
<1> QED BY <1>4, <1>5, <1>7 DEF lists

\* Nothing is lost when v2 routes are priced first, as long as all routes can be priced.
LEMMA QuotingOrderFacts ==
  ASSUME NEW R, NEW rs \in Seq(R), IsInjective(rs)
  PROVE  /\ InQuotingOrder(rs) \in Seq(R)
         /\ IsInjective(InQuotingOrder(rs))
         /\ Range(InQuotingOrder(rs)) \subseteq Range(rs)
         /\ (\A r \in Range(rs) : routeSupportsTradeType(request.pools, r, request.tradeType)) =>
              Range(rs) \subseteq Range(InQuotingOrder(rs))
<1> DEFINE Of(protocol) == Only(rs, {r \in Range(rs) : Protocol(request.pools, r) = protocol})
           both == Of("V2") \o Of("CL")
<1>1. CASE request.tradeType = "EXACT_INPUT"
  BY <1>1 DEF InQuotingOrder
<1>2. CASE request.tradeType # "EXACT_INPUT"
  <2>1. InQuotingOrder(rs) = both
    BY <1>2 DEF InQuotingOrder
  <2>2. ASSUME NEW protocol
        PROVE  /\ Of(protocol) \in Seq(R)
               /\ Range(Of(protocol)) = {r \in Range(rs) : Protocol(request.pools, r) = protocol}
               /\ Ordered(Of(protocol), Others(R))
    <3>1. /\ Of(protocol) \in Seq(R)
          /\ Range(Of(protocol)) = Range(rs) \intersect {r \in Range(rs) : Protocol(request.pools, r) = protocol}
      BY OnlyFacts
    <3>2. Ordered(Of(protocol), Others(R))
      BY OrderedOthers, OnlyOrdered
    <3> QED BY <3>1, <3>2
  <2>3. /\ Of("V2") \in Seq(R) /\ Of("CL") \in Seq(R)
        /\ Range(Of("V2")) = {r \in Range(rs) : Protocol(request.pools, r) = "V2"}
        /\ Range(Of("CL")) = {r \in Range(rs) : Protocol(request.pools, r) = "CL"}
        /\ Ordered(Of("V2"), Others(R)) /\ Ordered(Of("CL"), Others(R))
    BY <2>2
  <2> HIDE DEF Of
  <2>4. both \in Seq(R) /\ Range(both) = Range(Of("V2")) \union Range(Of("CL"))
    BY <2>3, ConcatFacts
  <2>5. \A x \in Range(Of("V2")), y \in Range(Of("CL")) : y \in Others(R)[x]
    <3>1. \A x \in Range(Of("V2")), y \in Range(Of("CL")) : x # y
      BY <2>3
    <3>2. Range(rs) \subseteq R
      BY DEF Range
    <3> QED BY <2>3, <3>1, <3>2 DEF Others
  <2>6. Ordered(both, Others(R))
    BY <2>3, <2>5, ConcatOrdered
  <2> HIDE DEF both
  <2>7. IsInjective(both)
    BY <2>4, <2>6, OrderedOthers
  <2>8. ASSUME \A r \in Range(rs) : routeSupportsTradeType(request.pools, r, request.tradeType)
        PROVE  Range(rs) \subseteq Range(both)
    <3>1. \A r \in Range(rs) : Protocol(request.pools, r) = "CL" \/ Protocol(request.pools, r) = "V2"
      BY <1>2, <2>8 DEF routeSupportsTradeType
    <3> QED BY <2>3, <2>4, <3>1
  <2> QED BY <2>1, <2>3, <2>4, <2>7, <2>8
<1> QED BY <1>1, <1>2

\* All quotes: one for each route and part that has a price, and never two.
LEMMA GetQuotesFacts ==
  ASSUME NEW R, NEW prices \in [R -> Curves], NEW rs \in Seq(R), IsInjective(rs),
         NEW percents \in Seq(1 .. Steps), IsInjective(percents),
         \A r \in Range(rs) : routeSupportsTradeType(request.pools, r, request.tradeType)
  PROVE  /\ getQuotes(prices, rs, percents) \in Seq(Priced(R))
         /\ \A x : x \in Range(getQuotes(prices, rs, percents)) <=>
              \E r \in Range(rs), percent \in Range(percents) :
                prices[r][percent] # 0 /\ x = PriceOf(prices, r, percent)
         /\ Ordered(getQuotes(prices, rs, percents), Apart(R))
<1> DEFINE ordered == InQuotingOrder(rs)
           These(r) == FlattenSeq([n \in DOMAIN percents |-> QuoteFor(prices, r, percents[n])])
           T == Seq(Priced(R))
           lists == [k \in DOMAIN ordered |-> These(ordered[k])]
<1>1. getQuotes(prices, rs, percents) = FlattenSeq(lists)
  BY DEF getQuotes
<1>2. ordered \in Seq(R) /\ IsInjective(ordered) /\ Range(ordered) = Range(rs)
  <2>1. /\ ordered \in Seq(R) /\ IsInjective(ordered) /\ Range(ordered) \subseteq Range(rs)
        /\ Range(rs) \subseteq Range(ordered)
    BY QuotingOrderFacts, Zenon
  <2> QED BY <2>1, Zenon
<1> HIDE DEF ordered
<1>3. DOMAIN ordered = 1 .. Len(ordered) /\ Len(ordered) \in Nat /\ \A k \in DOMAIN ordered : ordered[k] \in R
  BY <1>2
<1>4. ASSUME NEW r \in R
      PROVE  /\ These(r) \in T
             /\ \A x : x \in Range(These(r)) <=>
                  \E percent \in Range(percents) : (prices[r][percent] # 0 /\ x = PriceOf(prices, r, percent))
             /\ Ordered(These(r), Apart(R))
  BY RouteQuotes
<1> HIDE DEF These
<1>5. lists \in Seq(T) /\ DOMAIN lists = DOMAIN ordered /\ \A k \in DOMAIN ordered : lists[k] = These(ordered[k])
  <2> HIDE DEF T
  <2> QED BY <1>3, <1>4
<1> HIDE DEF lists
<1>6. FlattenSeq(lists) \in T /\ Range(FlattenSeq(lists)) = UNION {Range(lists[k]) : k \in DOMAIN lists}
  BY <1>5, FlattenFacts
<1>7. ASSUME NEW x
      PROVE  x \in Range(FlattenSeq(lists)) <=>
               \E r \in Range(rs), percent \in Range(percents) : (prices[r][percent] # 0 /\ x = PriceOf(prices, r, percent))
  <2>1. x \in Range(FlattenSeq(lists)) <=> \E k \in DOMAIN ordered : x \in Range(These(ordered[k]))
    BY <1>5, <1>6
  <2>2. \A r \in R : x \in Range(These(r)) <=>
          \E percent \in Range(percents) : (prices[r][percent] # 0 /\ x = PriceOf(prices, r, percent))
    BY <1>4, Zenon
  <2>3. x \in Range(FlattenSeq(lists)) <=> \E r \in Range(ordered) : x \in Range(These(r))
    BY <2>1, Zenon DEF Range
  <2>4. Range(rs) \subseteq R
    BY DEF Range
  <2>5. x \in Range(FlattenSeq(lists)) <=> \E r \in Range(rs) : x \in Range(These(r))
    BY <1>2, <2>3
  <2> QED BY ONLY <2>2, <2>4, <2>5, Zenon
<1>8. ASSUME NEW i \in DOMAIN lists, NEW j \in DOMAIN lists, i < j, NEW x \in Range(lists[i]), NEW y \in Range(lists[j])
      PROVE  y \in Apart(R)[x]
  <2>1. ordered[i] # ordered[j]
    BY <1>2, <1>3, <1>5, <1>8 DEF IsInjective
  <2>2. \A k \in DOMAIN lists : \A z \in Range(lists[k]) : z \in Priced(R)
    <3>1. \A k \in DOMAIN lists : lists[k] \in T
      BY <1>3, <1>4, <1>5
    <3> QED BY <3>1 DEF Range
  <2>3. ASSUME NEW k \in DOMAIN lists, NEW z \in Range(lists[k]) PROVE z.route = ordered[k]
    <3>1. ordered[k] \in R /\ z \in Range(These(ordered[k]))
      BY <1>3, <1>5, <2>3
    <3>2. PICK percent \in Range(percents) : z = PriceOf(prices, ordered[k], percent)
      BY <1>4, <3>1
    <3> QED BY <3>2 DEF PriceOf
  <2>4. x.route # y.route
    BY <1>8, <2>1, <2>3
  <2> QED BY <1>8, <2>2, <2>4 DEF Apart
<1>9. Ordered(FlattenSeq(lists), Apart(R))
  <2>1. \A i \in DOMAIN lists : Ordered(lists[i], Apart(R))
    BY <1>3, <1>4, <1>5
  <2> QED BY <1>5, <1>8, <2>1, FlattenOrdered
<1> QED BY <1>1, <1>6, <1>7, <1>9

\* The quotes of a size, ranked: the first is as good as any.
LEMMA RankedQuotes ==
  ASSUME NEW R, NEW screen \in Seq(Priced(R)), NEW percent
  PROVE  /\ Ranked(screen, percent) \in Seq(Priced(R))
         /\ Range(Ranked(screen, percent)) = {q \in Range(screen) : q.percent = percent}
         /\ \A q \in Range(screen) :
              q.percent = percent =>
                /\ Len(Ranked(screen, percent)) > 0
                /\ ~better(request.tradeType, q.quote, Ranked(screen, percent)[1].quote)
<1> DEFINE Q == Priced(R)
           chosen == Only(Reverse(screen), {q \in Range(screen) : q.percent = percent})
           amounts == Amounts(chosen)
           ranked == Sorted(request.tradeType, amounts, chosen)
           L == Len(chosen)
<1>1. Ranked(screen, percent) = ranked
  BY DEF Ranked
<1> HIDE DEF Q
<1>2. chosen \in Seq(Q) /\ Range(chosen) = {q \in Range(screen) : q.percent = percent}
  <2>1. screen \in Seq(Q)
    BY DEF Q
  <2>2. Reverse(screen) \in Seq(Q) /\ Range(Reverse(screen)) = Range(screen)
    BY <2>1, ReverseFacts
  <2>3. /\ chosen \in Seq(Q)
        /\ Range(chosen) = Range(Reverse(screen)) \intersect {q \in Range(screen) : q.percent = percent}
    BY <2>2, OnlyFacts
  <2> QED BY <2>2, <2>3
<1> HIDE DEF chosen
<1>3. L \in Nat /\ DOMAIN chosen = 1 .. L /\ \A i \in 1 .. L : chosen[i] \in Q
  BY <1>2
<1>4. \A q \in Q : q.quote \in Nat
  BY DEF Q, Priced
<1>5. amounts \in Seq(Int) /\ Len(amounts) = L /\ \A i \in 1 .. L : amounts[i] = chosen[i].quote /\ amounts[i] \in Nat
  BY <1>3, <1>4 DEF Amounts
<1> HIDE DEF amounts
<1>6. ranked \in Seq(Q) /\ Len(ranked) = L /\ Range(ranked) = Range(chosen)
  BY <1>2, <1>5, SortedRange
<1>7. PICK place : IsSorting(place, request.tradeType, amounts, chosen)
  BY <1>2, <1>5, SortedFacts, Zenon
<1>8. /\ ranked = [n \in 1 .. L |-> chosen[place[n]]]
      /\ \A n \in 1 .. L : place[n] \in 1 .. L
      /\ \A m, n \in 1 .. L : m < n => ~better(request.tradeType, amounts[place[n]], amounts[place[m]])
  BY <1>7 DEF IsSorting
<1>9. \A i \in 1 .. L : \E n \in 1 .. L : place[n] = i
  BY <1>7, Zenon DEF IsSorting
<1>10. ASSUME NEW q \in Range(screen), q.percent = percent
       PROVE  L > 0 /\ ~better(request.tradeType, q.quote, ranked[1].quote)
  <2>1. PICK i \in 1 .. L : q = chosen[i]
    BY <1>2, <1>3, <1>10 DEF Range
  <2>2. L > 0 /\ 1 \in 1 .. L
    BY <1>3, <2>1
  <2>3. PICK n \in 1 .. L : place[n] = i
    BY <1>9
  <2>4. ranked[1].quote = amounts[place[1]] /\ q.quote = amounts[place[n]]
    BY <1>5, <1>8, <2>1, <2>2, <2>3
  <2>5. CASE n = 1
    <3>1. amounts[place[1]] \in Nat
      BY <1>5, <1>8, <2>2
    <3> QED BY <2>2, <2>4, <2>5, <3>1 DEF better
  <2>6. CASE n # 1
    <3>1. 1 < n
      BY <1>3, <2>3, <2>6
    <3> QED BY <1>8, <2>2, <2>4, <3>1
  <2> QED BY <2>5, <2>6
<1> HIDE DEF ranked
<1> QED BY <1>1, <1>2, <1>6, <1>10 DEF Q

\* What survives the screen: routes that were quoted, none twice, and for each quote the route of one
\* for the same part that is as good.
LEMMA PickFacts ==
  ASSUME NEW R, NEW screen \in Seq(Priced(R)), screen # <<>>, NEW limit \in Nat \ {0}
  PROVE  /\ pickBestRoutes(screen, limit) \in Seq(R)
         /\ IsInjective(pickBestRoutes(screen, limit))
         /\ \A q \in Range(screen) : \E best \in Range(screen) :
              /\ best.percent = q.percent
              /\ best.route \in Range(pickBestRoutes(screen, limit))
              /\ ~better(request.tradeType, q.quote, best.quote)
<1> DEFINE Q == Priced(R)
           parts == [i \in DOMAIN screen |-> screen[i].percent]
           percents == AddUpTo(<<>>, parts, Len(screen))
           largest == CHOOSE p \in Range(percents) : \A q \in Range(percents) : p >= q
           perPercent == (limit + Len(percents) - 1) \div Len(percents)
           RoutesIn(qs) == [i \in DOMAIN qs |-> qs[i].route]
           lists == [k \in DOMAIN percents |-> RoutesIn(FirstOf(Ranked(screen, percents[k]), perPercent))]
           tops == FlattenSeq(lists)
           survivors == AddUpTo(<<>>, tops, Len(tops))
           picked == AddUpTo(survivors, RoutesIn(Ranked(screen, largest)), limit)
           T == Seq(R)
<1>1. pickBestRoutes(screen, limit) = picked
  BY DEF pickBestRoutes
<1>2. Len(screen) \in Nat /\ Len(screen) > 0 /\ DOMAIN screen = 1 .. Len(screen) /\ \A i \in DOMAIN screen : screen[i] \in Q
  <2> HIDE DEF Q
  <2>1. screen \in Seq(Q)
    BY DEF Q
  <2> QED BY <2>1
<1>3. \A q \in Q : q.percent \in 1 .. Steps /\ q.route \in R
  BY DEF Priced
<1> HIDE DEF Q
<1>4. parts \in Seq(1 .. Steps) /\ Len(parts) = Len(screen) /\ \A i \in DOMAIN screen : parts[i] = screen[i].percent /\ i \in DOMAIN parts
  <2> DEFINE Parts == 1 .. Steps
  <2>1. \A i \in DOMAIN screen : screen[i].percent \in Parts
    BY <1>2, <1>3
  <2> HIDE DEF Parts
  <2> QED BY <1>2, <2>1 DEF Parts
<1> HIDE DEF parts
<1>5. percents \in Seq(1 .. Steps) /\ Range(parts) \subseteq Range(percents)
  <2> DEFINE Parts == 1 .. Steps
  <2>1. <<>> \in Seq(Parts) /\ Len(<<>>) = 0
    OBVIOUS
  <2>2. parts \in Seq(Parts) /\ Len(screen) >= Len(<<>>) + Len(parts) /\ Len(screen) \in Int
    BY <1>2, <1>4, <2>1
  <2> HIDE DEF Parts
  <2>3. percents \in Seq(Parts) /\ Range(parts) \subseteq Range(percents)
    BY <2>1, <2>2, AddFacts
  <2> QED BY <2>3 DEF Parts
<1>6. \A q \in Range(screen) : \E k \in DOMAIN percents : percents[k] = q.percent
  <2>1. ASSUME NEW q \in Range(screen) PROVE \E k \in DOMAIN percents : percents[k] = q.percent
    <3>1. PICK i \in DOMAIN screen : q = screen[i]
      BY DEF Range
    <3>2. q.percent \in Range(parts)
      BY <1>4, <3>1 DEF Range
    <3>3. q.percent \in Range(percents)
      BY <1>5, <3>2
    <3> QED BY <3>3 DEF Range
  <2> QED BY <2>1
<1> HIDE DEF percents
<1>7. perPercent \in Nat \ {0}
  <2>1. Len(percents) \in Nat
    BY <1>5
  <2>2. Len(percents) # 0
    <3>1. screen[1] \in Range(screen)
      BY <1>2 DEF Range
    <3>2. PICK k \in DOMAIN percents : percents[k] = screen[1].percent
      BY <1>6, <3>1
    <3>3. DOMAIN percents = 1 .. Len(percents)
      BY <1>5
    <3> QED BY <2>1, <3>2, <3>3
  <2>3. \A a \in Nat, b \in Nat \ {0} : a >= b => a \div b \in Nat \ {0}
    OBVIOUS
  <2>4. limit + Len(percents) - 1 \in Nat /\ limit + Len(percents) - 1 >= Len(percents)
    BY <2>1
  <2> QED BY <2>1, <2>2, <2>3, <2>4
<1> HIDE DEF perPercent
<1>8. ASSUME NEW qs \in Seq(Q)
      PROVE  RoutesIn(qs) \in T /\ \A q \in Range(qs) : q.route \in Range(RoutesIn(qs))
  <2>1. Len(qs) \in Nat /\ DOMAIN qs = 1 .. Len(qs) /\ \A i \in DOMAIN qs : qs[i].route \in R
    BY <1>3
  <2>2. RoutesIn(qs) \in T
    BY <2>1
  <2>3. \A q \in Range(qs) : q.route \in Range(RoutesIn(qs))
    BY DEF Range
  <2> QED BY <2>2, <2>3
<1>9. ASSUME NEW p
      PROVE  /\ Ranked(screen, p) \in Seq(Q)
             /\ FirstOf(Ranked(screen, p), perPercent) \in Seq(Q)
             /\ Range(Ranked(screen, p)) = {q \in Range(screen) : q.percent = p}
             /\ \A q \in Range(screen) : q.percent = p =>
                  /\ Ranked(screen, p)[1] \in Range(screen) /\ Ranked(screen, p)[1].percent = p
                  /\ Ranked(screen, p)[1] \in Range(FirstOf(Ranked(screen, p), perPercent))
                  /\ ~better(request.tradeType, q.quote, Ranked(screen, p)[1].quote)
  <2>1. /\ Ranked(screen, p) \in Seq(Q)
        /\ Range(Ranked(screen, p)) = {q \in Range(screen) : q.percent = p}
        /\ \A q \in Range(screen) : q.percent = p =>
             (Len(Ranked(screen, p)) > 0 /\ ~better(request.tradeType, q.quote, Ranked(screen, p)[1].quote))
    BY RankedQuotes DEF Q
  <2>2. /\ FirstOf(Ranked(screen, p), perPercent) \in Seq(Q)
        /\ (perPercent > 0 /\ Len(Ranked(screen, p)) > 0) =>
             Ranked(screen, p)[1] \in Range(FirstOf(Ranked(screen, p), perPercent))
    BY <1>7, <2>1, FirstOfFacts
  <2>3. Len(Ranked(screen, p)) > 0 => Ranked(screen, p)[1] \in Range(Ranked(screen, p))
    <3> DEFINE r == Ranked(screen, p)
    <3>1. DOMAIN r = 1 .. Len(r) /\ Len(r) \in Nat
      BY <2>1
    <3> QED BY <3>1 DEF Range
  <2> QED BY <1>7, <2>1, <2>2, <2>3
<1> HIDE DEF RoutesIn
<1>10. /\ lists \in Seq(T) /\ DOMAIN lists = DOMAIN percents
       /\ \A k \in DOMAIN percents : lists[k] = RoutesIn(FirstOf(Ranked(screen, percents[k]), perPercent))
  <2>1. DOMAIN percents = 1 .. Len(percents) /\ Len(percents) \in Nat
    BY <1>5
  <2>2. \A k \in DOMAIN percents : RoutesIn(FirstOf(Ranked(screen, percents[k]), perPercent)) \in T
    BY <1>8, <1>9
  <2> HIDE DEF T
  <2> QED BY <2>1, <2>2
<1> HIDE DEF lists, largest
<1>11. tops \in T /\ Range(tops) = UNION {Range(lists[k]) : k \in DOMAIN lists}
  BY <1>10, FlattenFacts
<1> HIDE DEF tops
<1>12. survivors \in T /\ IsInjective(survivors) /\ Range(tops) \subseteq Range(survivors)
  <2>1. <<>> \in Seq(R) /\ Len(<<>>) = 0 /\ IsInjective(<<>>)
    BY DEF IsInjective
  <2>2. tops \in Seq(R) /\ Len(tops) \in Int /\ Len(tops) >= Len(<<>>) + Len(tops)
    BY <1>11, <2>1
  <2> QED BY <2>1, <2>2, AddFacts, AddInjective
<1> HIDE DEF survivors
<1>13. picked \in T /\ IsInjective(picked) /\ Range(survivors) \subseteq Range(picked)
  <2> DEFINE more == RoutesIn(Ranked(screen, largest))
             grown == AddUpTo(survivors, more, limit)
  <2>1. more \in T /\ limit \in Int
    BY <1>8, <1>9
  <2> HIDE DEF more
  <2>2. grown \in T /\ Range(survivors) \subseteq Range(grown)
    BY <1>12, <2>1, AddFacts
  <2>3. IsInjective(grown)
    BY <1>12, <2>1, AddInjective
  <2> QED BY <2>2, <2>3 DEF more
<1> HIDE DEF picked
<1>14. ASSUME NEW q \in Range(screen)
       PROVE  \E best \in Range(screen) :
                best.percent = q.percent /\ best.route \in Range(picked) /\ ~better(request.tradeType, q.quote, best.quote)
  <2>1. PICK k \in DOMAIN percents : percents[k] = q.percent
    BY <1>6
  <2> DEFINE best == Ranked(screen, percents[k])[1]
             first == FirstOf(Ranked(screen, percents[k]), perPercent)
  <2>2. /\ best \in Range(screen) /\ best.percent = q.percent /\ best \in Range(first) /\ first \in Seq(Q)
        /\ ~better(request.tradeType, q.quote, best.quote)
    BY <1>9, <2>1
  <2>3. best.route \in Range(RoutesIn(first))
    <3> HIDE DEF first, best
    <3> QED BY <1>8, <2>2
  <2>4. lists[k] = RoutesIn(first) /\ k \in DOMAIN lists
    BY <1>10
  <2> HIDE DEF best, first
  <2>5. best.route \in Range(tops)
    BY <1>11, <2>3, <2>4
  <2>6. best.route \in Range(picked)
    BY <1>12, <1>13, <2>5
  <2> QED BY <2>2, <2>6
<1> QED BY <1>1, <1>13, <1>14

-----------------------------------------------------------------------------
(* What the best split is worth *)

\* No worse than what is no worse is no worse.
LEMMA NoWorse ==
  ASSUME NEW tradeType, NEW a \in Nat, NEW b \in Nat, NEW c \in Nat, ~better(tradeType, a, b), ~better(tradeType, b, c)
  PROVE  ~better(tradeType, a, c)
BY DEF better

\* The legs of a trade.
LEMMA BestSplit ==
  ASSUME NEW qs, AreQuotes(qs), NEW tradeType, NEW maxSplits \in Nat, NEW minSplits \in 1 .. maxSplits,
         getBestSwapRoute(qs, tradeType, minSplits, maxSplits) # <<>>
  PROVE  LET best == getBestSwapRoute(qs, tradeType, minSplits, maxSplits)
         IN  /\ PercentOf(best) = Steps
             /\ Len(best) \in minSplits .. maxSplits
             /\ NoPoolTwice(best)
             /\ Range(best) \subseteq Range(qs)
             /\ QuoteOf(best) \in Nat
<1> DEFINE best == getBestSwapRoute(qs, tradeType, minSplits, maxSplits)
<1>1. PICK entry \in Range(Found(tradeType, qs, maxSplits)) : Complete(entry, minSplits) /\ best = entry.routes
  BY BestFacts
<1>2. maxSplits \in Nat \ {0} /\ minSplits \in Nat
  OBVIOUS
<1>3. PICK size \in 1 .. maxSplits : IsSplit(entry, qs, size)
  BY <1>1, <1>2, FoundFacts
<1> HIDE DEF best
<1>4. entry.routes \in Seq(Range(qs)) /\ entry.remainingPercent \in Nat
  BY <1>3 DEF IsSplit, QueueEntries
<1>5. Len(best) = size /\ Len(best) >= minSplits /\ NoPoolTwice(best)
  BY <1>1, <1>3 DEF IsSplit, Complete
<1>6. Len(best) \in minSplits .. maxSplits
  BY <1>2, <1>5
<1>7. QuoteOf(best) \in Nat /\ PercentOf(best) \in Nat
  <2>1. best \in Seq(Range(qs)) /\ Len(best) # 0
    BY <1>1, <1>2, <1>4, <1>5
  <2>2. best[1] \in Range(qs)
    BY <2>1
  <2>3. \A q \in Range(qs) : q.quote \in Nat /\ q.percent \in Nat
    BY QuoteTypes
  <2> QED BY <2>1, <2>2, <2>3, SumFacts
<1>8. PercentOf(best) = Steps
  <2>1. PercentOf(best) + 0 = Steps
    BY <1>1, <1>3 DEF IsSplit, Complete
  <2> QED BY <1>7, <2>1
<1>9. Range(best) \subseteq Range(qs)
  BY <1>1, <1>4 DEF Range
<1> QED BY <1>5, <1>6, <1>7, <1>8, <1>9 DEF best

\* No single route is better.
LEMMA BestSingle ==
  ASSUME NEW qs, AreQuotes(qs), NEW tradeType, NEW maxSplits \in Nat \ {0}, NEW i \in DOMAIN qs, qs[i].percent = Steps
  PROVE  LET best == getBestSwapRoute(qs, tradeType, 1, maxSplits)
         IN  best # <<>> /\ ~better(tradeType, qs[i].quote, QuoteOf(best))
<1> DEFINE best == getBestSwapRoute(qs, tradeType, 1, maxSplits)
           places == Places(qs, Steps)
           first == FirstBest(tradeType, Amounts(qs), places)
           seed == Seed(qs, first)
<1>1. i \in places /\ places \subseteq DOMAIN qs /\ places # {}
  BY DEF Places
<1>2. first \in places /\ ~better(tradeType, qs[i].quote, qs[first].quote)
  BY <1>1, BestPlace
<1>3. seed \in Range(Found(tradeType, qs, maxSplits))
  <2>1. Steps \in 1 .. Steps
    BY StepsAssumption
  <2>2. seed \in Range(Seeds(tradeType, qs))
    BY <1>1, <2>1, SeedsFacts
  <2> QED BY <2>2, FoundFacts
<1>4. first \in DOMAIN qs /\ qs[first].percent = Steps
  BY <1>2 DEF Places
<1> HIDE DEF first
<1>5. QuoteOf(seed.routes) = qs[first].quote /\ Len(seed.routes) = 1
  BY <1>4, SeedFacts DEF IsSplit
<1>6. seed.remainingPercent = 0
  BY <1>4, StepsAssumption DEF Seed
<1> HIDE DEF seed
<1>7. Complete(seed, 1)
  BY <1>5, <1>6 DEF Complete
<1>8. 1 \in 1 .. maxSplits /\ maxSplits \in Nat
  OBVIOUS
<1>9. best # <<>> /\ ~better(tradeType, QuoteOf(seed.routes), QuoteOf(best))
  BY <1>3, <1>7, <1>8, BestFacts
<1>10. QuoteOf(best) \in Nat
  BY <1>8, <1>9, BestSplit
<1>11. qs[i].quote \in Nat /\ qs[first].quote \in Nat
  BY <1>4, QuoteTypes
<1> HIDE DEF best
<1>12. ~better(tradeType, qs[i].quote, QuoteOf(best))
  BY <1>2, <1>5, <1>9, <1>10, <1>11, NoWorse
<1> QED BY <1>9, <1>12 DEF best

\* A route is quoted at most once for each part.
EachOnce(qs) ==
  \A i, j \in DOMAIN qs : i # j => qs[i].route # qs[j].route \/ qs[i].percent # qs[j].percent

\* Routes that differ have no pool in common.
NoConflict(qs) ==
  \A i, j \in DOMAIN qs : \/ qs[i].route = qs[j].route
                         \/ Range(qs[i].route) \intersect Range(qs[j].route) = {}

\* A seed of some size for another route than a given one, no worse than the i-th quote.
IsBase(qs, tradeType, i, route, base) ==
  /\ base \in DOMAIN qs /\ qs[base].percent = qs[i].percent /\ qs[base].route # route
  /\ Seed(qs, base) \in Range(Seeds(tradeType, qs))
  /\ ~better(tradeType, qs[i].quote, qs[base].quote)

\* Of the two best quotes for a part, one is for another route than some given one.
LEMMA OneOfTwo ==
  ASSUME NEW qs, AreQuotes(qs), EachOnce(qs), NEW tradeType, NEW i \in DOMAIN qs, NEW route, qs[i].route # route
  PROVE  \E base : IsBase(qs, tradeType, i, route, base)
<1> DEFINE percent == qs[i].percent
           places == Places(qs, percent)
           first == FirstBest(tradeType, Amounts(qs), places)
           second == FirstBest(tradeType, Amounts(qs), places \ {first})
<1>1. percent \in 1 .. Steps
  BY QuoteTypes
<1>2. i \in places /\ places \subseteq DOMAIN qs /\ \A k \in places : qs[k].percent = percent
  BY DEF Places
<1>3. first \in places /\ ~better(tradeType, qs[i].quote, qs[first].quote)
  BY <1>2, BestPlace
<1>4. Seed(qs, first) \in Range(Seeds(tradeType, qs))
  BY <1>1, <1>2, SeedsFacts
<1>5. CASE qs[first].route # route
  <2> HIDE DEF first, places, percent
  <2>1. IsBase(qs, tradeType, i, route, first)
    BY <1>2, <1>3, <1>4, <1>5 DEF percent, IsBase
  <2> QED BY <2>1
<1>6. CASE qs[first].route = route
  <2>1. i \in places \ {first}
    BY <1>2, <1>6
  <2>2. places \ {first} \subseteq DOMAIN qs /\ places \ {first} # {}
    BY <1>2, <2>1
  <2>3. second \in places \ {first} /\ ~better(tradeType, qs[i].quote, qs[second].quote)
    <3> HIDE DEF first, places
    <3> QED BY <2>1, <2>2, BestPlace
  <2>4. Seed(qs, second) \in Range(Seeds(tradeType, qs))
    BY <1>1, <2>2, SeedsFacts
  <2> HIDE DEF second, first, places, percent
  <2>5. qs[second].route # route
    BY <1>2, <1>3, <1>6, <2>3 DEF EachOnce
  <2>6. IsBase(qs, tradeType, i, route, second)
    BY <1>2, <2>3, <2>4, <2>5 DEF percent, IsBase
  <2> QED BY <2>6
<1> QED BY <1>5, <1>6

\* No pair is better, the larger part of which is given first.
LEMMA BestPair ==
  ASSUME NEW qs, AreQuotes(qs), EachOnce(qs), NoConflict(qs), NEW tradeType, NEW minSplits \in 1 .. 2,
         NEW i \in DOMAIN qs, NEW j \in DOMAIN qs, qs[i].route # qs[j].route,
         qs[i].percent + qs[j].percent = Steps, qs[i].percent >= qs[j].percent
  PROVE  LET best == getBestSwapRoute(qs, tradeType, minSplits, 2)
         IN  best # <<>> /\ ~better(tradeType, qs[i].quote + qs[j].quote, QuoteOf(best))
<1> DEFINE best == getBestSwapRoute(qs, tradeType, minSplits, 2)
           part == qs[j].percent
<1>1. /\ part \in 1 .. Steps /\ part \in Nat /\ qs[i].percent \in 1 .. Steps /\ qs[i].percent \in Nat
      /\ qs[i].quote \in Nat /\ qs[j].quote \in Nat
  BY QuoteTypes, StepsAssumption
<1>2. PICK base \in DOMAIN qs :
        /\ qs[base].percent = qs[i].percent /\ qs[base].route # qs[j].route
        /\ Seed(qs, base) \in Range(Seeds(tradeType, qs))
        /\ ~better(tradeType, qs[i].quote, qs[base].quote)
  <2>1. \E base : IsBase(qs, tradeType, i, qs[j].route, base)
    BY OneOfTwo, Zenon
  <2> QED BY <2>1 DEF IsBase
<1> DEFINE seed == Seed(qs, base)
           candidates == Candidates(qs, seed, part)
           place == FirstBest(tradeType, Amounts(qs), candidates)
           pair == Longer1(tradeType, qs, seed, part)
<1>3. seed.percentIndex = qs[i].percent /\ seed.remainingPercent = part /\ seed.routes = <<qs[base]>>
  BY <1>1, <1>2 DEF Seed
<1>4. IsSplit(seed, qs, 1) /\ seed \in QueueEntries(qs) /\ QuoteOf(seed.routes) = qs[base].quote
  BY <1>2, SeedFacts DEF IsSplit
<1> HIDE DEF seed
<1>5. j \in candidates
  <2>1. PoolsOf(<<qs[base]>>) = Range(qs[base].route)
    BY DEF PoolsOf
  <2>2. Range(qs[j].route) \intersect PoolsOf(seed.routes) = {}
    BY <1>2, <1>3, <2>1 DEF NoConflict
  <2> QED BY <2>2 DEF Candidates, Places
<1>6. candidates \subseteq DOMAIN qs
  BY DEF Candidates, Places
<1> HIDE DEF candidates
<1>7. place \in DOMAIN qs /\ ~better(tradeType, qs[j].quote, qs[place].quote)
  BY <1>5, <1>6, BestPlace
<1>8. pair \in Range(Extended(tradeType, qs, seed))
  <2>1. part \in 1 .. seed.percentIndex /\ part <= seed.remainingPercent
    BY <1>1, <1>3
  <2> QED BY <1>4, <1>5, <2>1, ExtendedFacts DEF candidates
<1>9. pair \in Range(Found(tradeType, qs, 2))
  <2>1. 2 \in Nat \ {0} /\ 2 > 1
    OBVIOUS
  <2> QED BY <1>2, <1>8, <2>1, FoundFacts DEF seed
<1>10. pair.routes = Append(seed.routes, qs[place]) /\ pair.remainingPercent = 0
  BY <1>1, <1>3 DEF Longer1, candidates
<1> HIDE DEF pair, place
<1>11. QuoteOf(pair.routes) = qs[base].quote + qs[place].quote /\ Len(pair.routes) = 2
  <2>1. \A q \in Range(qs) : q.quote \in Nat /\ q.percent \in Nat
    BY QuoteTypes
  <2>2. qs[place] \in Range(qs)
    BY <1>7 DEF Range
  <2>3. seed.routes \in Seq(Range(qs)) /\ Len(seed.routes) = 1
    BY <1>4 DEF QueueEntries, IsSplit
  <2>4. QuoteOf(Append(seed.routes, qs[place])) = QuoteOf(seed.routes) + qs[place].quote
    BY <2>1, <2>2, <2>3, SumFacts
  <2> QED BY <1>4, <1>10, <2>2, <2>3, <2>4
<1>12. Complete(pair, minSplits)
  BY <1>10, <1>11 DEF Complete
<1>13. best # <<>> /\ ~better(tradeType, QuoteOf(pair.routes), QuoteOf(best))
  <2>1. 2 \in Nat
    OBVIOUS
  <2> QED BY <1>9, <1>12, <2>1, BestFacts
<1>14. QuoteOf(best) \in Nat
  <2>1. 2 \in Nat
    OBVIOUS
  <2> QED BY <1>13, <2>1, BestSplit
<1>15. qs[base].quote \in Nat /\ qs[place].quote \in Nat
  BY <1>2, <1>7, QuoteTypes
<1> HIDE DEF best
<1>16. ~better(tradeType, qs[i].quote + qs[j].quote, QuoteOf(best))
  BY <1>1, <1>2, <1>7, <1>11, <1>13, <1>14, <1>15 DEF better
<1> QED BY <1>13, <1>16 DEF best

\* A list that is in order of no quote twice has none twice.
LEMMA OrderedApart ==
  ASSUME NEW R, NEW qs \in Seq(Priced(R))
  PROVE  Ordered(qs, Apart(R)) <=> EachOnce(qs)
<1> DEFINE Q == Priced(R)
<1>1. DOMAIN qs = 1 .. Len(qs) /\ Len(qs) \in Nat /\ \A i \in DOMAIN qs : qs[i] \in Q
  <2> HIDE DEF Q
  <2>1. qs \in Seq(Q)
    BY DEF Q
  <2> QED BY <2>1
<1>2. \A x, y \in Q : y \in Apart(R)[x] <=> (y.route # x.route \/ y.percent # x.percent)
  BY DEF Apart
<1> HIDE DEF Q
<1>3. ASSUME Ordered(qs, Apart(R)) PROVE EachOnce(qs)
  <2>1. \A m, n \in DOMAIN qs : m < n => (qs[n].route # qs[m].route \/ qs[n].percent # qs[m].percent)
    BY <1>1, <1>2, <1>3 DEF Ordered
  <2>2. \A m, n \in DOMAIN qs : m # n => (m < n \/ n < m)
    BY <1>1
  <2> QED BY <2>1, <2>2 DEF EachOnce
<1>4. ASSUME EachOnce(qs) PROVE Ordered(qs, Apart(R))
  <2>1. \A m, n \in DOMAIN qs : m < n => m # n
    BY <1>1
  <2> QED BY <1>1, <1>2, <1>4, <2>1 DEF Ordered, EachOnce
<1> QED BY <1>3, <1>4

-----------------------------------------------------------------------------
(* A request *)

\* The best single route has not been lost.
BestKept ==
  \A r \in DOMAIN price : price[r][Steps] # 0 =>
    \E i \in DOMAIN quotes :
      quotes[i].percent = Steps /\ ~better(request.tradeType, price[r][Steps], quotes[i].quote)

\* What is screened has more parts than those two.
ScreenedTwo ==
  phase = "screened" => Steps > 2 /\ quotes # <<>> /\ \A i \in DOMAIN quotes : quotes[i].percent \in {1, Steps}

\* What holds of a request between its waits.
RouteInv ==
  /\ request \in Requests
  /\ phase \in Phases
  /\ routes \in Seq(Paths(request.pools)) /\ IsInjective(routes)
  /\ \A r \in Range(routes) : routeSupportsTradeType(request.pools, r, request.tradeType)
  /\ quotes \in Seq(Priced(Range(routes))) /\ EachOnce(quotes)
  /\ phase \in {"start", "found"} => price = <<>> /\ quotes = <<>>
  /\ phase \in {"screened", "quoted"} => price \in [Range(routes) -> Curves] /\ BestKept
  /\ ScreenedTwo
  /\ SplitSound /\ NeverWorseThanSingle /\ PairsOptimal

\* What was quoted can be searched.
LEMMA QuotesFacts ==
  ASSUME NEW R, NEW qs \in Seq(Priced(R))
  PROVE  /\ AreQuotes(qs) /\ Len(qs) \in Nat /\ DOMAIN qs = 1 .. Len(qs)
         /\ \A i \in DOMAIN qs : qs[i] \in Priced(R)
         /\ \A i \in DOMAIN qs : qs[i].route \in R /\ qs[i].percent \in 1 .. Steps /\ qs[i].quote \in Nat \ {0}
<1> DEFINE Q == Priced(R)
<1>1. \A q \in Q : q.route \in R /\ q.percent \in 1 .. Steps /\ q.quote \in Nat \ {0}
  BY DEF Priced
<1> HIDE DEF Q
<1>2. qs \in Seq(Q)
  BY DEF Q
<1>3. DOMAIN qs = 1 .. Len(qs) /\ Len(qs) \in Nat /\ \A i \in DOMAIN qs : qs[i] \in Q
  BY <1>2
<1>4. qs \in Seq(Range(qs))
  BY <1>2, ListOf
<1>5. \A q \in Range(qs) : q \in Q
  BY <1>3 DEF Range
<1> QED BY <1>1, <1>3, <1>4, <1>5 DEF AreQuotes, Q

\* The parts that are asked for.
LEMMA PartsFacts ==
  /\ AllParts \in Seq(1 .. Steps) /\ IsInjective(AllParts) /\ Steps \in Range(AllParts)
  /\ Steps > 2 =>
       /\ <<1, Steps>> \in Seq(1 .. Steps) /\ IsInjective(<<1, Steps>>)
       /\ Steps \in Range(<<1, Steps>>) /\ Range(<<1, Steps>>) = {1, Steps}
       /\ Between \in Seq(1 .. Steps) /\ IsInjective(Between) /\ \A p \in Range(Between) : p \notin {1, Steps}
<1>1. Steps \in Nat \ {0}
  BY StepsAssumption
<1>2. AllParts \in Seq(1 .. Steps) /\ IsInjective(AllParts)
  BY <1>1 DEF AllParts, IsInjective
<1>3. Steps \in Range(AllParts)
  BY <1>1 DEF AllParts, Range
<1>4. ASSUME Steps > 2
      PROVE  /\ <<1, Steps>> \in Seq(1 .. Steps) /\ IsInjective(<<1, Steps>>) /\ Range(<<1, Steps>>) = {1, Steps}
             /\ Between \in Seq(1 .. Steps) /\ IsInjective(Between) /\ \A p \in Range(Between) : p \notin {1, Steps}
  <2> DEFINE D == 1 .. Steps
  <2>1. 1 \in D /\ Steps \in D /\ Steps # 1
    BY <1>1, <1>4
  <2>2. \A p \in 1 .. Steps - 2 : p + 1 \in D /\ p + 1 # 1 /\ p + 1 # Steps
    BY <1>1, <1>4
  <2>3. Steps - 2 \in Nat
    BY <1>1, <1>4
  <2> HIDE DEF D
  <2>4. <<1, Steps>> \in Seq(D)
    BY <2>1
  <2>5. IsInjective(<<1, Steps>>) /\ Range(<<1, Steps>>) = {1, Steps}
    BY <2>1 DEF IsInjective, Range
  <2>6. Between \in Seq(D) /\ DOMAIN Between = 1 .. Steps - 2 /\ \A p \in 1 .. Steps - 2 : Between[p] = p + 1
    BY <2>2, <2>3 DEF Between
  <2>7. IsInjective(Between)
    <3>1. \A a, b \in 1 .. Steps - 2 : a + 1 = b + 1 => a = b
      BY <2>3
    <3> QED BY <2>6, <3>1 DEF IsInjective
  <2>8. \A p \in Range(Between) : p \notin {1, Steps}
    BY <2>2, <2>6 DEF Range
  <2> QED BY <2>4, <2>5, <2>6, <2>7, <2>8 DEF D
<1> QED BY <1>2, <1>3, <1>4

\* At least one route is priced.
LEMMA WidthIsPositive ==
  ASSUME request \in Requests
  PROVE  Width \in Nat \ {0}
<1>1. request.maxRoutesToQuote \in Nat
  BY RequestFacts
<1>2. Len(FoundRoutes) \in Nat
  BY FoundRoutesFacts
<1>3. screenWidthFor(Len(FoundRoutes)) \in Nat \ {0}
  <2>1. (Len(FoundRoutes) + 3) \div 4 \in Nat
    BY <1>2
  <2> QED BY <2>1 DEF screenWidthFor
<1> QED BY <1>1, <1>3 DEF Width, Unset

\* The routes that will be priced.
LEMMA FindRoutesKeepsInv ==
  ASSUME RouteInv, FindRoutes
  PROVE  RouteInv'
<1>1. /\ request' = request /\ price' = price /\ quotes' = quotes /\ legs' = legs
      /\ request \in Requests /\ price = <<>> /\ quotes = <<>> /\ phase = "start"
  BY DEF RouteInv, FindRoutes
<1>2. phase' \in {"null", "failed", "found"}
  BY DEF FindRoutes
<1>3. /\ FoundRoutes \in Seq(Paths(request.pools)) /\ IsInjective(FoundRoutes)
      /\ \A r \in Range(FoundRoutes) : routeSupportsTradeType(request.pools, r, request.tradeType)
  BY <1>1, FoundRoutesFacts
<1>4. /\ routes' \in Seq(Paths(request.pools)) /\ IsInjective(routes')
      /\ \A r \in Range(routes') : routeSupportsTradeType(request.pools, r, request.tradeType)
  <2> DEFINE limit == request.maxRoutesToScreen
             kept == prerankRoutes(request.pools, FoundRoutes, limit)
  <2>1. limit \in Int
    BY <1>1, RequestFacts
  <2>2. kept \in Seq(Paths(request.pools)) /\ Range(kept) \subseteq Range(FoundRoutes) /\ IsInjective(kept)
    <3> HIDE DEF limit
    <3> QED BY <1>1, <1>3, <2>1, PrerankFacts
  <2>3. routes' = routes \/ routes' = kept \/ routes' = FoundRoutes
    BY DEF FindRoutes
  <2> HIDE DEF kept
  <2>4. CASE routes' = routes
    BY <2>4 DEF RouteInv
  <2>5. CASE routes' = kept
    BY <1>3, <2>2, <2>5
  <2>6. CASE routes' = FoundRoutes
    BY <1>3, <2>6
  <2> QED BY <2>3, <2>4, <2>5, <2>6
<1>5. quotes' \in Seq(Priced(Range(routes'))) /\ EachOnce(quotes')
  <2>1. <<>> \in Seq(Priced(Range(routes'))) /\ EachOnce(<<>>)
    BY DEF EachOnce
  <2> QED BY <1>1, <2>1
<1>6. DOMAIN price' = {} /\ DOMAIN quotes' = {}
  BY <1>1
<1>7. SplitSound' /\ NeverWorseThanSingle' /\ PairsOptimal'
  BY <1>2, <1>6 DEF SplitSound, NeverWorseThanSingle, PairsOptimal
<1>8. phase' \in Phases
  BY <1>2 DEF Phases
<1> QED BY <1>1, <1>2, <1>4, <1>5, <1>7, <1>8 DEF RouteInv, ScreenedTwo

\* The first quotes.
LEMMA QuoteKeepsInv ==
  ASSUME RouteInv, Quote
  PROVE  RouteInv'
<1> DEFINE R == Range(routes)
           percents == IF NeedsScreen THEN <<1, Steps>> ELSE AllParts
<1>1. /\ request' = request /\ routes' = routes /\ legs' = legs /\ request \in Requests
      /\ price' \in [R -> Curves] /\ quotes' = getQuotes(price', routes, percents)
      /\ phase' = IF quotes' = <<>> THEN "null" ELSE IF NeedsScreen THEN "screened" ELSE "quoted"
  BY DEF RouteInv, Quote
<1>2. /\ routes \in Seq(Paths(request.pools)) /\ IsInjective(routes)
      /\ \A r \in Range(routes) : routeSupportsTradeType(request.pools, r, request.tradeType)
  BY DEF RouteInv
<1>3. /\ percents \in Seq(1 .. Steps) /\ IsInjective(percents) /\ Steps \in Range(percents)
      /\ NeedsScreen => Steps > 2 /\ Range(percents) = {1, Steps}
  BY PartsFacts DEF NeedsScreen
<1> HIDE DEF percents
<1>4. routes \in Seq(R)
  BY <1>2, ListOf
<1> HIDE DEF R
<1>5. ASSUME NEW prices \in [R -> Curves]
      PROVE  LET qs == getQuotes(prices, routes, percents)
             IN  /\ qs \in Seq(Priced(R)) /\ EachOnce(qs)
                 /\ \A x : x \in Range(qs) <=> \E r \in R, percent \in Range(percents) :
                             prices[r][percent] # 0 /\ x = PriceOf(prices, r, percent)
  <2>1. /\ getQuotes(prices, routes, percents) \in Seq(Priced(R))
        /\ \A x : x \in Range(getQuotes(prices, routes, percents)) <=>
             \E r \in Range(routes), percent \in Range(percents) :
               (prices[r][percent] # 0 /\ x = PriceOf(prices, r, percent))
        /\ Ordered(getQuotes(prices, routes, percents), Apart(R))
    BY <1>2, <1>3, <1>4, <1>5, GetQuotesFacts
  <2> QED BY <2>1, OrderedApart DEF R
<1>6. /\ quotes' \in Seq(Priced(R)) /\ EachOnce(quotes')
      /\ \A x : x \in Range(quotes') <=> \E r \in R, percent \in Range(percents) :
                  (price'[r][percent] # 0 /\ x = PriceOf(price', r, percent))
  BY <1>1, <1>5
<1>7. ASSUME NEW r \in R, price'[r][Steps] # 0
      PROVE  \E i \in DOMAIN quotes' :
               quotes'[i].percent = Steps /\ ~better(request.tradeType, price'[r][Steps], quotes'[i].quote)
  <2>1. PriceOf(price', r, Steps) \in Range(quotes')
    BY <1>3, <1>6, <1>7
  <2>2. PICK i \in DOMAIN quotes' : quotes'[i] = PriceOf(price', r, Steps)
    BY <2>1 DEF Range
  <2>3. quotes'[i].percent = Steps /\ quotes'[i].quote = price'[r][Steps]
    BY <2>2 DEF PriceOf
  <2>4. price'[r][Steps] \in Nat
    BY <1>1, RoutingAssumption, StepsAssumption
  <2>5. ~better(request.tradeType, price'[r][Steps], quotes'[i].quote)
    BY <2>3, <2>4 DEF better
  <2> QED BY <2>3, <2>5
<1>8. BestKept'
  <2>1. DOMAIN price' = R
    BY <1>1
  <2> QED BY <1>1, <1>7, <2>1 DEF BestKept
<1>9. ScreenedTwo'
  <2>1. SUFFICES ASSUME phase' = "screened" PROVE Steps > 2 /\ quotes' # <<>> /\ \A i \in DOMAIN quotes' : quotes'[i].percent \in {1, Steps}
    BY DEF ScreenedTwo
  <2>2. NeedsScreen /\ quotes' # <<>>
    BY <1>1, <2>1
  <2>3. ASSUME NEW i \in DOMAIN quotes' PROVE quotes'[i].percent \in {1, Steps}
    <3>1. quotes'[i] \in Range(quotes')
      BY DEF Range
    <3>2. PICK r \in R, percent \in Range(percents) : quotes'[i] = PriceOf(price', r, percent)
      BY <1>6, <3>1
    <3>3. quotes'[i].percent = percent
      BY <3>2 DEF PriceOf
    <3> QED BY <1>3, <2>2, <3>3
  <2> QED BY <1>3, <2>2, <2>3
<1>10. phase' \in {"null", "screened", "quoted"} /\ (phase' = "null" => quotes' = <<>>)
  BY <1>1
<1>11. SplitSound' /\ PairsOptimal'
  <2>1. quotes' = <<>> => DOMAIN quotes' = {}
    OBVIOUS
  <2> QED BY <1>10, <2>1 DEF SplitSound, PairsOptimal
<1>12. NeverWorseThanSingle'
  <2>1. SUFFICES ASSUME phase' = "null" PROVE \A r \in DOMAIN price' : price'[r][Steps] = 0
    BY <1>10 DEF NeverWorseThanSingle
  <2>2. DOMAIN quotes' = {}
    BY <1>10, <2>1
  <2> QED BY <1>8, <2>2 DEF BestKept
<1>13. phase' \in Phases
  BY <1>10 DEF Phases
<1> QED BY <1>1, <1>2, <1>6, <1>8, <1>9, <1>10, <1>11, <1>12, <1>13 DEF RouteInv, R

\* The other quotes of the routes that survive.
LEMMA QuoteRestKeepsInv ==
  ASSUME RouteInv, QuoteRest
  PROVE  RouteInv'
<1> DEFINE R == Range(routes)
           survivors == pickBestRoutes(quotes, Width)
           before == Only(quotes, {q \in Range(quotes) : q.route \in Range(survivors)})
           rest == getQuotes(price, survivors, Between)
           all == before \o rest
<1>1. /\ request' = request /\ routes' = routes /\ legs' = legs /\ price' = price /\ phase' = "quoted"
      /\ quotes' = all /\ phase = "screened"
  BY DEF QuoteRest
<1>2. /\ request \in Requests /\ routes \in Seq(Paths(request.pools)) /\ IsInjective(routes)
      /\ \A r \in R : routeSupportsTradeType(request.pools, r, request.tradeType)
      /\ quotes \in Seq(Priced(R)) /\ EachOnce(quotes) /\ quotes # <<>>
      /\ price \in [R -> Curves] /\ BestKept
      /\ Steps > 2 /\ \A i \in DOMAIN quotes : quotes[i].percent \in {1, Steps}
  BY <1>1 DEF RouteInv, ScreenedTwo
<1> HIDE DEF R
<1>3. /\ DOMAIN quotes = 1 .. Len(quotes) /\ Len(quotes) \in Nat
      /\ \A i \in DOMAIN quotes : quotes[i] \in Priced(R) /\ quotes[i].quote \in Nat /\ quotes[i].percent \in 1 .. Steps
  BY <1>2, QuotesFacts
<1>4. /\ survivors \in Seq(R) /\ IsInjective(survivors)
      /\ \A q \in Range(quotes) : \E best \in Range(quotes) :
           /\ best.percent = q.percent /\ best.route \in Range(survivors)
           /\ ~better(request.tradeType, q.quote, best.quote)
  <2>1. Width \in Nat \ {0}
    BY <1>2, WidthIsPositive
  <2> QED BY <1>2, <2>1, PickFacts
<1> HIDE DEF survivors
<1>5. /\ before \in Seq(Priced(R)) /\ Ordered(before, Apart(R))
      /\ Range(before) = {q \in Range(quotes) : q.route \in Range(survivors)}
  <2>1. /\ before \in Seq(Priced(R))
        /\ Range(before) = Range(quotes) \intersect {q \in Range(quotes) : q.route \in Range(survivors)}
    BY <1>2, OnlyFacts
  <2>2. Ordered(quotes, Apart(R))
    BY <1>2, OrderedApart
  <2>3. Ordered(before, Apart(R))
    BY <1>2, <2>2, OnlyOrdered
  <2> QED BY <2>1, <2>3
<1>6. /\ rest \in Seq(Priced(R)) /\ Ordered(rest, Apart(R))
      /\ \A x \in Range(rest) : x.percent \notin {1, Steps}
  <2>1. /\ Between \in Seq(1 .. Steps) /\ IsInjective(Between) /\ \A p \in Range(Between) : p \notin {1, Steps}
    BY <1>2, PartsFacts
  <2>2. \A r \in Range(survivors) : routeSupportsTradeType(request.pools, r, request.tradeType)
    <3>1. Range(survivors) \subseteq R
      BY <1>4 DEF Range
    <3> QED BY <1>2, <3>1
  <2>3. /\ rest \in Seq(Priced(R)) /\ Ordered(rest, Apart(R))
        /\ \A x : x \in Range(rest) <=> \E r \in Range(survivors), percent \in Range(Between) :
                    (price[r][percent] # 0 /\ x = PriceOf(price, r, percent))
    <3>1. price \in [R -> Curves] /\ survivors \in Seq(R) /\ IsInjective(survivors)
      BY <1>2, <1>4
    <3> HIDE DEF rest
    <3>2. /\ getQuotes(price, survivors, Between) \in Seq(Priced(R))
          /\ Ordered(getQuotes(price, survivors, Between), Apart(R))
      BY <2>1, <2>2, <3>1, GetQuotesFacts
    <3>3. \A x : x \in Range(getQuotes(price, survivors, Between)) <=> \E r \in Range(survivors), percent \in Range(Between) :
                    (price[r][percent] # 0 /\ x = PriceOf(price, r, percent))
      BY <2>1, <2>2, <3>1, GetQuotesFacts
    <3> QED BY <3>2, <3>3 DEF rest
  <2>4. ASSUME NEW x \in Range(rest) PROVE x.percent \notin {1, Steps}
    <3>1. PICK r \in Range(survivors), percent \in Range(Between) : x = PriceOf(price, r, percent)
      BY <2>3
    <3>2. x.percent = percent
      BY <3>1 DEF PriceOf
    <3> QED BY <2>1, <3>2
  <2> QED BY <2>3, <2>4
<1> HIDE DEF before, rest
<1>7. all \in Seq(Priced(R)) /\ EachOnce(all) /\ Range(before) \subseteq Range(all)
  <2>1. all \in Seq(Priced(R)) /\ Range(all) = Range(before) \union Range(rest)
    BY <1>5, <1>6, ConcatFacts
  <2>2. ASSUME NEW x \in Range(before), NEW y \in Range(rest) PROVE y \in Apart(R)[x]
    <3>1. x \in Priced(R) /\ y \in Priced(R)
      BY <1>5, <1>6 DEF Range
    <3>2. x.percent \in {1, Steps}
      <4>1. x \in Range(quotes)
        BY <1>5
      <4> QED BY <1>2, <4>1 DEF Range
    <3>3. x.percent # y.percent
      BY <1>6, <3>2
    <3> QED BY <3>1, <3>3 DEF Apart
  <2>3. Ordered(all, Apart(R))
    BY <1>5, <1>6, <2>2, ConcatOrdered
  <2> HIDE DEF all
  <2> QED BY <2>1, <2>3, OrderedApart
<1> HIDE DEF all
<1>8. ASSUME NEW r \in R, price[r][Steps] # 0
      PROVE  \E i \in DOMAIN all : all[i].percent = Steps /\ ~better(request.tradeType, price[r][Steps], all[i].quote)
  <2>1. PICK i \in DOMAIN quotes :
          quotes[i].percent = Steps /\ ~better(request.tradeType, price[r][Steps], quotes[i].quote)
    <3>1. DOMAIN price = R
      BY <1>2
    <3> QED BY <1>2, <1>8, <3>1 DEF BestKept
  <2>2. quotes[i] \in Range(quotes)
    BY DEF Range
  <2>3. PICK best \in Range(quotes) :
          /\ best.percent = quotes[i].percent /\ best.route \in Range(survivors)
          /\ ~better(request.tradeType, quotes[i].quote, best.quote)
    BY <1>4, <2>2
  <2>4. best \in Range(all)
    BY <1>5, <1>7, <2>3
  <2>5. PICK j \in DOMAIN all : all[j] = best
    BY <2>4 DEF Range
  <2>6. price[r][Steps] \in Nat /\ quotes[i].quote \in Nat /\ best.quote \in Nat
    <3>1. price[r][Steps] \in Nat
      BY <1>2, RoutingAssumption, StepsAssumption
    <3>2. best.quote \in Nat
      BY <1>3 DEF Range
    <3> QED BY <1>3, <3>1, <3>2
  <2>7. ~better(request.tradeType, price[r][Steps], best.quote)
    BY <2>1, <2>3, <2>6, NoWorse
  <2> QED BY <2>1, <2>3, <2>5, <2>7
<1>9. BestKept'
  <2>1. DOMAIN price' = R
    BY <1>1, <1>2
  <2> QED BY <1>1, <1>8, <2>1 DEF BestKept
<1>10. SplitSound' /\ NeverWorseThanSingle' /\ PairsOptimal'
  BY <1>1 DEF SplitSound, NeverWorseThanSingle, PairsOptimal
<1> QED BY <1>1, <1>2, <1>7, <1>9, <1>10 DEF RouteInv, ScreenedTwo, Phases, R

\* The trade.
LEMMA PickSplitKeepsInv ==
  ASSUME RouteInv, PickSplit
  PROVE  RouteInv'
<1> DEFINE R == Range(routes)
           minSplits == request.minSplits
           maxSplits == request.maxSplits
           tradeType == request.tradeType
           best == getBestSwapRoute(quotes, tradeType, minSplits, maxSplits)
<1>1. /\ request' = request /\ routes' = routes /\ price' = price /\ quotes' = quotes /\ legs' = best
      /\ phase = "quoted" /\ phase' = IF best = <<>> THEN "null" ELSE "done"
  BY DEF PickSplit
<1>2. /\ request \in Requests /\ routes \in Seq(Paths(request.pools)) /\ IsInjective(routes)
      /\ \A r \in R : routeSupportsTradeType(request.pools, r, request.tradeType)
      /\ quotes \in Seq(Priced(R)) /\ EachOnce(quotes)
      /\ price \in [R -> Curves] /\ BestKept
  BY <1>1 DEF RouteInv
<1> HIDE DEF R
<1>3. AreQuotes(quotes) /\ \A i \in DOMAIN quotes : quotes[i].quote \in Nat /\ quotes[i].percent \in Nat
  BY <1>2, QuotesFacts, StepsAssumption
<1>4. minSplits \in 1 .. maxSplits /\ maxSplits \in Nat \ {0}
  <2>1. minSplits \in 1 .. maxSplits /\ maxSplits \in Nat
    BY <1>2, RequestFacts
  <2> QED BY <2>1
<1> HIDE DEF minSplits, maxSplits, tradeType
<1>5. SplitSound'
  <2>1. SUFFICES ASSUME phase' = "done"
                 PROVE  /\ PercentOf(best) = Steps /\ Len(best) \in minSplits .. maxSplits
                        /\ \A i, j \in DOMAIN best : i # j => Range(best[i].route) \intersect Range(best[j].route) = {}
                        /\ Range(best) \subseteq Range(quotes)
    <3> HIDE DEF best
    <3> QED BY <1>1 DEF SplitSound, minSplits, maxSplits
  <2>2. best # <<>>
    BY <1>1, <2>1
  <2>3. /\ PercentOf(best) = Steps /\ Len(best) \in minSplits .. maxSplits /\ NoPoolTwice(best)
        /\ Range(best) \subseteq Range(quotes)
    BY <1>3, <1>4, <2>2, BestSplit
  <2> HIDE DEF best
  <2> QED BY <2>3 DEF NoPoolTwice
<1>6. NeverWorseThanSingle'
  <2>1. SUFFICES ASSUME minSplits = 1, NEW r \in R, price[r][Steps] # 0
                 PROVE  best # <<>> /\ ~better(tradeType, price[r][Steps], QuoteOf(best))
    <3>1. DOMAIN price = R
      BY <1>2
    <3> HIDE DEF best
    <3> QED BY <1>1, <3>1 DEF NeverWorseThanSingle, minSplits, tradeType
  <2>2. PICK i \in DOMAIN quotes : quotes[i].percent = Steps /\ ~better(tradeType, price[r][Steps], quotes[i].quote)
    <3>1. DOMAIN price = R
      BY <1>2
    <3> QED BY <1>2, <2>1, <3>1 DEF BestKept, tradeType
  <2>3. best # <<>> /\ ~better(tradeType, quotes[i].quote, QuoteOf(best))
    BY <1>3, <1>4, <2>1, <2>2, BestSingle
  <2>4. QuoteOf(best) \in Nat
    <3>1. maxSplits \in Nat
      BY <1>4
    <3> QED BY <1>3, <1>4, <2>3, <3>1, BestSplit
  <2>5. price[r][Steps] \in Nat
    <3>1. price[r] \in Curves
      BY <1>2
    <3>2. price[r] \in [1 .. Steps -> Nat]
      BY <3>1, RoutingAssumption
    <3>3. Steps \in 1 .. Steps
      BY StepsAssumption
    <3> QED BY <3>2, <3>3
  <2> HIDE DEF best
  <2>6. ~better(tradeType, price[r][Steps], QuoteOf(best))
    BY <1>3, <2>2, <2>3, <2>4, <2>5, NoWorse
  <2> QED BY <2>3, <2>6
<1>7. PairsOptimal'
  <2>1. SUFFICES ASSUME maxSplits = 2, NoConflict(quotes), NEW i \in DOMAIN quotes, NEW j \in DOMAIN quotes,
                        quotes[i].route # quotes[j].route, quotes[i].percent + quotes[j].percent = Steps
                 PROVE  best # <<>> /\ ~better(tradeType, quotes[i].quote + quotes[j].quote, QuoteOf(best))
    <3> HIDE DEF best
    <3> QED BY <1>1 DEF PairsOptimal, maxSplits, tradeType, NoConflict
  <2>2. minSplits \in 1 .. 2 /\ best = getBestSwapRoute(quotes, tradeType, minSplits, 2)
    BY <1>4, <2>1
  <2>3. CASE quotes[i].percent >= quotes[j].percent
    BY <1>2, <1>3, <2>1, <2>2, <2>3, BestPair
  <2>4. CASE ~(quotes[i].percent >= quotes[j].percent)
    <3>1. /\ quotes[j].percent >= quotes[i].percent /\ quotes[j].percent + quotes[i].percent = Steps
          /\ quotes[j].quote + quotes[i].quote = quotes[i].quote + quotes[j].quote
      BY <1>3, <2>1, <2>4
    <3>2. best # <<>> /\ ~better(tradeType, quotes[j].quote + quotes[i].quote, QuoteOf(best))
      BY <1>2, <1>3, <2>1, <2>2, <3>1, BestPair
    <3> QED BY <3>1, <3>2
  <2> QED BY <2>3, <2>4
<1>8. phase' \in {"null", "done"}
  BY <1>1
<1> HIDE DEF best
<1> QED BY <1>1, <1>2, <1>5, <1>6, <1>7, <1>8 DEF RouteInv, ScreenedTwo, Phases, R

\* All of the above is kept by every step of a request (topaz-router.ts).
THEOREM RoutingInductive == RouteSpec => []RouteInv
<1>1. RouteInit => RouteInv
  <2>1. SUFFICES ASSUME RouteInit PROVE RouteInv
    OBVIOUS
  <2>2. /\ request \in Requests /\ phase = "start" /\ routes = <<>> /\ price = <<>> /\ quotes = <<>>
    BY <2>1 DEF RouteInit
  <2>3. <<>> \in Seq(Paths(request.pools)) /\ IsInjective(<<>>) /\ Range(<<>>) = {} /\ EachOnce(<<>>)
    BY DEF IsInjective, Range, EachOnce
  <2>4. quotes \in Seq(Priced(Range(routes)))
    BY <2>2
  <2>5. SplitSound /\ NeverWorseThanSingle /\ PairsOptimal
    BY <2>2 DEF SplitSound, NeverWorseThanSingle, PairsOptimal
  <2> QED BY <2>2, <2>3, <2>4, <2>5 DEF RouteInv, Phases, ScreenedTwo
<1>2. RouteInv /\ [RouteNext]_routeVars => RouteInv'
  <2>1. SUFFICES ASSUME RouteInv, [RouteNext]_routeVars PROVE RouteInv'
    OBVIOUS
  <2>2. CASE FindRoutes
    BY <2>1, <2>2, FindRoutesKeepsInv
  <2>3. CASE Quote
    BY <2>1, <2>3, QuoteKeepsInv
  <2>4. CASE QuoteRest
    BY <2>1, <2>4, QuoteRestKeepsInv
  <2>5. CASE PickSplit
    BY <2>1, <2>5, PickSplitKeepsInv
  <2>6. CASE Fail
    <3>1. /\ request' = request /\ routes' = routes /\ price' = price /\ quotes' = quotes /\ legs' = legs
          /\ phase' = "failed"
      BY <2>6 DEF Fail
    <3>2. SplitSound' /\ NeverWorseThanSingle' /\ PairsOptimal' /\ ScreenedTwo'
      BY <3>1 DEF SplitSound, NeverWorseThanSingle, PairsOptimal, ScreenedTwo
    <3> QED BY <2>1, <3>1, <3>2 DEF RouteInv, Phases
  <2>7. CASE UNCHANGED routeVars
    <3>1. /\ request' = request /\ routes' = routes /\ price' = price /\ quotes' = quotes /\ legs' = legs
          /\ phase' = phase
      BY <2>7 DEF routeVars
    <3>2. SplitSound' /\ NeverWorseThanSingle' /\ PairsOptimal' /\ ScreenedTwo'
      BY <2>1, <3>1 DEF SplitSound, NeverWorseThanSingle, PairsOptimal, ScreenedTwo, RouteInv
    <3>3. BestKept => BestKept'
      BY <3>1 DEF BestKept
    <3> QED BY <2>1, <3>1, <3>2, <3>3 DEF RouteInv
  <2> QED BY <2>1, <2>2, <2>3, <2>4, <2>5, <2>6, <2>7 DEF RouteNext, Ended
<1> QED BY <1>1, <1>2, PTL DEF RouteSpec

\* The legs of a trade are the whole amount, and no pool is used by two of them.
THEOREM SplitsAreSound == RouteSpec => []SplitSound
<1>1. RouteInv => SplitSound
  BY DEF RouteInv
<1> QED BY <1>1, RoutingInductive, PTL

\* No trade is worse than the best single route, which neither the screen nor the search loses.
THEOREM SplittingNeverCosts == RouteSpec => []NeverWorseThanSingle
<1>1. RouteInv => NeverWorseThanSingle
  BY DEF RouteInv
<1> QED BY <1>1, RoutingInductive, PTL

\* Two seeds for each size are enough for the best of all pairs.
THEOREM PairsAreOptimal == RouteSpec => []PairsOptimal
<1>1. RouteInv => PairsOptimal
  BY DEF RouteInv
<1> QED BY <1>1, RoutingInductive, PTL

\* The search finds all ways and the cap drops none that is shorter or deeper than one it keeps.
THEOREM RoutesAreExact == RouteSpec => []RoutesExact
<1>1. RouteInv => RoutesExact
  <2>1. SUFFICES ASSUME RouteInv PROVE RoutesExact
    OBVIOUS
  <2>2. ArePools(request.pools) /\ request.includeMixedRoutes \in BOOLEAN
    BY <2>1, RequestFacts DEF RouteInv
  <2> QED BY <2>2, RoutesRight, Zenon DEF RoutesExact
<1> QED BY <1>1, RoutingInductive, PTL

\* The type invariant.
THEOREM RoutingTypeCorrect == RouteSpec => []RouteTypeOK
<1>1. RouteInv => RouteTypeOK
  <2>1. SUFFICES ASSUME RouteInv PROVE RouteTypeOK
    OBVIOUS
  <2>2. \A i \in DOMAIN quotes : quotes[i].percent \in 1 .. Steps /\ quotes[i].quote \in Nat \ {0}
    <3>1. quotes \in Seq(Priced(Range(routes)))
      BY <2>1 DEF RouteInv
    <3> QED BY <3>1, QuotesFacts
  <2> QED BY <2>1, <2>2 DEF RouteInv, RouteTypeOK
<1> QED BY <1>1, RoutingInductive, PTL

-----------------------------------------------------------------------------
(* The token provider and its multicalls *)

USE CallsAssumption, BatchAssumption

-----------------------------------------------------------------------------
(* Batches *)

\* The batch of the i-th call.
BatchNumber(i) == (i - 1) \div BatchSize

\* A quotient is the only number of times the divisor goes in.
LEMMA QuotientIs ==
  ASSUME NEW a \in Nat, NEW d \in Nat \ {0}, NEW b \in Nat
  PROVE  /\ a \div d \in Nat
         /\ a \div d = b <=> b * d <= a /\ a < b * d + d
         /\ b <= a \div d <=> b * d <= a
<1> DEFINE q == a \div d
<1>1. q \in Nat /\ q * d <= a /\ a < q * d + d
  OBVIOUS
<1> HIDE DEF q
<1>2. ASSUME b * d <= a PROVE b <= q
  <2>1. SUFFICES ASSUME q + 1 <= b PROVE FALSE
    BY <1>1
  <2>2. (q + 1) * d <= b * d
    BY <1>1, <2>1
  <2>3. (q + 1) * d = q * d + d
    BY <1>1
  <2>4. QED
    BY <1>1, <1>2, <2>2, <2>3
<1>3. ASSUME b <= q PROVE b * d <= a
  <2>1. b * d <= q * d
    BY <1>1, <1>3
  <2>2. b * d \in Nat /\ q * d \in Nat
    BY <1>1
  <2>3. QED
    BY <1>1, <2>1, <2>2
<1>4. ASSUME a < b * d + d PROVE q <= b
  <2>1. SUFFICES ASSUME b + 1 <= q PROVE FALSE
    BY <1>1
  <2>2. (b + 1) * d <= q * d
    BY <1>1, <2>1
  <2>3. (b + 1) * d = b * d + d /\ b * d \in Nat /\ q * d \in Nat
    BY <1>1
  <2>4. QED
    BY <1>1, <1>4, <2>2, <2>3
<1>5. q = b => b * d <= a /\ a < b * d + d
  BY <1>1
<1>6. QED
  BY <1>1, <1>2, <1>3, <1>4, <1>5 DEF q

\* The calls of a batch are those with its number, and a batch that is not past the end has some.
LEMMA BatchIs ==
  ASSUME NEW n \in Nat, NEW b \in Nat
  PROVE  /\ \A i \in 1 .. n : i \in Within(Batch(b, n)) <=> BatchNumber(i) = b
         /\ b < Batches(n) => /\ b * BatchSize + 1 \in 1 .. n
                              /\ BatchNumber(b * BatchSize + 1) = b
                              /\ Batch(b, n).first \in 1 .. n
                              /\ Batch(b, n).last \in Batch(b, n).first .. n
<1> DEFINE B == BatchSize
<1>1. B \in Nat \ {0} /\ b * B \in Nat /\ (b + 1) * B = b * B + B
  OBVIOUS
<1> HIDE DEF B
<1>2. ASSUME NEW i \in 1 .. n PROVE i \in Within(Batch(b, n)) <=> BatchNumber(i) = b
  <2>1. BatchNumber(i) = b <=> b * B <= i - 1 /\ i - 1 < b * B + B
    BY <1>1, i - 1 \in Nat, QuotientIs DEF BatchNumber, B
  <2>2. i \in Within(Batch(b, n)) <=> b * B + 1 <= i /\ i <= Smaller((b + 1) * B, n)
    BY <1>1 DEF Within, Batch, B, Smaller
  <2>3. QED
    BY <1>1, <2>1, <2>2 DEF Smaller
<1>3. ASSUME b < Batches(n)
      PROVE  /\ b * B + 1 \in 1 .. n
             /\ BatchNumber(b * B + 1) = b
             /\ Batch(b, n).first \in 1 .. n
             /\ Batch(b, n).last \in Batch(b, n).first .. n
  <2>1. n + B - 1 \in Nat /\ Batches(n) \in Nat
    BY <1>1, QuotientIs DEF Batches, B
  <2>2. (b + 1) * B <= n + B - 1
    <3>1. b + 1 <= (n + B - 1) \div B
      BY <1>3, <2>1 DEF Batches, B
    <3>2. QED
      BY <1>1, <2>1, <3>1, b + 1 \in Nat, QuotientIs
  <2>3. b * B + 1 \in 1 .. n
    BY <1>1, <2>1, <2>2
  <2>4. BatchNumber(b * B + 1) = b
    <3>1. (b * B) \div B = b
      BY <1>1, QuotientIs
    <3>2. b * B + 1 - 1 = b * B
      BY <1>1
    <3>3. QED
      BY <3>1, <3>2 DEF BatchNumber, B
  <2>5. QED
    BY <1>1, <2>3, <2>4 DEF Batch, Smaller, B
<1>4. QED
  BY <1>2, <1>3 DEF B

\* Every call is in a batch, and there is no batch only if there is no call.
LEMMA BatchesCover ==
  ASSUME NEW n \in Nat
  PROVE  /\ Batches(n) \in Nat
         /\ Batches(n) = 0 <=> n = 0
         /\ \A i \in 1 .. n : BatchNumber(i) \in 0 .. Batches(n) - 1
<1> DEFINE B == BatchSize
<1>1. B \in Nat \ {0} /\ n + B - 1 \in Nat
  OBVIOUS
<1> HIDE DEF B
<1>2. Batches(n) \in Nat
  BY <1>1, QuotientIs DEF Batches, B
<1>3. Batches(n) = 0 <=> n = 0
  <2>1. (n + B - 1) \div B = 0 <=> 0 * B <= n + B - 1 /\ n + B - 1 < 0 * B + B
    BY <1>1, QuotientIs, 0 \in Nat
  <2>2. 0 * B = 0
    BY <1>1
  <2>3. QED
    BY <1>1, <2>1, <2>2 DEF Batches, B
<1>4. ASSUME NEW i \in 1 .. n PROVE BatchNumber(i) \in 0 .. Batches(n) - 1
  <2> DEFINE b == BatchNumber(i)
  <2>1. b \in Nat /\ b * B <= i - 1
    BY <1>1, i - 1 \in Nat, QuotientIs DEF BatchNumber, B
  <2> HIDE DEF b
  <2>2. (b + 1) * B = b * B + B /\ b * B \in Nat
    BY <1>1, <2>1
  <2>3. (b + 1) * B <= n + B - 1
    BY <1>1, <2>1, <2>2
  <2>4. b + 1 <= Batches(n)
    BY <1>1, <2>1, <2>3, b + 1 \in Nat, QuotientIs DEF Batches, B
  <2>5. QED
    BY <1>2, <2>1, <2>4 DEF b
<1>5. QED
  BY <1>2, <1>3, <1>4

-----------------------------------------------------------------------------
(* The inductive invariant of the multicall *)

MulticallTypes ==
  /\ asked \in [Callers -> Seq(Calls)]
  /\ next \in [Callers -> Nat]
  /\ flying \in [Callers -> SUBSET [first : Nat, last : Nat]]
  /\ DOMAIN results = Callers
  /\ \A c \in Callers :
       results[c] \in [1 .. Len(asked[c]) -> Range(Reply) \union {Pending, TooMuchGas}]
  /\ dead \in [Callers -> SUBSET Nat]
  /\ outcome \in [Callers -> {"none", "pending", "done", "failed"}]
  /\ broken \subseteq Callers

\* A result that is there is the one of the call by itself.
AnsweredAlone(c) ==
  \A i \in 1 .. Len(asked[c]) :
    results[c][i] # Pending => results[c][i] = Alone(asked[c][i])

\* A segment is a run of calls of one batch, and the batch has been taken.
SegmentsInBatches(c) ==
  \A s \in flying[c] :
    /\ s.first \in 1 .. s.last /\ s.last \in 1 .. Len(asked[c])
    /\ BatchOf(s) < next[c]
    /\ \A i \in Within(s) : BatchNumber(i) = BatchOf(s)

\* Segments do not overlap, and have no results yet (EachCallOnce of one caller).
SegmentsApart(c) ==
  \A s, t \in flying[c] : \A i \in Within(s) :
    /\ results[c][i] = Pending
    /\ i \in Within(t) => s = t

\* A call without a result is in a request, unless its batch has not been taken or has failed.
EachCallOwed(c) ==
  \A i \in 1 .. Len(asked[c]) :
    \/ results[c][i] # Pending
    \/ BatchNumber(i) >= next[c]
    \/ BatchNumber(i) \in dead[c]
    \/ \E s \in flying[c] : i \in Within(s)

\* A batch that has not been taken has no results, and has not failed.
Untaken(c) ==
  /\ next[c] <= Batches(Len(asked[c]))
  /\ dead[c] \subseteq 0 .. next[c] - 1
  /\ \A i \in 1 .. Len(asked[c]) : BatchNumber(i) >= next[c] => results[c][i] = Pending

\* A call that has not ended waits for a batch that has been taken and has not failed.
Working(c) ==
  outcome[c] = "pending" =>
    /\ dead[c] = {}
    /\ \E i \in 1 .. Len(asked[c]) : results[c][i] = Pending /\ BatchNumber(i) < next[c]

DoneIsComplete(c) ==
  outcome[c] = "done" => \A i \in 1 .. Len(asked[c]) : results[c][i] # Pending

NothingBeforeCall(c) == outcome[c] = "none" => flying[c] = {} /\ dead[c] = {}

CallerInv(c) ==
  /\ AnsweredAlone(c)
  /\ SegmentsInBatches(c)
  /\ SegmentsApart(c)
  /\ EachCallOwed(c)
  /\ Untaken(c)
  /\ Working(c)
  /\ DoneIsComplete(c)
  /\ NothingBeforeCall(c)

MulticallInv == MulticallTypes /\ \A c \in Callers : CallerInv(c)

\* What a call answers by itself is a result.
LEMMA AloneIsResult ==
  ASSUME NEW call \in Calls
  PROVE  Alone(call) \in Range(Reply) \union {TooMuchGas} /\ Alone(call) # Pending
BY DEF Alone, Range

\* A step of one caller does not touch the others.
LEMMA OthersKeep ==
  ASSUME NEW c \in Callers, CallerInv(c),
         asked'[c] = asked[c], next'[c] = next[c], flying'[c] = flying[c],
         results'[c] = results[c], dead'[c] = dead[c], outcome'[c] = outcome[c]
  PROVE  CallerInv(c)'
<1>1. AnsweredAlone(c)' /\ SegmentsInBatches(c)' /\ SegmentsApart(c)' /\ EachCallOwed(c)'
  BY DEF CallerInv, AnsweredAlone, SegmentsInBatches, SegmentsApart, EachCallOwed, Alone, Within,
         BatchOf, BatchNumber
<1>2. Working(c)' /\ DoneIsComplete(c)' /\ NothingBeforeCall(c)'
  BY DEF CallerInv, Working, DoneIsComplete, NothingBeforeCall, BatchNumber
<1>3. Untaken(c)'
  <2>1. Batches(Len(asked'[c])) = Batches(Len(asked[c]))
    OBVIOUS
  <2>2. QED
    BY <2>1 DEF CallerInv, Untaken, BatchNumber, Batches
<1>4. QED
  BY <1>1, <1>2, <1>3 DEF CallerInv

\* At first nobody has called.
LEMMA MulticallStarts == MulticallInit => MulticallInv
<1> SUFFICES ASSUME MulticallInit PROVE MulticallInv
  OBVIOUS
<1> USE DEF MulticallInit
<1>1. MulticallTypes
  BY DEF MulticallTypes
<1>2. ASSUME NEW c \in Callers PROVE CallerInv(c)
  <2>1. Len(asked[c]) = 0 /\ flying[c] = {} /\ dead[c] = {} /\ next[c] = 0 /\ outcome[c] = "none"
    OBVIOUS
  <2>2. 0 <= Batches(0)
    BY BatchesCover
  <2>3. QED
    BY <2>1, <2>2 DEF CallerInv, AnsweredAlone, SegmentsInBatches, SegmentsApart, EachCallOwed,
         Untaken, Working, DoneIsComplete, NothingBeforeCall
<1>3. QED
  BY <1>1, <1>2 DEF MulticallInv

\* call() cuts its calls into batches and starts a worker on each of the first.
LEMMA CallKeeps ==
  ASSUME MulticallInv, NEW c \in Callers, NEW calls \in Seq(Calls), Call(c, calls)
  PROVE  MulticallInv'
<1> DEFINE n == Len(calls)
           started == Smaller(Concurrency, Batches(n))
           segments == {Batch(b, n) : b \in 0 .. started - 1}
<1>0. /\ outcome[c] = "none"
      /\ asked' = [asked EXCEPT ![c] = calls]
      /\ results' = [results EXCEPT ![c] = [i \in DOMAIN calls |-> Pending]]
      /\ next' = [next EXCEPT ![c] = started]
      /\ flying' = [flying EXCEPT ![c] = segments]
      /\ outcome' = [outcome EXCEPT ![c] = IF Batches(n) = 0 THEN "done" ELSE "pending"]
      /\ dead' = dead /\ broken' = broken
  BY DEF Call
<1>1. n \in Nat /\ DOMAIN calls = 1 .. n /\ Batches(n) \in Nat /\ (Batches(n) = 0 <=> n = 0)
  <2>1. n \in Nat /\ DOMAIN calls = 1 .. n
    OBVIOUS
  <2> HIDE DEF n
  <2>2. QED
    BY <2>1, BatchesCover
<1>2. started \in 0 .. Batches(n) /\ (Batches(n) # 0 => started >= 1)
  BY <1>1 DEF Smaller
<1> DEFINE B == BatchSize
<1>3. ASSUME NEW b \in 0 .. started - 1
      PROVE  /\ Batch(b, n).first \in 1 .. n /\ Batch(b, n).last \in Batch(b, n).first .. n
             /\ BatchOf(Batch(b, n)) = b
             /\ \A i \in Within(Batch(b, n)) : i \in 1 .. n /\ BatchNumber(i) = b
  <2>1. b \in Nat /\ b < Batches(n)
    BY <1>1, <1>2
  <2>2. /\ Batch(b, n).first \in 1 .. n /\ Batch(b, n).last \in Batch(b, n).first .. n
        /\ BatchNumber(b * BatchSize + 1) = b
        /\ \A i \in 1 .. n : i \in Within(Batch(b, n)) <=> BatchNumber(i) = b
    BY <1>1, <2>1, BatchIs
  <2>3. BatchOf(Batch(b, n)) = b
    BY <2>2 DEF BatchOf, Batch, BatchNumber
  <2>4. QED
    BY <2>2, <2>3 DEF Within
<1>4. MulticallTypes'
  <2>1. \A b \in 0 .. started - 1 : Batch(b, n) \in [first : Nat, last : Nat]
    <3>1. ASSUME NEW b \in 0 .. started - 1 PROVE Batch(b, n) \in [first : Nat, last : Nat]
      <4>1. Batch(b, n).first \in Nat /\ Batch(b, n).last \in Nat
        BY <1>1, <1>3
      <4>2. QED
        BY <4>1 DEF Batch
    <3>2. QED
      BY <3>1
  <2>2. segments \subseteq [first : Nat, last : Nat]
    BY <2>1
  <2> HIDE DEF segments, started
  <2>3. QED
    BY <1>0, <1>1, <1>2, <2>2 DEF MulticallInv, MulticallTypes
<1> HIDE DEF started
<1>5. /\ asked'[c] = calls /\ next'[c] = started /\ flying'[c] = segments
      /\ results'[c] = [i \in 1 .. n |-> Pending] /\ dead'[c] = {}
      /\ outcome'[c] = IF n = 0 THEN "done" ELSE "pending"
  BY <1>0, <1>1 DEF MulticallInv, MulticallTypes, CallerInv, NothingBeforeCall
<1>6. CallerInv(c)'
  <2>1. AnsweredAlone(c)' /\ DoneIsComplete(c)' /\ NothingBeforeCall(c)'
    BY <1>1, <1>5 DEF AnsweredAlone, DoneIsComplete, NothingBeforeCall
  <2>2. SegmentsInBatches(c)'
    <3>1. ASSUME NEW s \in segments
          PROVE  /\ s.first \in 1 .. s.last /\ s.last \in 1 .. n /\ BatchOf(s) < started
                 /\ \A i \in Within(s) : BatchNumber(i) = BatchOf(s)
      <4>1. PICK b \in 0 .. started - 1 : s = Batch(b, n)
        OBVIOUS
      <4>2. QED
        BY <1>1, <1>2, <1>3, <4>1
    <3>2. QED
      BY <1>5, <3>1 DEF SegmentsInBatches, BatchOf, Within, BatchNumber
  <2>3. SegmentsApart(c)'
    <3>1. ASSUME NEW s \in segments, NEW t \in segments, NEW i \in Within(s)
          PROVE  i \in 1 .. n /\ (i \in Within(t) => s = t)
      BY <1>3
    <3>2. QED
      BY <1>5, <3>1 DEF SegmentsApart, Within
  <2>4. EachCallOwed(c)'
    <3>1. ASSUME NEW i \in 1 .. n, BatchNumber(i) < started
          PROVE  \E s \in segments : i \in Within(s)
      <4>1. BatchNumber(i) \in 0 .. started - 1
        BY <1>1, <1>2, <3>1, BatchesCover
      <4>2. i \in Within(Batch(BatchNumber(i), n))
        BY <1>1, <4>1, BatchIs
      <4>3. QED
        BY <4>1, <4>2
    <3>2. \A i \in 1 .. n : BatchNumber(i) \in Nat
      BY <1>1, BatchesCover
    <3>3. QED
      BY <1>2, <1>5, <3>1, <3>2 DEF EachCallOwed, Within, BatchNumber
  <2>5. Untaken(c)'
    BY <1>1, <1>2, <1>5 DEF Untaken, Batches
  <2>6. Working(c)'
    <3>1. n # 0 => 1 \in 1 .. n /\ BatchNumber(1) = 0
      <4>1. 0 \div BatchSize = 0
        BY QuotientIs
      <4>2. QED
        BY <1>1, <4>1 DEF BatchNumber
    <3>2. QED
      BY <1>1, <1>2, <1>5, <3>1 DEF Working, BatchNumber
  <2>7. QED
    BY <2>1, <2>2, <2>3, <2>4, <2>5, <2>6 DEF CallerInv
<1>7. ASSUME NEW q \in Callers, q # c PROVE CallerInv(q)'
  BY <1>0, <1>7, OthersKeep DEF MulticallInv, MulticallTypes
<1>8. QED
  BY <1>4, <1>6, <1>7 DEF MulticallInv

\* The results of a segment are filled in, and its worker goes on to the next batch when there is
\* one and its batch is complete.
LEMMA SettleKeeps ==
  ASSUME MulticallInv, NEW c \in Callers, NEW s \in flying[c], NEW values, Settle(c, s, values),
         \A i \in Within(s) : values[i] = Alone(asked[c][i])
  PROVE  MulticallInv'
<1> DEFINE n == Len(asked[c])
           filled == [i \in DOMAIN results[c] |->
                        IF i \in Within(s) THEN values[i] ELSE results[c][i]]
           whole == Batch(BatchOf(s), n)
           complete == BatchOf(s) \notin dead[c] /\ \A i \in Within(whole) : filled[i] # Pending
           more == complete /\ next[c] < Batches(n)
           rest == flying[c] \ {s}
           new == Batch(next[c], n)
           all == \A i \in DOMAIN filled : filled[i] # Pending
<1>0. /\ results' = [results EXCEPT ![c] = filled]
      /\ next' = [next EXCEPT ![c] = IF more THEN @ + 1 ELSE @]
      /\ flying' = [flying EXCEPT ![c] = IF more THEN rest \union {new} ELSE rest]
      /\ outcome' = [outcome EXCEPT ![c] = IF @ = "pending" /\ all THEN "done" ELSE @]
      /\ asked' = asked /\ dead' = dead /\ broken' = broken
  BY DEF Settle
<1>1. /\ asked[c] \in Seq(Calls) /\ n \in Nat
      /\ next[c] \in Nat /\ next[c] <= Batches(n) /\ Batches(n) \in Nat
      /\ results[c] \in [1 .. n -> Range(Reply) \union {Pending, TooMuchGas}]
      /\ outcome[c] \in {"none", "pending", "done", "failed"}
      /\ \A i \in 1 .. n : BatchNumber(i) \in Nat /\ BatchNumber(i) < Batches(n)
  <2>1. /\ asked[c] \in Seq(Calls) /\ n \in Nat
        /\ next[c] \in Nat /\ next[c] <= Batches(n)
        /\ results[c] \in [1 .. n -> Range(Reply) \union {Pending, TooMuchGas}]
        /\ outcome[c] \in {"none", "pending", "done", "failed"}
    BY DEF MulticallInv, MulticallTypes, CallerInv, Untaken
  <2> HIDE DEF n
  <2>2. /\ Batches(n) \in Nat
        /\ \A i \in 1 .. n : BatchNumber(i) \in 0 .. Batches(n) - 1
    BY <2>1, BatchesCover
  <2>3. QED
    BY <2>1, <2>2
<1>2. /\ CallerInv(c)
      /\ s.first \in 1 .. s.last /\ s.last \in 1 .. n /\ BatchOf(s) < next[c]
      /\ Within(s) \subseteq 1 .. n /\ s.first \in Within(s)
      /\ \A i \in Within(s) : BatchNumber(i) = BatchOf(s) /\ results[c][i] = Pending
  BY DEF MulticallInv, CallerInv, SegmentsInBatches, SegmentsApart, Within
<1>3. BatchOf(s) \in Nat
  <2>1. s.first \in 1 .. n
    BY <1>1, <1>2
  <2>2. BatchNumber(s.first) \in Nat
    BY <1>1, <2>1
  <2>3. QED
    BY <1>2, <2>2
\* The results afterwards.
<1>4. /\ filled \in [1 .. n -> Range(Reply) \union {Pending, TooMuchGas}]
      /\ \A i \in Within(s) : filled[i] = Alone(asked[c][i]) /\ filled[i] # Pending
      /\ \A i \in 1 .. n : i \notin Within(s) => filled[i] = results[c][i]
  <2>1. ASSUME NEW i \in Within(s)
        PROVE  /\ values[i] = Alone(asked[c][i]) /\ values[i] # Pending
               /\ values[i] \in Range(Reply) \union {TooMuchGas}
    <3>1. asked[c][i] \in Calls
      BY <1>1, <1>2
    <3>2. QED
      BY <3>1, AloneIsResult
  <2>2. QED
    BY <1>1, <1>2, <2>1
<1> HIDE DEF filled
\* The batch that is taken.
<1>5. ASSUME more
      PROVE  /\ new \in [first : Nat, last : Nat]
             /\ new.first \in 1 .. new.last /\ new.last \in 1 .. n
             /\ BatchOf(new) = next[c] /\ new \notin flying[c]
             /\ \A i \in Within(new) : /\ i \in 1 .. n /\ BatchNumber(i) = next[c]
                                        /\ filled[i] = Pending
                                        /\ \A t \in flying[c] : i \notin Within(t)
             /\ \A i \in 1 .. n : BatchNumber(i) = next[c] => i \in Within(new)
             /\ next[c] * BatchSize + 1 \in 1 .. n
             /\ BatchNumber(next[c] * BatchSize + 1) = next[c]
  <2>1. /\ next[c] * BatchSize + 1 \in 1 .. n
        /\ BatchNumber(next[c] * BatchSize + 1) = next[c]
        /\ new.first \in 1 .. n /\ new.last \in new.first .. n
        /\ \A i \in 1 .. n : i \in Within(new) <=> BatchNumber(i) = next[c]
    BY <1>1, <1>5, BatchIs
  <2>2. BatchOf(new) = next[c]
    BY <2>1 DEF BatchOf, Batch, BatchNumber
  <2>3. ASSUME NEW i \in Within(new)
        PROVE  /\ i \in 1 .. n /\ BatchNumber(i) = next[c] /\ filled[i] = Pending
               /\ \A t \in flying[c] : i \notin Within(t)
    <3>1. i \in 1 .. n /\ BatchNumber(i) = next[c]
      <4> HIDE DEF new, n
      <4>1. i \in 1 .. n
        BY <1>1, <2>1 DEF Within
      <4>2. QED
        BY <2>1, <4>1
    <3>2. \A t \in flying[c] : i \notin Within(t)
      BY <1>1, <1>2, <3>1 DEF CallerInv, SegmentsInBatches
    <3>3. results[c][i] = Pending
      BY <1>1, <1>2, <3>1 DEF CallerInv, Untaken
    <3>4. QED
      BY <1>4, <3>1, <3>2, <3>3
  <2>4. new \notin flying[c]
    BY <2>1, <2>3 DEF Within
  <2>5. new \in [first : Nat, last : Nat]
    <3>1. new.first \in Nat /\ new.last \in Nat
      BY <1>1, <2>1
    <3>2. QED
      BY <3>1 DEF Batch
  <2>6. new.first \in 1 .. new.last /\ new.last \in 1 .. n
    BY <1>1, <2>1
  <2> HIDE DEF new
  <2>7. QED
    BY <2>1, <2>2, <2>3, <2>4, <2>5, <2>6
<1>6. /\ asked'[c] = asked[c] /\ results'[c] = filled /\ dead'[c] = dead[c]
      /\ next'[c] = IF more THEN next[c] + 1 ELSE next[c]
      /\ flying'[c] = IF more THEN rest \union {new} ELSE rest
      /\ outcome'[c] = IF outcome[c] = "pending" /\ all THEN "done" ELSE outcome[c]
  BY <1>0 DEF MulticallInv, MulticallTypes
<1> HIDE DEF new, more
<1>7. MulticallTypes'
  <2>1. next'[c] \in Nat /\ flying'[c] \subseteq [first : Nat, last : Nat]
    BY <1>1, <1>5, <1>6 DEF MulticallInv, MulticallTypes
  <2>2. next' \in [Callers -> Nat] /\ flying' \in [Callers -> SUBSET [first : Nat, last : Nat]]
    BY <1>0, <2>1 DEF MulticallInv, MulticallTypes
  <2>3. outcome' \in [Callers -> {"none", "pending", "done", "failed"}]
    BY <1>0 DEF MulticallInv, MulticallTypes
  <2>4. /\ DOMAIN results' = Callers
        /\ \A q \in Callers :
             results'[q] \in [1 .. Len(asked[q]) -> Range(Reply) \union {Pending, TooMuchGas}]
    BY <1>0, <1>4 DEF MulticallInv, MulticallTypes
  <2>5. QED
    BY <1>0, <2>2, <2>3, <2>4 DEF MulticallInv, MulticallTypes
<1>8. CallerInv(c)'
  <2>0. /\ AnsweredAlone(c) /\ SegmentsInBatches(c) /\ SegmentsApart(c) /\ EachCallOwed(c)
        /\ Untaken(c) /\ Working(c) /\ DoneIsComplete(c) /\ NothingBeforeCall(c)
    BY <1>2 DEF CallerInv
  <2>1. AnsweredAlone(c)'
    BY <1>4, <1>6, <2>0 DEF AnsweredAlone, Alone
  <2>2. SegmentsInBatches(c)'
    <3>1. ASSUME NEW t \in flying'[c]
          PROVE  /\ t.first \in 1 .. t.last /\ t.last \in 1 .. n /\ BatchOf(t) < next'[c]
                 /\ \A i \in Within(t) : BatchNumber(i) = BatchOf(t)
      <4>1. CASE t \in rest
        <5>1. /\ t.first \in 1 .. t.last /\ t.last \in 1 .. n /\ BatchOf(t) < next[c]
              /\ \A i \in Within(t) : BatchNumber(i) = BatchOf(t)
          BY <2>0, <4>1 DEF SegmentsInBatches
        <5>2. BatchOf(t) \in Int
          <6>1. t.first \in 1 .. n /\ t.first \in Within(t)
            BY <1>1, <5>1 DEF Within
          <6>2. QED
            BY <1>1, <5>1, <6>1
        <5>3. QED
          BY <1>1, <1>6, <5>1, <5>2
      <4>2. CASE more /\ t = new
        BY <1>1, <1>5, <1>6, <4>2
      <4>3. QED
        BY <1>6, <3>1, <4>1, <4>2
    <3>2. QED
      BY <1>6, <3>1 DEF SegmentsInBatches, Within, BatchOf, BatchNumber
  <2>3. SegmentsApart(c)'
    <3>1. ASSUME NEW t \in flying'[c], NEW u \in flying'[c], NEW i \in Within(t)
          PROVE  filled[i] = Pending /\ (i \in Within(u) => t = u)
      <4>1. CASE t \in rest
        <5>1. results[c][i] = Pending /\ i \notin Within(s) /\ i \in 1 .. n
          BY <1>1, <2>0, <4>1 DEF SegmentsApart, SegmentsInBatches, Within
        <5>2. filled[i] = Pending
          BY <1>4, <5>1
        <5>3. CASE u \in rest
          BY <2>0, <4>1, <5>2, <5>3 DEF SegmentsApart
        <5>4. CASE more /\ u = new
          BY <1>5, <4>1, <5>2, <5>4
        <5>5. QED
          BY <1>6, <3>1, <5>3, <5>4
      <4>2. CASE more /\ t = new
        BY <1>5, <1>6, <3>1, <4>2
      <4>3. QED
        BY <1>6, <3>1, <4>1, <4>2
    <3>2. QED
      BY <1>6, <3>1 DEF SegmentsApart, Within
  <2>4. EachCallOwed(c)'
    <3>1. ASSUME NEW i \in 1 .. n, filled[i] = Pending, BatchNumber(i) < next'[c],
                 BatchNumber(i) \notin dead[c]
          PROVE  \E t \in flying'[c] : i \in Within(t)
      <4>0. BatchNumber(i) \in Nat
        BY <1>1
      <4>1. CASE BatchNumber(i) < next[c]
        <5>1. i \notin Within(s) /\ results[c][i] = Pending
          BY <1>4, <3>1
        <5>2. PICK t \in flying[c] : i \in Within(t)
          BY <1>1, <2>0, <3>1, <4>0, <4>1, <5>1 DEF EachCallOwed
        <5>3. QED
          BY <1>6, <5>1, <5>2
      <4>2. CASE ~(BatchNumber(i) < next[c])
        <5>1. more /\ BatchNumber(i) = next[c]
          BY <1>1, <1>6, <3>1, <4>0, <4>2
        <5>2. QED
          BY <1>5, <1>6, <5>1
      <4>3. QED
        BY <4>1, <4>2
    <3>2. \A i \in 1 .. n : BatchNumber(i) \in Nat
      BY <1>1
    <3>3. next'[c] \in Nat
      BY <1>1, <1>6
    <3>4. QED
      BY <1>6, <3>1, <3>2, <3>3 DEF EachCallOwed, Within, BatchNumber
  <2>5. Untaken(c)'
    <3>1. next'[c] <= Batches(n) /\ next[c] <= next'[c] /\ next'[c] \in Nat
      BY <1>1, <1>6 DEF more
    <3>2. dead'[c] \subseteq 0 .. next'[c] - 1
      BY <1>1, <1>6, <2>0, <3>1 DEF Untaken
    <3>3. ASSUME NEW i \in 1 .. n, BatchNumber(i) >= next'[c] PROVE filled[i] = Pending
      <4>1. BatchNumber(i) \in Nat
        BY <1>1
      <4>2. results[c][i] = Pending
        BY <1>1, <2>0, <3>1, <3>3, <4>1 DEF Untaken
      <4>3. i \notin Within(s)
        BY <1>1, <1>2, <3>1, <3>3, <4>1, <1>3
      <4>4. QED
        BY <1>4, <4>2, <4>3
    <3>4. QED
      BY <1>6, <3>1, <3>2, <3>3 DEF Untaken, Batches, BatchNumber
  <2>6. Working(c)'
    <3>1. SUFFICES ASSUME outcome'[c] = "pending"
                   PROVE  /\ dead[c] = {}
                          /\ \E i \in 1 .. n : filled[i] = Pending /\ BatchNumber(i) < next'[c]
      BY <1>6 DEF Working, BatchNumber
    <3>2. outcome[c] = "pending" /\ dead[c] = {}
      BY <1>6, <2>0, <3>1 DEF Working
    <3>3. PICK i \in 1 .. n : filled[i] = Pending
      BY <1>4, <1>6, <3>1, <3>2
    <3>4. BatchNumber(i) \in 0 .. Batches(n) - 1
      BY <1>1
    <3>5. CASE more
      <4>1. filled[next[c] * BatchSize + 1] = Pending
        BY <1>5, <3>5
      <4>2. next'[c] = next[c] + 1
        BY <1>6, <3>5
      <4>3. QED
        BY <1>1, <1>5, <3>2, <3>5, <4>1, <4>2
    <3>6. CASE complete /\ ~more
      <4>1. next[c] = Batches(n) /\ next'[c] = next[c]
        BY <1>1, <1>6, <3>6 DEF more
      <4>2. QED
        BY <1>1, <3>2, <3>3, <3>4, <4>1
    <3>7. CASE ~complete
      <4>1. PICK j \in Within(whole) : filled[j] = Pending
        BY <3>2, <3>7
      <4>2. j \in 1 .. n
        <5>1. whole.first \in 1 .. n /\ whole.last \in whole.first .. n
          BY <1>1, <1>2, <1>3, BatchIs
        <5>2. QED
          BY <1>1, <4>1, <5>1 DEF Within
      <4>3. BatchNumber(j) = BatchOf(s)
        BY <1>1, <1>3, <4>1, <4>2, BatchIs
      <4>4. next'[c] = next[c]
        BY <1>6, <3>7 DEF more
      <4>5. QED
        BY <1>2, <3>2, <4>1, <4>2, <4>3, <4>4
    <3>8. QED
      BY <3>5, <3>6, <3>7
  <2>7. DoneIsComplete(c)' /\ NothingBeforeCall(c)'
    <3>1. outcome[c] # "none"
      BY <2>0 DEF NothingBeforeCall
    <3>2. ASSUME outcome'[c] = "done", NEW i \in 1 .. n PROVE filled[i] # Pending
      BY <1>4, <1>6, <2>0, <3>2 DEF DoneIsComplete
    <3>3. QED
      BY <1>6, <3>1, <3>2 DEF DoneIsComplete, NothingBeforeCall
  <2>8. QED
    BY <2>1, <2>2, <2>3, <2>4, <2>5, <2>6, <2>7 DEF CallerInv
<1>9. ASSUME NEW q \in Callers, q # c PROVE CallerInv(q)'
  BY <1>0, <1>9, OthersKeep DEF MulticallInv, MulticallTypes
<1>10. QED
  BY <1>7, <1>8, <1>9 DEF MulticallInv

\* The halves of a segment are not empty, do not overlap, and have all of its calls.
LEMMA HalvedKeeps ==
  ASSUME MulticallInv, NEW c \in Callers, NEW s \in flying[c], Halved(c, s)
  PROVE  MulticallInv'
<1> DEFINE n == Len(asked[c])
           middle == (s.last - s.first + 2) \div 2
           left == [s EXCEPT !.last = s.first + middle - 1]
           right == [s EXCEPT !.first = s.first + middle]
<1>0. /\ s.first < s.last
      /\ flying' = [flying EXCEPT ![c] = (@ \ {s}) \union {left, right}]
      /\ asked' = asked /\ next' = next /\ results' = results /\ dead' = dead
      /\ outcome' = outcome /\ broken' = broken
  BY DEF Halved
<1>1. /\ asked[c] \in Seq(Calls) /\ n \in Nat /\ next[c] \in Nat
      /\ s \in [first : Nat, last : Nat]
      /\ \A t \in flying[c] : t \in [first : Nat, last : Nat]
  BY DEF MulticallInv, MulticallTypes
<1>2. /\ AnsweredAlone(c) /\ SegmentsInBatches(c) /\ SegmentsApart(c) /\ EachCallOwed(c)
      /\ Untaken(c) /\ Working(c) /\ DoneIsComplete(c) /\ NothingBeforeCall(c)
  BY DEF MulticallInv, CallerInv
<1>3. /\ s.first \in 1 .. s.last /\ s.last \in 1 .. n /\ BatchOf(s) < next[c]
      /\ \A i \in Within(s) : BatchNumber(i) = BatchOf(s) /\ results[c][i] = Pending
  BY <1>2 DEF SegmentsInBatches, SegmentsApart
<1> HIDE DEF n
<1>4. /\ left.first = s.first /\ left.last = s.first + middle - 1
      /\ right.first = s.first + middle /\ right.last = s.last
      /\ left \in [first : Nat, last : Nat] /\ right \in [first : Nat, last : Nat]
      /\ left.first <= left.last /\ right.first <= right.last
      /\ left.first \in 1 .. n /\ left.last \in 1 .. n
      /\ right.first \in 1 .. n /\ right.last \in 1 .. n
  <2>1. middle \in Nat /\ middle >= 1 /\ s.first + middle <= s.last
    BY <1>0, <1>1, <1>3
  <2> HIDE DEF middle
  <2>2. QED
    BY <1>1, <1>3, <2>1
<1>5. /\ Within(left) \subseteq Within(s) /\ Within(right) \subseteq Within(s)
      /\ \A i \in Within(s) : i \in Within(left) <=> i \notin Within(right)
      /\ left.first \in Within(s) /\ right.first \in Within(s)
  <2>1. middle \in Int /\ s.first \in Nat /\ s.last \in Nat
    BY <1>1
  <2> HIDE DEF left, right, middle
  <2>2. /\ Within(left) = s.first .. s.first + middle - 1
        /\ Within(right) = s.first + middle .. s.last
        /\ Within(s) = s.first .. s.last
    BY <1>4 DEF Within
  <2>3. s.first <= s.first + middle - 1 /\ s.first + middle <= s.last
    BY <1>4
  <2>4. left.first \in Within(s) /\ right.first \in Within(s)
    BY <1>4, <2>1, <2>2, <2>3
  <2>5. QED
    BY <2>1, <2>2, <2>3, <2>4
<1>6. BatchOf(left) = BatchOf(s) /\ BatchOf(right) = BatchOf(s)
  <2>1. BatchOf(left) = BatchNumber(left.first) /\ BatchOf(right) = BatchNumber(right.first)
    BY DEF BatchOf, BatchNumber
  <2>2. QED
    BY <1>3, <1>5, <2>1
<1> HIDE DEF left, right, middle
<1>7. /\ flying'[c] = (flying[c] \ {s}) \union {left, right}
  BY <1>0 DEF MulticallInv, MulticallTypes
<1>8. MulticallTypes'
  <2>1. flying' \in [Callers -> SUBSET [first : Nat, last : Nat]]
    BY <1>0, <1>4 DEF MulticallInv, MulticallTypes
  <2>2. QED
    BY <1>0, <2>1 DEF MulticallInv, MulticallTypes
<1>9. CallerInv(c)'
  <2>1. AnsweredAlone(c)' /\ DoneIsComplete(c)'
    BY <1>0, <1>2 DEF AnsweredAlone, DoneIsComplete, Alone
  <2>2. Working(c)'
    BY <1>0, <1>2 DEF Working, BatchNumber
  <2>3. Untaken(c)'
    <3>1. Batches(Len(asked'[c])) = Batches(Len(asked[c]))
      BY <1>0
    <3>2. QED
      BY <1>0, <1>2, <3>1 DEF Untaken, Batches, BatchNumber
  <2>4. NothingBeforeCall(c)'
    BY <1>0, <1>2 DEF NothingBeforeCall
  <2>5. SegmentsInBatches(c)'
    <3>1. ASSUME NEW t \in flying'[c]
          PROVE  /\ t.first \in 1 .. t.last /\ t.last \in 1 .. n /\ BatchOf(t) < next[c]
                 /\ \A i \in Within(t) : BatchNumber(i) = BatchOf(t)
      <4>1. CASE t \in flying[c]
        BY <1>2, <4>1 DEF SegmentsInBatches, n
      <4>2. CASE t \in {left, right}
        BY <1>1, <1>3, <1>4, <1>5, <1>6, <4>2
      <4>3. QED
        BY <1>7, <3>1, <4>1, <4>2
    <3>2. QED
      BY <1>0, <3>1 DEF SegmentsInBatches, Within, BatchOf, BatchNumber, n
  <2>6. SegmentsApart(c)'
    <3>1. ASSUME NEW t \in flying'[c], NEW u \in flying'[c], NEW i \in Within(t)
          PROVE  results[c][i] = Pending /\ (i \in Within(u) => t = u)
      <4>1. ASSUME NEW x \in {left, right}, i \in Within(x), NEW y \in flying[c] \ {s}
            PROVE  i \notin Within(y)
        BY <1>2, <1>5, <4>1 DEF SegmentsApart
      <4>2. CASE t \in flying[c] \ {s}
        BY <1>2, <1>7, <3>1, <4>1, <4>2 DEF SegmentsApart
      <4>3. CASE t \in {left, right}
        <5>1. i \in Within(s) /\ results[c][i] = Pending
          BY <1>3, <1>5, <3>1, <4>3
        <5>2. QED
          BY <1>5, <1>7, <3>1, <4>1, <4>3, <5>1
      <4>4. QED
        BY <1>7, <3>1, <4>2, <4>3
    <3>2. QED
      BY <1>0, <3>1 DEF SegmentsApart, Within
  <2>7. EachCallOwed(c)'
    <3>1. ASSUME NEW i \in 1 .. n, \E t \in flying[c] : i \in Within(t)
          PROVE  \E t \in flying'[c] : i \in Within(t)
      BY <1>5, <1>7, <3>1
    <3>2. QED
      BY <1>0, <1>2, <3>1 DEF EachCallOwed, Within, BatchNumber, n
  <2>8. QED
    BY <2>1, <2>2, <2>3, <2>4, <2>5, <2>6, <2>7 DEF CallerInv
<1>10. ASSUME NEW q \in Callers, q # c PROVE CallerInv(q)'
  BY <1>0, <1>10, OthersKeep DEF MulticallInv, MulticallTypes
<1>11. QED
  BY <1>8, <1>9, <1>10 DEF MulticallInv

\* A request that is not executed fails its batch and the call, and leaves the others alone.
LEMMA BrokenKeeps ==
  ASSUME MulticallInv, NEW c \in Callers, NEW s \in flying[c], Broken(c, s)
  PROVE  MulticallInv'
<1>0. /\ flying' = [flying EXCEPT ![c] = @ \ {s}]
      /\ dead' = [dead EXCEPT ![c] = @ \union {BatchOf(s)}]
      /\ outcome' = [outcome EXCEPT ![c] = IF @ = "pending" THEN "failed" ELSE @]
      /\ broken' = broken \union {c}
      /\ asked' = asked /\ next' = next /\ results' = results
  BY DEF Broken
<1>1. /\ AnsweredAlone(c) /\ SegmentsInBatches(c) /\ SegmentsApart(c) /\ EachCallOwed(c)
      /\ Untaken(c) /\ Working(c) /\ DoneIsComplete(c) /\ NothingBeforeCall(c)
  BY DEF MulticallInv, CallerInv
<1>2. /\ BatchOf(s) \in Nat /\ BatchOf(s) < next[c]
      /\ \A i \in Within(s) : BatchNumber(i) = BatchOf(s)
  <2>1. /\ s.first \in 1 .. s.last /\ s.last \in 1 .. Len(asked[c]) /\ BatchOf(s) < next[c]
        /\ \A i \in Within(s) : BatchNumber(i) = BatchOf(s)
    BY <1>1 DEF SegmentsInBatches
  <2>2. Len(asked[c]) \in Nat
    BY DEF MulticallInv, MulticallTypes
  <2>3. s.first \in 1 .. Len(asked[c])
    BY <2>1, <2>2
  <2>4. BatchNumber(s.first) \in Nat
    <3> DEFINE n == Len(asked[c])
    <3>1. n \in Nat /\ s.first \in 1 .. n
      BY <2>2, <2>3
    <3> HIDE DEF n
    <3>2. QED
      BY <3>1, BatchesCover
  <2>5. QED
    BY <2>1, <2>4 DEF BatchOf, BatchNumber
<1>3. /\ flying'[c] = flying[c] \ {s} /\ dead'[c] = dead[c] \union {BatchOf(s)}
      /\ outcome'[c] = IF outcome[c] = "pending" THEN "failed" ELSE outcome[c]
  BY <1>0 DEF MulticallInv, MulticallTypes
<1>4. MulticallTypes'
  BY <1>0, <1>2 DEF MulticallInv, MulticallTypes
<1>5. CallerInv(c)'
  <2>1. AnsweredAlone(c)'
    BY <1>0, <1>1 DEF AnsweredAlone, Alone
  <2>2. SegmentsInBatches(c)'
    BY <1>0, <1>1, <1>3 DEF SegmentsInBatches, Within, BatchOf, BatchNumber
  <2>3. SegmentsApart(c)'
    BY <1>0, <1>1, <1>3 DEF SegmentsApart, Within
  <2>4. EachCallOwed(c)'
    BY <1>0, <1>1, <1>2, <1>3 DEF EachCallOwed, Within, BatchNumber
  <2>5. Untaken(c)'
    <3>1. (next[c] <= Batches(Len(asked[c])))'
      BY <1>0, <1>1 DEF Untaken, Batches
    <3>2. dead'[c] \subseteq 0 .. next'[c] - 1
      BY <1>0, <1>1, <1>2, <1>3 DEF Untaken, MulticallInv, MulticallTypes
    <3>3. \A i \in 1 .. Len(asked'[c]) : BatchNumber(i) >= next'[c] => results'[c][i] = Pending
      BY <1>0, <1>1 DEF Untaken
    <3>4. QED
      BY <3>1, <3>2, <3>3 DEF Untaken, BatchNumber
  <2>6. Working(c)' /\ DoneIsComplete(c)'
    BY <1>0, <1>1, <1>3 DEF Working, DoneIsComplete
  <2>7. NothingBeforeCall(c)'
    BY <1>1, <1>3 DEF NothingBeforeCall
  <2>8. QED
    BY <2>1, <2>2, <2>3, <2>4, <2>5, <2>6, <2>7 DEF CallerInv
<1>6. ASSUME NEW q \in Callers, q # c PROVE CallerInv(q)'
  BY <1>0, <1>6, OthersKeep DEF MulticallInv, MulticallTypes
<1>7. QED
  BY <1>4, <1>5, <1>6 DEF MulticallInv

\* The result of a request that is executed, or whose only call is not, is that of each call by
\* itself.
LEMMA RequestIsStep ==
  ASSUME MulticallTypes, NEW c \in Callers, Request(c)
  PROVE  \E s \in flying[c] :
           \/ \E values : Settle(c, s, values) /\ \A i \in Within(s) : values[i] = Alone(asked[c][i])
           \/ Halved(c, s)
           \/ Broken(c, s)
<1>1. PICK s \in flying[c] : Executed(c, s) \/ Isolated(c, s) \/ Halved(c, s) \/ Broken(c, s)
  BY DEF Request
<1>2. CASE Executed(c, s)
  <2> DEFINE values == [i \in Within(s) |-> Reply[asked[c][i]]]
  <2>1. Settle(c, s, values) /\ \A i \in Within(s) : asked[c][i] \notin Costly
    BY <1>2 DEF Executed, HasCostly
  <2>2. \A i \in Within(s) : values[i] = Alone(asked[c][i])
    BY <2>1 DEF Alone
  <2> HIDE DEF values
  <2>3. QED
    BY <2>1, <2>2
<1>3. CASE Isolated(c, s)
  <2> DEFINE values == [i \in Within(s) |-> TooMuchGas]
  <2>1. /\ Settle(c, s, values) /\ s.first = s.last
        /\ \E i \in Within(s) : asked[c][i] \in Costly
    BY <1>3 DEF Isolated, HasCostly
  <2>2. \A i \in Within(s) : asked[c][i] \in Costly
    <3>1. ASSUME NEW i \in Within(s), NEW j \in Within(s) PROVE i = j
      <4>1. s.first \in Nat
        BY DEF MulticallTypes
      <4>2. QED
        BY <2>1, <3>1, <4>1 DEF Within
    <3>2. QED
      BY <2>1, <3>1
  <2>3. \A i \in Within(s) : values[i] = Alone(asked[c][i])
    BY <2>2 DEF Alone
  <2> HIDE DEF values
  <2>4. QED
    BY <2>1, <2>3
<1>4. QED
  BY <1>1, <1>2, <1>3

\* A request that is answered, halved or failed keeps the invariant.
LEMMA RequestKeeps ==
  ASSUME MulticallInv, NEW c \in Callers, Request(c)
  PROVE  MulticallInv'
BY RequestIsStep, SettleKeeps, HalvedKeeps, BrokenKeeps DEF MulticallInv

-----------------------------------------------------------------------------
(* The multicall implements CallEach *)

\* What a caller is told, as CallEach sees it.
Told == [c \in Callers |-> IF outcome[c] = "done" THEN results[c] ELSE <<>>]

\* call() asks, and is answered at once if there is nothing to ask.
LEMMA CallAsks ==
  ASSUME MulticallInv, NEW c \in Callers, NEW calls \in Seq(Calls), Call(c, calls)
  PROVE  Each!Ask(c)
<1>1. /\ outcome[c] = "none" /\ asked' = [asked EXCEPT ![c] = calls]
      /\ results' = [results EXCEPT ![c] = [i \in DOMAIN calls |-> Pending]]
      /\ outcome' = [outcome EXCEPT ![c] = IF Batches(Len(calls)) = 0 THEN "done" ELSE "pending"]
      /\ broken' = broken
  BY DEF Call
<1>2. /\ asked \in [Callers -> Seq(Calls)] /\ outcome \in [Callers -> {"none", "pending", "done", "failed"}]
      /\ DOMAIN results = Callers
  BY DEF MulticallInv, MulticallTypes
<1>3. asked'[c] = calls
  BY <1>1, <1>2
<1>4. Batches(Len(calls)) = 0 <=> calls = <<>>
  <2>1. Len(calls) \in Nat /\ (Len(calls) = 0 <=> calls = <<>>)
    OBVIOUS
  <2>2. QED
    BY <2>1, BatchesCover
<1>5. calls = <<>> => [i \in DOMAIN calls |-> Pending] = <<>>
  OBVIOUS
<1>6. Told' = Told
  <2>1. ASSUME NEW q \in Callers PROVE Told'[q] = Told[q]
    <3>1. CASE q = c
      BY <1>1, <1>2, <1>4, <1>5, <3>1 DEF Told
    <3>2. CASE q # c
      BY <1>1, <1>2, <3>2 DEF Told
    <3>3. QED
      BY <3>1, <3>2
  <2>2. QED
    BY <2>1 DEF Told
<1>7. outcome' = [outcome EXCEPT ![c] = IF asked'[c] = <<>> THEN "done" ELSE "pending"]
  BY <1>1, <1>3, <1>4
<1>8. asked' = [asked EXCEPT ![c] = asked'[c]]
  BY <1>1, <1>3
<1>9. QED
  BY <1>1, <1>6, <1>7, <1>8 DEF Each!Ask, Told

\* Results that come in answer the call when they are the last, and tell a caller that has been
\* answered nothing new.
LEMMA SettleAnswers ==
  ASSUME MulticallInv, NEW c \in Callers, NEW s \in flying[c], NEW values, Settle(c, s, values),
         \A i \in Within(s) : values[i] = Alone(asked[c][i])
  PROVE  Each!Answer(c) \/ UNCHANGED Each!vars
<1> DEFINE n == Len(asked[c])
           filled == [i \in DOMAIN results[c] |->
                        IF i \in Within(s) THEN values[i] ELSE results[c][i]]
           all == \A i \in DOMAIN filled : filled[i] # Pending
<1>1. /\ results' = [results EXCEPT ![c] = filled]
      /\ outcome' = [outcome EXCEPT ![c] = IF @ = "pending" /\ all THEN "done" ELSE @]
      /\ asked' = asked /\ broken' = broken
  BY DEF Settle
<1>2. /\ asked[c] \in Seq(Calls) /\ n \in Nat /\ DOMAIN asked[c] = 1 .. n
      /\ outcome \in [Callers -> {"none", "pending", "done", "failed"}]
      /\ DOMAIN results = Callers /\ DOMAIN results[c] = 1 .. n
      /\ results[c] \in [1 .. n -> Range(Reply) \union {Pending, TooMuchGas}]
  BY DEF MulticallInv, MulticallTypes
<1>3. \A i \in 1 .. n : filled[i] # Pending => filled[i] = Alone(asked[c][i])
  BY <1>2 DEF MulticallInv, CallerInv, AnsweredAlone
<1>4. DOMAIN filled = 1 .. n /\ filled = [i \in 1 .. n |-> filled[i]]
  BY <1>2
<1>5. \A q \in Callers : q # c => results'[q] = results[q] /\ outcome'[q] = outcome[q]
  BY <1>1, <1>2
<1>6. CASE outcome[c] = "pending" /\ all
  <2>1. filled = [i \in DOMAIN asked[c] |-> Alone(asked[c][i])]
    <3> HIDE DEF filled
    <3>1. \A i \in 1 .. n : filled[i] = Alone(asked[c][i])
      BY <1>3, <1>4, <1>6
    <3>2. QED
      BY <1>2, <1>4, <3>1
  <2>2. outcome' = [outcome EXCEPT ![c] = "done"] /\ outcome'[c] = "done" /\ results'[c] = filled
    BY <1>1, <1>2, <1>6
  <2> HIDE DEF filled
  <2>3. Told' = [Told EXCEPT ![c] = filled]
    <3>1. ASSUME NEW q \in Callers PROVE Told'[q] = [Told EXCEPT ![c] = filled][q]
      BY <1>5, <2>2 DEF Told
    <3>2. QED
      BY <3>1 DEF Told
  <2>4. Told' = [Told EXCEPT ![c] = [i \in DOMAIN asked[c] |-> Alone(asked[c][i])]]
    BY <2>1, <2>3
  <2>5. QED
    BY <1>1, <1>6, <2>2, <2>4 DEF Each!Answer, Told
<1>7. CASE ~(outcome[c] = "pending" /\ all)
  <2>1. outcome' = outcome
    BY <1>1, <1>2, <1>7
  <2>2. outcome[c] = "done" => results'[c] = results[c]
    <3>1. SUFFICES ASSUME outcome[c] = "done" PROVE filled = results[c]
      BY <1>1, <1>2
    <3>2. \A i \in 1 .. n : results[c][i] # Pending /\ results[c][i] = Alone(asked[c][i])
      BY <1>2, <3>1 DEF MulticallInv, CallerInv, AnsweredAlone, DoneIsComplete
    <3>3. \A i \in 1 .. n : filled[i] = results[c][i]
      BY <1>2, <3>2
    <3> HIDE DEF filled
    <3>4. QED
      BY <1>2, <1>4, <3>3
  <2>3. Told' = Told
    <3>1. ASSUME NEW q \in Callers PROVE Told'[q] = Told[q]
      BY <1>5, <2>1, <2>2 DEF Told
    <3>2. QED
      BY <3>1 DEF Told
  <2>4. QED
    BY <1>1, <2>1, <2>3 DEF Each!vars, Told
<1>8. QED
  BY <1>6, <1>7

\* A request that is not executed fails a call that has not ended.
LEMMA BrokenBreaks ==
  ASSUME MulticallInv, NEW c \in Callers, NEW s \in flying[c], Broken(c, s)
  PROVE  Each!Break(c)
<1>1. /\ outcome' = [outcome EXCEPT ![c] = IF outcome[c] = "pending" THEN "failed" ELSE outcome[c]]
      /\ broken' = broken \union {c} /\ asked' = asked /\ results' = results
  BY DEF Broken
<1>2. outcome \in [Callers -> {"none", "pending", "done", "failed"}]
  BY DEF MulticallInv, MulticallTypes
<1>3. \A q \in Callers : outcome'[q] = "done" <=> outcome[q] = "done"
  BY <1>1, <1>2
<1>4. Told' = Told
  BY <1>1, <1>3 DEF Told
<1>5. QED
  BY <1>1, <1>4 DEF Each!Break, Told

\* A request that is answered, halved or failed is a step of CallEach, or none.
LEMMA RequestImplements ==
  ASSUME MulticallInv, NEW c \in Callers, Request(c)
  PROVE  [Each!Next]_Each!vars
<1>1. PICK s \in flying[c] :
        \/ \E values : Settle(c, s, values) /\ \A i \in Within(s) : values[i] = Alone(asked[c][i])
        \/ Halved(c, s)
        \/ Broken(c, s)
  BY RequestIsStep DEF MulticallInv
<1>2. CASE Halved(c, s)
  BY <1>2 DEF Halved, Each!vars
<1>3. QED
  BY <1>1, <1>2, SettleAnswers, BrokenBreaks DEF Each!Next

-----------------------------------------------------------------------------
(* What a lookup has to read *)

USE AddressesAssumption, MaxTokensAssumption

\* What an entry may hold.
Entries == Range(Reply) \union {Pending, TooMuchGas, NoToken}

CacheTypes ==
  /\ keys \in Seq(Addresses) /\ IsInjective(keys) /\ Len(keys) <= MaxTokens
  /\ token \in [Addresses -> Entries]
  /\ missing \in [Callers -> Seq(Addresses)]
  /\ stage \in [Callers -> {"new", "reading", "done", "rejected"}]
  /\ answer \in [Callers -> SUBSET (Addresses \X Range(Decimals))]
  /\ forgotten \in [Callers -> SUBSET Addresses]

\* What is missing is wanted, and whatever is wanted is cached or missing.
LEMMA MissingFacts ==
  ASSUME CacheTypes, NEW c \in Callers
  PROVE  /\ Missing(c) \in Seq(Addresses)
         /\ Len(Missing(c)) <= Len(Wanted[c])
         /\ Range(Missing(c)) \subseteq Range(Wanted[c])
         /\ Range(Wanted[c]) \subseteq Range(keys) \union Range(Missing(c))
<1> DEFINE L == Len(Wanted[c])
           S == Seq(Addresses)
           Next1(n, f) == IF Wanted[c][n] \in Range(keys) \union Range(f) THEN f
                          ELSE Append(f, Wanted[c][n])
           found[n \in 0 .. L] == IF n = 0 THEN <<>> ELSE Next1(n, found[n - 1])
<1>1. L \in Nat /\ Wanted[c] \in Seq(Addresses) /\ \A n \in 1 .. L : Wanted[c][n] \in Addresses
  OBVIOUS
<1>2. Missing(c) = found[L]
  BY DEF Missing
<1>3. found = CHOOSE f : f = [n \in 0 .. L |-> IF n = 0 THEN <<>> ELSE Next1(n, f[n - 1])]
  BY Zenon
<1> HIDE DEF found, L
<1>4. \A n \in 1 .. L, f \in S : Next1(n, f) \in S
  BY <1>1
<1>5. PICK step : step = [p \in (1 .. L) \X S |-> Next1(p[1], p[2])]
  OBVIOUS
<1> DEFINE none == <<>>
<1>a. none \in S
  OBVIOUS
<1> HIDE DEF Next1, S, none
<1>6. PICK f : IsLoop(f, S, none, L, step)
  <2>1. L \in Nat
    BY <1>1
  <2>2. step \in [(1 .. L) \X S -> S]
    <3>1. \A p \in (1 .. L) \X S : p[1] \in 1 .. L /\ p[2] \in S
      OBVIOUS
    <3>2. \A p \in (1 .. L) \X S : Next1(p[1], p[2]) \in S
      BY ONLY <1>4, <3>1
    <3>3. QED
      BY ONLY <1>5, <3>2
  <2>3. QED
    BY ONLY <1>a, <2>1, <2>2, LoopExists, Zenon
<1> USE DEF IsLoop
<1>7. f = [n \in 0 .. L |-> IF n = 0 THEN none ELSE Next1(n, f[n - 1])]
  <2>1. \A n \in 1 .. L : f[n - 1] \in S /\ f[n] = Next1(n, f[n - 1])
    <3>1. TAKE n \in 1 .. L
    <3>2. n - 1 \in 0 .. L
      BY <1>1
    <3>3. QED
      BY <1>5, <1>6, <3>2
  <2>2. \A n \in 0 .. L : f[n] = IF n = 0 THEN none ELSE Next1(n, f[n - 1])
    BY <1>1, <1>6, <2>1
  <2>3. QED
    BY <1>6, <2>2
<1>8. found = [n \in 0 .. L |-> IF n = 0 THEN <<>> ELSE Next1(n, found[n - 1])]
  BY <1>3, <1>7, Zenon DEF none
<1>9. found[0] = <<>> /\ \A n \in 0 .. L - 1 : found[n + 1] = Next1(n + 1, found[n])
  <2>1. \A n \in 0 .. L : found[n] = IF n = 0 THEN <<>> ELSE Next1(n, found[n - 1])
    BY <1>8
  <2>2. \A n \in 0 .. L - 1 : n + 1 \in 0 .. L /\ n + 1 # 0 /\ n + 1 - 1 = n
    BY <1>1
  <2>3. QED
    BY <1>1, <2>1, <2>2
<1> DEFINE Collected(n) ==
      /\ found[n] \in Seq(Addresses) /\ Len(found[n]) <= n
      /\ Range(found[n]) \subseteq Range(Wanted[c])
      /\ \A i \in 1 .. n : Wanted[c][i] \in Range(keys) \union Range(found[n])
           K == {n \in 0 .. L : Collected(n)}
<1>10. 0 \in K
  <2>1. 0 \in 0 .. L /\ found[0] = <<>> /\ Range(<<>>) = {} /\ <<>> \in Seq(Addresses) /\ Len(<<>>) = 0
    BY <1>1, <1>9 DEF Range
  <2>2. \A i \in 1 .. 0 : FALSE
    OBVIOUS
  <2>3. Collected(0)
    BY <2>1, <2>2
  <2>4. QED
    BY <2>1, <2>3, Zenon
<1>11. ASSUME NEW n \in 0 .. L - 1, n \in K PROVE n + 1 \in K
  <2>1. Collected(n) /\ n + 1 \in 1 .. L
    BY <1>1, <1>11
  <2>2. Wanted[c][n + 1] \in Addresses /\ Wanted[c][n + 1] \in Range(Wanted[c])
    BY <1>1, <2>1 DEF Range, L
  <2>3. CASE Wanted[c][n + 1] \in Range(keys) \union Range(found[n])
    <3>1. found[n + 1] = found[n]
      BY <1>9, <2>3 DEF Next1
    <3>2. QED
      BY <1>1, <2>1, <2>3, <3>1
  <2>4. CASE Wanted[c][n + 1] \notin Range(keys) \union Range(found[n])
    <3>1. found[n + 1] = Append(found[n], Wanted[c][n + 1])
      BY <1>9, <2>4 DEF Next1
    <3>2. /\ found[n + 1] \in Seq(Addresses) /\ Len(found[n + 1]) = Len(found[n]) + 1
          /\ Range(found[n + 1]) = Range(found[n]) \union {Wanted[c][n + 1]}
      BY <2>1, <2>2, <3>1, PushFacts
    <3>3. QED
      BY <1>1, <2>1, <2>2, <3>2
  <2>5. QED
    BY <2>3, <2>4
<1>12. L \in K
  <2> HIDE DEF K
  <2>0. L \in Nat
    BY <1>1
  <2>1. \A n \in 0 .. L - 1 : n \in K => n + 1 \in K
    BY ONLY <1>11
  <2>2. \A n \in 0 .. L : n \in K
    BY ONLY <1>10, <2>0, <2>1, UpToLast
  <2>3. QED
    BY ONLY <2>0, <2>2
<1>13. QED
  <2>1. Collected(L)
    BY <1>12
  <2>2. Range(Wanted[c]) = {Wanted[c][i] : i \in 1 .. L}
    BY <1>1 DEF Range, L
  <2> HIDE DEF Collected
  <2>3. Collected(L) => /\ found[L] \in Seq(Addresses) /\ Len(found[L]) <= L
                    /\ Range(found[L]) \subseteq Range(Wanted[c])
                    /\ \A i \in 1 .. L : Wanted[c][i] \in Range(keys) \union Range(found[L])
    BY DEF Collected
  <2>4. QED
    BY <1>2, <2>1, <2>2, <2>3 DEF L

-----------------------------------------------------------------------------
(* The loop over what was missing *)

Maps == [keys : Seq(Addresses), token : [Addresses -> Entries], thrown : BOOLEAN,
         lost : SUBSET Addresses]

\* The Map is not too long, has no key twice, and has the token of each of its keys.
MapOK(map) ==
  /\ map \in Maps /\ IsInjective(map.keys) /\ Len(map.keys) <= MaxTokens
  /\ \A a \in Range(map.keys) : map.token[a] = Decimals[a]

\* Why an address that was read is not in the Map.
NoDecimals(a) == Decimals[a] \in NotTokens \/ <<a, "decimals">> \in Costly

\* The Map after n turns of the loop, against the Map before it: it has what was there and what was
\* read unless it has lost it, and it has what the last turn has read.
AfterTurns(c, n, map) ==
  /\ MapOK(map)
  /\ Range(keys) \subseteq Range(map.keys) \union map.lost
  /\ ~map.thrown =>
       /\ \A i \in 1 .. n : NoDecimals(missing[c][i]) \/ missing[c][i] \in Range(map.keys) \union map.lost
       /\ n > 0 => NoDecimals(missing[c][n]) \/ missing[c][n] \in Range(map.keys)

\* this.cache.set has the type of the Map whatever it puts.
LEMMA PutType ==
  ASSUME NEW map \in Maps, NEW a \in Addresses, NEW decimals \in Entries
  PROVE  Put(map, a, decimals) \in Maps
<1> DEFINE grown == IF a \in Range(map.keys) THEN map.keys ELSE Append(map.keys, a)
           entry == [map.token EXCEPT ![a] = decimals]
<1>1. map.keys \in Seq(Addresses) /\ map.token \in [Addresses -> Entries] /\ map.lost \subseteq Addresses
      /\ map.thrown \in BOOLEAN
  BY DEF Maps
<1>2. grown \in Seq(Addresses) /\ entry \in [Addresses -> Entries] /\ NoToken \in Entries
  BY <1>1 DEF Entries
<1>3. Put(map, a, decimals) = IF Len(grown) > MaxTokens
        THEN [keys |-> Tail(grown), token |-> [entry EXCEPT ![Head(grown)] = NoToken],
              thrown |-> map.thrown, lost |-> map.lost \union {Head(grown)}]
        ELSE [keys |-> grown, token |-> entry, thrown |-> map.thrown, lost |-> map.lost]
  BY DEF Put
<1> HIDE DEF grown, entry
<1>4. CASE Len(grown) > MaxTokens
  <2>1. grown # <<>> /\ Head(grown) \in Addresses /\ Tail(grown) \in Seq(Addresses)
    BY <1>2, <1>4
  <2>2. [entry EXCEPT ![Head(grown)] = NoToken] \in [Addresses -> Entries]
    BY <1>2
  <2> DEFINE k == Tail(grown)
             t == [entry EXCEPT ![Head(grown)] = NoToken]
             l == map.lost \union {Head(grown)}
  <2>3. k \in Seq(Addresses) /\ t \in [Addresses -> Entries] /\ l \in SUBSET Addresses
    BY <1>1, <2>1, <2>2
  <2>4. Put(map, a, decimals) = [keys |-> k, token |-> t, thrown |-> map.thrown, lost |-> l]
    BY <1>3, <1>4
  <2> HIDE DEF k, t, l
  <2>5. QED
    BY <1>1, <2>3, <2>4 DEF Maps
<1>5. CASE ~(Len(grown) > MaxTokens)
  BY <1>1, <1>2, <1>3, <1>5 DEF Maps
<1>6. QED
  BY <1>4, <1>5

\* this.cache.set of a token has its key, keeps the others but the first, and counts what it forgets
\* as lost.
LEMMA PutFacts ==
  ASSUME NEW map, MapOK(map), NEW a \in Addresses, Decimals[a] \in Entries
  PROVE  LET put == Put(map, a, Decimals[a])
         IN  /\ MapOK(put) /\ put.thrown = map.thrown
             /\ a \in Range(put.keys)
             /\ Range(map.keys) \subseteq Range(put.keys) \union put.lost
             /\ map.lost \subseteq put.lost
<1> DEFINE grown == IF a \in Range(map.keys) THEN map.keys ELSE Append(map.keys, a)
           entry == [map.token EXCEPT ![a] = Decimals[a]]
           put == Put(map, a, Decimals[a])
<1>1. /\ map \in Maps /\ map.keys \in Seq(Addresses) /\ IsInjective(map.keys)
      /\ Len(map.keys) <= MaxTokens /\ map.token \in [Addresses -> Entries]
      /\ \A b \in Range(map.keys) : b \in Addresses /\ map.token[b] = Decimals[b]
  <2>1. /\ map \in Maps /\ IsInjective(map.keys) /\ Len(map.keys) <= MaxTokens
        /\ \A b \in Range(map.keys) : map.token[b] = Decimals[b]
    BY DEF MapOK
  <2>2. map.keys \in Seq(Addresses) /\ map.token \in [Addresses -> Entries]
    BY <2>1 DEF Maps
  <2>3. \A b \in Range(map.keys) : b \in Addresses
    BY <2>2 DEF Range
  <2>4. QED
    BY <2>1, <2>2, <2>3
<1>2. put \in Maps
  BY <1>1, PutType
<1>3. /\ grown \in Seq(Addresses) /\ IsInjective(grown) /\ Range(grown) = Range(map.keys) \union {a}
      /\ Len(grown) <= Len(map.keys) + 1 /\ Len(grown) \in Nat
  <2>1. CASE a \in Range(map.keys)
    BY <1>1, <2>1
  <2>2. CASE a \notin Range(map.keys)
    <3>1. grown = Append(map.keys, a)
      BY <2>2
    <3> HIDE DEF grown
    <3>2. QED
      BY <1>1, <2>2, <3>1, AppendFacts
  <2>3. QED
    BY <2>1, <2>2
<1>4. entry \in [Addresses -> Entries] /\ \A b \in Range(map.keys) \union {a} : entry[b] = Decimals[b]
  BY <1>1
<1>5. put = IF Len(grown) > MaxTokens
        THEN [keys |-> Tail(grown), token |-> [entry EXCEPT ![Head(grown)] = NoToken],
              thrown |-> map.thrown, lost |-> map.lost \union {Head(grown)}]
        ELSE [keys |-> grown, token |-> entry, thrown |-> map.thrown, lost |-> map.lost]
  BY DEF Put
<1> HIDE DEF grown, entry, put
<1>6. CASE Len(grown) > MaxTokens
  <2>1. /\ put.keys = Tail(grown) /\ put.token = [entry EXCEPT ![Head(grown)] = NoToken]
        /\ put.lost = map.lost \union {Head(grown)} /\ put.thrown = map.thrown
    BY <1>1, <1>5, <1>6 DEF Maps
  <2>2. grown # <<>>
    BY <1>3, <1>6
  <2>3. /\ Len(Tail(grown)) = Len(grown) - 1 /\ Range(Tail(grown)) = Range(grown) \ {Head(grown)}
        /\ IsInjective(Tail(grown)) /\ Head(grown) \in Range(grown)
    BY <1>3, <2>2, TailFacts
  <2>4. a # Head(grown)
    <3>1. a \notin Range(map.keys) /\ grown = Append(map.keys, a)
      BY <1>1, <1>6 DEF grown
    <3>2. Len(map.keys) >= 1
      BY <1>1, <1>3, <1>6
    <3>3. Head(grown) = map.keys[1] /\ map.keys[1] \in Range(map.keys)
      BY <1>1, <3>1, <3>2 DEF Range
    <3>4. QED
      BY <3>1, <3>3
  <2>5. Len(put.keys) <= MaxTokens
    BY <1>1, <1>3, <2>1, <2>3
  <2>6. \A b \in Range(put.keys) : put.token[b] = Decimals[b]
    BY <1>1, <1>3, <1>4, <2>1, <2>3
  <2>7. MapOK(put)
    BY <1>2, <2>1, <2>3, <2>5, <2>6 DEF MapOK
  <2>8. QED
    BY <1>3, <2>1, <2>3, <2>4, <2>7 DEF put
<1>7. CASE ~(Len(grown) > MaxTokens)
  <2>1. put.keys = grown /\ put.token = entry /\ put.lost = map.lost /\ put.thrown = map.thrown
    BY <1>1, <1>5, <1>7 DEF Maps
  <2>2. MapOK(put)
    BY <1>2, <1>3, <1>4, <1>7, <2>1 DEF MapOK
  <2>3. QED
    BY <1>3, <2>1, <2>2 DEF put
<1>8. QED
  BY <1>6, <1>7

\* What was read of the i-th address that was missing is what its own decimals answer.
ReadOwn(c) ==
  \A i \in 1 .. Len(missing[c]) : DecimalsResult(c, i) = Alone(<<missing[c][i], "decimals">>)

\* A turn makes a Map of a Map.
LEMMA TurnType ==
  ASSUME CacheTypes, NEW c \in Callers, ReadOwn(c),
         NEW i \in 1 .. Len(missing[c]), NEW map \in Maps
  PROVE  Turn(c, i, map) \in Maps
<1>1. missing[c][i] \in Addresses
  BY DEF CacheTypes
<1>2. DecimalsResult(c, i) \in Entries
  <2>1. <<missing[c][i], "decimals">> \in Calls
    BY <1>1
  <2>2. Alone(<<missing[c][i], "decimals">>) \in Entries
    BY <2>1, AloneIsResult DEF Entries
  <2>3. QED
    BY <2>2 DEF ReadOwn
<1>3. Put(map, missing[c][i], DecimalsResult(c, i)) \in Maps
  BY <1>1, <1>2, PutType
<1>4. [map EXCEPT !.thrown = TRUE] \in Maps
  BY DEF Maps
<1>5. QED
  BY <1>3, <1>4 DEF Turn

\* A turn puts the token that was read, unless there is none.
LEMMA TurnKeeps ==
  ASSUME CacheTypes, NEW c \in Callers, ReadOwn(c), NEW n \in 0 .. Len(missing[c]) - 1, NEW map,
         AfterTurns(c, n, map)
  PROVE  AfterTurns(c, n + 1, Turn(c, n + 1, map))
<1> DEFINE a == missing[c][n + 1]
           d == DecimalsResult(c, n + 1)
           after == Turn(c, n + 1, map)
<1>1. Len(missing[c]) \in Nat /\ n \in Nat /\ n + 1 \in 1 .. Len(missing[c]) /\ a \in Addresses
  BY DEF CacheTypes
<1>2. d = Alone(<<a, "decimals">>) /\ <<a, "decimals">> \in Calls
      /\ Reply[<<a, "decimals">>] = Decimals[a] /\ Reply[<<a, "decimals">>] # TooMuchGas
      /\ Decimals[a] \in Entries
  <2>1. d = Alone(<<a, "decimals">>) /\ Reply[<<a, "decimals">>] = Decimals[a]
    BY <1>1 DEF ReadOwn
  <2>2. <<a, "decimals">> \in Calls
    BY <1>1
  <2>3. Reply[<<a, "decimals">>] \in Range(Reply)
    BY <2>2 DEF Range
  <2>4. QED
    BY <2>1, <2>2, <2>3 DEF Entries
<1>3. d = IF <<a, "decimals">> \in Costly THEN TooMuchGas ELSE Decimals[a]
  BY <1>2 DEF Alone
<1>4. /\ MapOK(map) /\ map \in Maps
      /\ Range(keys) \subseteq Range(map.keys) \union map.lost
      /\ ~map.thrown =>
           \A i \in 1 .. n : NoDecimals(missing[c][i]) \/ missing[c][i] \in Range(map.keys) \union map.lost
  BY DEF AfterTurns, MapOK
<1>5. after = IF map.thrown \/ d \in {"empty", "revert", TooMuchGas} THEN map
              ELSE IF d = "garbage" THEN [map EXCEPT !.thrown = TRUE]
              ELSE Put(map, a, d)
  BY DEF Turn
<1> HIDE DEF a, d, after
<1>6. CASE map.thrown \/ d \in {"empty", "revert", TooMuchGas}
  <2>1. after = map
    BY <1>5, <1>6
  <2>2. map.thrown \/ NoDecimals(a)
    BY <1>2, <1>3, <1>6 DEF NoDecimals, NotTokens
  <2>3. ~map.thrown => \A i \in 1 .. n + 1 :
          NoDecimals(missing[c][i]) \/ missing[c][i] \in Range(map.keys) \union map.lost
    BY <1>1, <1>4, <2>2 DEF a
  <2>4. QED
    BY <1>4, <2>1, <2>2, <2>3 DEF AfterTurns, after, a
<1>7. CASE ~map.thrown /\ d \notin {"empty", "revert", TooMuchGas} /\ d = "garbage"
  <2>1. after = [map EXCEPT !.thrown = TRUE]
    BY <1>5, <1>7
  <2>2. after \in Maps /\ after.thrown = TRUE /\ after.keys = map.keys /\ after.token = map.token
        /\ after.lost = map.lost
    BY <1>4, <2>1 DEF Maps
  <2>3. MapOK(after)
    BY <1>4, <2>2 DEF MapOK
  <2>4. QED
    BY <1>4, <2>2, <2>3 DEF AfterTurns, after
<1>8. CASE ~map.thrown /\ d \notin {"empty", "revert", TooMuchGas} /\ d # "garbage"
  <2>1. after = Put(map, a, Decimals[a])
    BY <1>3, <1>5, <1>8
  <2>2. /\ MapOK(after) /\ after.thrown = map.thrown /\ a \in Range(after.keys)
        /\ Range(map.keys) \subseteq Range(after.keys) \union after.lost
        /\ map.lost \subseteq after.lost
    BY <1>1, <1>2, <1>4, <2>1, PutFacts
  <2>3. \A i \in 1 .. n + 1 :
          NoDecimals(missing[c][i]) \/ missing[c][i] \in Range(after.keys) \union after.lost
    BY <1>1, <1>4, <1>8, <2>2 DEF a
  <2>4. Range(keys) \subseteq Range(after.keys) \union after.lost
    BY <1>4, <2>2
  <2>5. QED
    BY <2>2, <2>3, <2>4 DEF AfterTurns, after, a
<1>9. QED
  BY <1>6, <1>7, <1>8

\* What the whole loop does to the Map.
LEMMA LoopFacts ==
  ASSUME CacheTypes, OwnDecimals, NEW c \in Callers, ReadOwn(c)
  PROVE  AfterTurns(c, Len(missing[c]), ReadInto(c))
<1> DEFINE L == Len(missing[c])
           start == [keys |-> keys, token |-> token, thrown |-> FALSE, lost |-> {}]
           map[n \in 0 .. L] == IF n = 0 THEN start ELSE Turn(c, n, map[n - 1])
<1>1. L \in Nat
  BY DEF CacheTypes
<1>2. ReadInto(c) = map[L]
  BY DEF ReadInto
<1>3. map = CHOOSE f : f = [n \in 0 .. L |-> IF n = 0 THEN start ELSE Turn(c, n, f[n - 1])]
  BY Zenon
<1>4. start \in Maps /\ start.keys = keys /\ start.token = token /\ start.thrown = FALSE
  BY DEF CacheTypes, Maps
<1> HIDE DEF map, start
<1>5. \A n \in 1 .. L, m \in Maps : Turn(c, n, m) \in Maps
  BY TurnType
<1> HIDE DEF L
<1>6. PICK step : step = [p \in (1 .. L) \X Maps |-> Turn(c, p[1], p[2])]
  OBVIOUS
<1>a. PICK x : x = start
  OBVIOUS
<1>7. PICK f : IsLoop(f, Maps, x, L, step)
  <2>1. step \in [(1 .. L) \X Maps -> Maps]
    <3>1. \A p \in (1 .. L) \X Maps : p[1] \in 1 .. L /\ p[2] \in Maps
      OBVIOUS
    <3>2. \A p \in (1 .. L) \X Maps : Turn(c, p[1], p[2]) \in Maps
      BY ONLY <1>5, <3>1
    <3>3. QED
      BY ONLY <1>6, <3>2
  <2>2. x \in Maps
    BY <1>4, <1>a
  <2>3. QED
    BY ONLY <1>1, <2>1, <2>2, LoopExists, Zenon
<1> USE DEF IsLoop
<1>8. f = [n \in 0 .. L |-> IF n = 0 THEN start ELSE Turn(c, n, f[n - 1])]
  <2>1. \A n \in 1 .. L : f[n] = Turn(c, n, f[n - 1])
    <3>1. TAKE n \in 1 .. L
    <3>2. n - 1 \in 0 .. L
      BY <1>1
    <3>3. QED
      BY <1>6, <1>7, <3>2
  <2>2. \A n \in 0 .. L : f[n] = IF n = 0 THEN start ELSE Turn(c, n, f[n - 1])
    BY <1>1, <1>7, <1>a, <2>1
  <2>3. QED
    BY <1>7, <2>2
<1>9. map = [n \in 0 .. L |-> IF n = 0 THEN start ELSE Turn(c, n, map[n - 1])]
  BY <1>3, <1>8, Zenon
<1>10. map[0] = start /\ \A n \in 0 .. L - 1 : map[n + 1] = Turn(c, n + 1, map[n])
  <2>1. \A n \in 0 .. L : map[n] = IF n = 0 THEN start ELSE Turn(c, n, map[n - 1])
    BY <1>9
  <2>2. \A n \in 0 .. L - 1 : n + 1 \in 0 .. L /\ n + 1 # 0 /\ n + 1 - 1 = n
    BY <1>1
  <2>3. QED
    BY <1>1, <2>1, <2>2
<1>11. AfterTurns(c, 0, start)
  <2>1. MapOK(start)
    BY <1>4 DEF MapOK, CacheTypes, OwnDecimals
  <2>2. \A i \in 1 .. 0 : FALSE
    OBVIOUS
  <2>3. QED
    BY <1>4, <2>1, <2>2 DEF AfterTurns
<1> DEFINE K == {n \in 0 .. L : AfterTurns(c, n, map[n])}
<1>12. 0 \in K
  BY <1>1, <1>10, <1>11
<1>13. ASSUME NEW n \in 0 .. L - 1, n \in K PROVE n + 1 \in K
  <2>1. AfterTurns(c, n, map[n]) /\ n + 1 \in 0 .. L
    BY <1>1, <1>13
  <2>2. AfterTurns(c, n + 1, Turn(c, n + 1, map[n]))
    BY <2>1, TurnKeeps DEF L
  <2>3. QED
    BY <1>10, <2>1, <2>2
<1>14. L \in K
  <2> HIDE DEF K
  <2>1. \A n \in 0 .. L - 1 : n \in K => n + 1 \in K
    BY ONLY <1>13
  <2>2. \A n \in 0 .. L : n \in K
    BY ONLY <1>1, <1>12, <2>1, UpToLast
  <2>3. QED
    BY ONLY <1>1, <2>2
<1>15. QED
  BY <1>2, <1>14 DEF L

-----------------------------------------------------------------------------
(* The inductive invariant of the token provider *)

\* A lookup that waits has asked for the decimals of what was missing, and whatever it wants is in
\* the Map, was missing, or has been forgotten since.
WaitsForMissing ==
  \A c \in Callers : stage[c] = "reading" =>
    /\ asked[c] = CallsFor(missing[c])
    /\ missing[c] # <<>> /\ Len(missing[c]) <= Len(Wanted[c])
    /\ Range(missing[c]) \subseteq Range(Wanted[c])
    /\ Range(Wanted[c]) \subseteq Range(keys) \union Range(missing[c]) \union forgotten[c]

CacheInv == CacheTypes /\ OwnDecimals /\ MissingExplained /\ WaitsForMissing

\* The inductive invariant.
IInv == MulticallInv /\ CacheInv

\* Two calls are made for each address, the one for its decimals first.
LEMMA CallsForFacts ==
  ASSUME NEW addresses \in Seq(Addresses)
  PROVE  /\ CallsFor(addresses) \in Seq(Calls)
         /\ Len(CallsFor(addresses)) = 2 * Len(addresses)
         /\ \A i \in 1 .. Len(addresses) : CallsFor(addresses)[2 * i - 1] = <<addresses[i], "decimals">>
<1> DEFINE n == Len(addresses)
<1>1. n \in Nat /\ 2 * n \in Nat /\ \A i \in 1 .. n : addresses[i] \in Addresses
  OBVIOUS
<1>2. CallsFor(addresses) =
        [i \in 1 .. 2 * n |-> <<addresses[(i + 1) \div 2], IF i % 2 = 1 THEN "decimals" ELSE "symbol">>]
  BY DEF CallsFor
<1> HIDE DEF n
<1>3. \A i \in 1 .. 2 * n : (i + 1) \div 2 \in 1 .. n
  BY <1>1
<1>4. ASSUME NEW i \in 1 .. 2 * n
      PROVE  <<addresses[(i + 1) \div 2], IF i % 2 = 1 THEN "decimals" ELSE "symbol">> \in Calls
  <2>1. addresses[(i + 1) \div 2] \in Addresses
    BY <1>1, <1>3
  <2>2. QED
    BY <2>1
<1>5. CallsFor(addresses) \in [1 .. 2 * n -> Calls]
  BY <1>2, <1>4
<1>6. CallsFor(addresses) \in Seq(Calls) /\ Len(CallsFor(addresses)) = 2 * n
  <2>1. PICK m \in Nat : m = 2 * n
    BY <1>1
  <2>2. PICK f \in [1 .. m -> Calls] : f = CallsFor(addresses)
    BY <1>5, <2>1
  <2>3. f \in Seq(Calls) /\ Len(f) = m
    BY ONLY <2>1, <2>2
  <2>4. QED
    BY <2>1, <2>2, <2>3
<1>7. ASSUME NEW i \in 1 .. n PROVE CallsFor(addresses)[2 * i - 1] = <<addresses[i], "decimals">>
  <2>1. 2 * i - 1 \in 1 .. 2 * n /\ (2 * i - 1) % 2 = 1 /\ (2 * i - 1 + 1) \div 2 = i
    BY <1>1
  <2>2. QED
    BY <1>2, <2>1
<1>8. QED
  BY <1>6, <1>7 DEF n

\* When the multicall is done, each address has the answer for its own decimals.
LEMMA DoneReadsOwn ==
  ASSUME IInv, NEW c \in Callers, stage[c] = "reading", outcome[c] = "done"
  PROVE  ReadOwn(c)
<1>1. missing[c] \in Seq(Addresses) /\ asked[c] = CallsFor(missing[c])
  BY DEF IInv, CacheInv, CacheTypes, WaitsForMissing
<1>2. SUFFICES ASSUME NEW i \in 1 .. Len(missing[c])
               PROVE  DecimalsResult(c, i) = Alone(<<missing[c][i], "decimals">>)
  BY DEF ReadOwn
<1>3. /\ Len(asked[c]) = 2 * Len(missing[c]) /\ Len(missing[c]) \in Nat
      /\ asked[c][2 * i - 1] = <<missing[c][i], "decimals">>
  <2>1. /\ Len(CallsFor(missing[c])) = 2 * Len(missing[c])
        /\ CallsFor(missing[c])[2 * i - 1] = <<missing[c][i], "decimals">>
    BY <1>1, CallsForFacts
  <2>2. QED
    BY <1>1, <2>1
<1>4. 2 * i - 1 \in 1 .. Len(asked[c])
  BY <1>3
<1>5. results[c][2 * i - 1] = Alone(asked[c][2 * i - 1])
  BY <1>4 DEF IInv, MulticallInv, CallerInv, AnsweredAlone, DoneIsComplete
<1>6. QED
  BY <1>3, <1>5 DEF DecimalsResult

\* What the Map holds of what is wanted are tokens with the decimals the Map has for them.
LEMMA ResolvedFacts ==
  ASSUME NEW c \in Callers, NEW map \in Seq(Addresses), NEW entry,
         \A a \in Range(map) : entry[a] = Decimals[a]
  PROVE  /\ Resolved(c, map, entry) \subseteq Addresses \X Range(Decimals)
         /\ \A found \in Resolved(c, map, entry) : found[2] = Decimals[found[1]]
         /\ \A a \in Range(Wanted[c]) \intersect Range(map) :
              \E found \in Resolved(c, map, entry) : found[1] = a
<1>1. \A a \in Range(Wanted[c]) \intersect Range(map) : a \in Addresses /\ entry[a] = Decimals[a]
  BY DEF Range
<1>2. \A a \in Addresses : Decimals[a] \in Range(Decimals)
  BY DEF Range
<1> DEFINE wanted == Range(Wanted[c]) \intersect Range(map)
<1>3. Resolved(c, map, entry) = {<<a, entry[a]>> : a \in wanted}
  BY DEF Resolved
<1> HIDE DEF wanted
<1>4. \A a \in wanted : a \in Addresses /\ entry[a] = Decimals[a] /\ entry[a] \in Range(Decimals)
  BY <1>1, <1>2 DEF wanted
<1>5. \A found \in Resolved(c, map, entry) :
        \E a \in wanted : found = <<a, entry[a]>>
  BY <1>3
<1>6. \A a \in wanted : <<a, entry[a]>> \in Resolved(c, map, entry) /\ <<a, entry[a]>>[1] = a
  BY <1>3
<1>7. Resolved(c, map, entry) \subseteq Addresses \X Range(Decimals)
  BY <1>4, <1>5
<1>8. \A found \in Resolved(c, map, entry) : found[2] = Decimals[found[1]]
  BY <1>4, <1>5
<1>9. \A a \in wanted : \E found \in Resolved(c, map, entry) : found[1] = a
  BY <1>6
<1>10. QED
  BY <1>7, <1>8, <1>9 DEF wanted

\* At first the Map has the canonical tokens.
LEMMA CacheStarts == Init => IInv
<1> SUFFICES ASSUME Init PROVE IInv
  OBVIOUS
<1>1. MulticallInv
  BY MulticallStarts DEF Init
<1>2. CacheTypes
  <2>1. ASSUME NEW a \in Addresses PROVE Decimals[a] \in Entries
    <3>1. <<a, "decimals">> \in Calls /\ Reply[<<a, "decimals">>] = Decimals[a]
      OBVIOUS
    <3>2. QED
      BY <3>1 DEF Entries, Range
  <2>2. NoToken \in Entries
    BY DEF Entries
  <2>3. token \in [Addresses -> Entries]
    BY <2>1, <2>2 DEF Init
  <2>4. QED
    BY <2>3 DEF Init, CacheTypes
<1>3. OwnDecimals
  <2>1. Range(Canonical) \subseteq Addresses
    BY DEF Range
  <2>2. QED
    BY <2>1 DEF Init, OwnDecimals
<1>4. MissingExplained /\ WaitsForMissing
  BY DEF Init, MissingExplained, WaitsForMissing
<1>5. QED
  BY <1>1, <1>2, <1>3, <1>4 DEF IInv, CacheInv

\* A lookup finds everything in the Map, or asks for what is not there.
LEMMA GetTokensKeeps ==
  ASSUME IInv, NEW c \in Callers, GetTokens(c)
  PROVE  IInv'
<1> USE DEF IInv, CacheInv
<1>1. /\ Missing(c) \in Seq(Addresses) /\ Len(Missing(c)) <= Len(Wanted[c])
      /\ Range(Missing(c)) \subseteq Range(Wanted[c])
      /\ Range(Wanted[c]) \subseteq Range(keys) \union Range(Missing(c))
  BY MissingFacts
<1>2. /\ stage[c] = "new" /\ missing' = [missing EXCEPT ![c] = Missing(c)]
      /\ keys' = keys /\ token' = token /\ forgotten' = forgotten
  BY DEF GetTokens, cacheVars
<1>3. CASE Missing(c) = <<>>
  <2>1. /\ stage' = [stage EXCEPT ![c] = "done"]
        /\ answer' = [answer EXCEPT ![c] = Resolved(c, keys, token)]
        /\ UNCHANGED multicallVars
    BY <1>3 DEF GetTokens
  <2>2. /\ Resolved(c, keys, token) \subseteq Addresses \X Range(Decimals)
        /\ \A found \in Resolved(c, keys, token) : found[2] = Decimals[found[1]]
        /\ \A a \in Range(Wanted[c]) \intersect Range(keys) :
             \E found \in Resolved(c, keys, token) : found[1] = a
    <3>1. keys \in Seq(Addresses) /\ \A a \in Range(keys) : token[a] = Decimals[a]
      BY DEF CacheTypes, OwnDecimals
    <3>2. QED
      BY ONLY <3>1, ResolvedFacts
  <2>3. CacheTypes'
    BY <1>1, <1>2, <2>1, <2>2 DEF CacheTypes
  <2>4. OwnDecimals'
    BY <1>2, <2>1, <2>2 DEF OwnDecimals, CacheTypes
  <2>5. MissingExplained'
    <3>1. Range(<<>>) = {}
      BY DEF Range
    <3>2. ASSUME NEW a \in Range(Wanted[c]) PROVE \E found \in answer'[c] : found[1] = a
      BY <1>1, <1>3, <2>1, <2>2, <3>1, <3>2 DEF CacheTypes
    <3>3. \A q \in Callers : q # c => stage'[q] = stage[q] /\ answer'[q] = answer[q]
      BY <2>1 DEF CacheTypes
    <3>4. QED
      BY <1>2, <3>2, <3>3 DEF MissingExplained
  <2>6. WaitsForMissing'
    BY <1>2, <2>1 DEF WaitsForMissing, CacheTypes, multicallVars, CallsFor
  <2>7. MulticallInv'
    <3>1. /\ asked' = asked /\ next' = next /\ flying' = flying /\ results' = results
          /\ dead' = dead /\ outcome' = outcome /\ broken' = broken
      BY <2>1 DEF multicallVars
    <3>2. MulticallTypes' /\ \A q \in Callers : CallerInv(q)'
      BY <3>1, OthersKeep DEF MulticallInv, MulticallTypes
    <3>3. QED
      BY <3>2 DEF MulticallInv
  <2>8. QED
    BY <2>3, <2>4, <2>5, <2>6, <2>7
<1>4. CASE Missing(c) # <<>>
  <2>1. /\ stage' = [stage EXCEPT ![c] = "reading"] /\ Call(c, CallsFor(Missing(c)))
        /\ answer' = answer
    BY <1>4 DEF GetTokens
  <2>2. CallsFor(Missing(c)) \in Seq(Calls)
    BY <1>1, CallsForFacts
  <2>3. MulticallInv'
    BY <2>1, <2>2, CallKeeps
  <2>4. asked' = [asked EXCEPT ![c] = CallsFor(Missing(c))] /\ DOMAIN asked = Callers
    BY <2>1 DEF Call, MulticallInv, MulticallTypes
  <2>5. CacheTypes' /\ OwnDecimals' /\ MissingExplained'
    BY <1>1, <1>2, <2>1 DEF CacheTypes, OwnDecimals, MissingExplained
  <2>6. WaitsForMissing'
    <3>1. SUFFICES ASSUME NEW q \in Callers, stage'[q] = "reading"
                   PROVE  /\ asked'[q] = CallsFor(missing'[q])
                          /\ missing'[q] # <<>> /\ Len(missing'[q]) <= Len(Wanted[q])
                          /\ Range(missing'[q]) \subseteq Range(Wanted[q])
                          /\ Range(Wanted[q]) \subseteq Range(keys) \union Range(missing'[q]) \union forgotten[q]
      BY <1>2 DEF WaitsForMissing, CallsFor
    <3>2. CASE q = c
      <4>1. missing'[q] = Missing(c) /\ asked'[q] = CallsFor(Missing(c))
        BY <1>2, <2>4, <3>2 DEF CacheTypes
      <4>2. QED
        BY <1>1, <1>4, <3>2, <4>1
    <3>3. CASE q # c
      <4>1. missing'[q] = missing[q] /\ asked'[q] = asked[q] /\ stage[q] = "reading"
        BY <1>2, <2>1, <2>4, <3>1, <3>3 DEF CacheTypes
      <4>2. QED
        BY <4>1 DEF WaitsForMissing
    <3>4. QED
      BY <3>2, <3>3
  <2>7. QED
    BY <2>3, <2>5, <2>6
<1>5. QED
  BY <1>3, <1>4
\* The multicall is as it was, and so is what holds of it.
LEMMA MulticallRests ==
  ASSUME MulticallInv, UNCHANGED multicallVars
  PROVE  MulticallInv'
<1>1. /\ asked' = asked /\ next' = next /\ flying' = flying /\ results' = results
      /\ dead' = dead /\ outcome' = outcome /\ broken' = broken
  BY DEF multicallVars
<1>2. MulticallTypes' /\ \A q \in Callers : CallerInv(q)'
  BY <1>1, OthersKeep DEF MulticallInv, MulticallTypes
<1>3. QED
  BY <1>2 DEF MulticallInv

\* Whatever a lookup wants and does not get was read in vain, or has been lost from the Map; a
\* single address that was read is not lost, for it was put last.
LEMMA NotFound ==
  ASSUME IInv, NEW c \in Callers, stage[c] = "reading", outcome[c] = "done",
         ~ReadInto(c).thrown, NEW a \in Range(Wanted[c]), a \notin Range(ReadInto(c).keys)
  PROVE  \/ NoDecimals(a)
         \/ a \in forgotten[c] \union ReadInto(c).lost /\ Len(Wanted[c]) > 1
<1> DEFINE L == Len(missing[c])
           map == ReadInto(c)
<1>1. /\ missing[c] \in Seq(Addresses) /\ L \in Nat /\ Wanted[c] \in Seq(Addresses)
      /\ Len(Wanted[c]) \in Nat /\ DOMAIN Wanted[c] = 1 .. Len(Wanted[c])
      /\ DOMAIN missing[c] = 1 .. L
  BY DEF IInv, CacheInv, CacheTypes
<1>2. /\ missing[c] # <<>> /\ L <= Len(Wanted[c]) /\ Range(missing[c]) \subseteq Range(Wanted[c])
      /\ Range(Wanted[c]) \subseteq Range(keys) \union Range(missing[c]) \union forgotten[c]
  BY DEF IInv, CacheInv, WaitsForMissing
<1>3. /\ Range(keys) \subseteq Range(map.keys) \union map.lost
      /\ \A i \in 1 .. L : NoDecimals(missing[c][i]) \/ missing[c][i] \in Range(map.keys) \union map.lost
      /\ L > 0 => NoDecimals(missing[c][L]) \/ missing[c][L] \in Range(map.keys)
  <2>1. AfterTurns(c, L, map)
    BY DoneReadsOwn, LoopFacts DEF IInv, CacheInv
  <2>2. QED
    BY <2>1 DEF AfterTurns
<1>4. L > 0
  BY <1>1, <1>2
<1> HIDE DEF L, map
<1>5. a \notin Range(map.keys)
  BY DEF map
<1>6. CASE Len(Wanted[c]) > 1
  <2>1. Range(missing[c]) = {missing[c][i] : i \in 1 .. L}
    BY <1>1 DEF Range
  <2>2. NoDecimals(a) \/ a \in forgotten[c] \union map.lost
    BY <1>2, <1>3, <1>5, <2>1
  <2>3. QED
    BY <1>6, <2>2 DEF map
<1>7. CASE ~(Len(Wanted[c]) > 1)
  <2>1. L = 1 /\ Len(Wanted[c]) = 1
    BY <1>1, <1>2, <1>4, <1>7
  <2>2. a = Wanted[c][1] /\ missing[c][1] \in Range(Wanted[c])
    BY <1>1, <1>2, <2>1 DEF Range
  <2>3. missing[c][1] = a
    BY <1>1, <2>1, <2>2 DEF Range
  <2>4. QED
    BY <1>3, <1>5, <2>1, <2>3
<1>8. QED
  BY <1>6, <1>7

\* The answers of the multicall are put into the Map, and the lookup reads it again.
LEMMA StoreKeeps ==
  ASSUME IInv, NEW c \in Callers, Store(c)
  PROVE  IInv'
<1> DEFINE map == ReadInto(c)
<1>1. /\ stage[c] = "reading" /\ outcome[c] = "done"
      /\ keys' = map.keys /\ token' = map.token
      /\ stage' = [stage EXCEPT ![c] = IF map.thrown THEN "rejected" ELSE "done"]
      /\ answer' = [answer EXCEPT ![c] =
           IF map.thrown THEN {} ELSE Resolved(c, map.keys, map.token)]
      /\ forgotten' = [q \in Callers |->
           IF stage[q] = "reading" THEN forgotten[q] \union map.lost ELSE forgotten[q]]
      /\ UNCHANGED multicallVars /\ asked' = asked /\ missing' = missing
  BY DEF Store, multicallVars
<1>2. /\ map \in Maps /\ IsInjective(map.keys) /\ Len(map.keys) <= MaxTokens
      /\ \A a \in Range(map.keys) : map.token[a] = Decimals[a]
      /\ Range(keys) \subseteq Range(map.keys) \union map.lost
  <2>1. AfterTurns(c, Len(missing[c]), map)
    BY <1>1, DoneReadsOwn, LoopFacts DEF IInv, CacheInv
  <2>2. QED
    BY <2>1 DEF AfterTurns, MapOK
<1>3. /\ map.keys \in Seq(Addresses) /\ map.token \in [Addresses -> Entries]
      /\ map.lost \subseteq Addresses /\ map.thrown \in BOOLEAN
  BY <1>2 DEF Maps
<1>4. ASSUME ~map.thrown, NEW a \in Range(Wanted[c]), a \notin Range(map.keys)
      PROVE  NoDecimals(a) \/ (a \in forgotten[c] \union map.lost /\ Len(Wanted[c]) > 1)
  BY <1>1, <1>4, NotFound
<1> HIDE DEF map
<1> DEFINE found == Resolved(c, map.keys, map.token)
<1>5. /\ found \subseteq Addresses \X Range(Decimals)
      /\ \A t \in found : t[2] = Decimals[t[1]]
      /\ \A a \in Range(Wanted[c]) \intersect Range(map.keys) : \E t \in found : t[1] = a
  <2>1. PICK ks \in Seq(Addresses) : ks = map.keys
    BY <1>3
  <2>2. PICK entry : entry = map.token
    OBVIOUS
  <2>3. \A a \in Range(ks) : entry[a] = Decimals[a]
    BY <1>2, <2>1, <2>2
  <2>4. /\ Resolved(c, ks, entry) \subseteq Addresses \X Range(Decimals)
        /\ \A t \in Resolved(c, ks, entry) : t[2] = Decimals[t[1]]
        /\ \A a \in Range(Wanted[c]) \intersect Range(ks) : \E t \in Resolved(c, ks, entry) : t[1] = a
    BY ONLY <2>3, ResolvedFacts
  <2>5. QED
    BY <2>1, <2>2, <2>4
<1> HIDE DEF found
<1>6. /\ answer'[c] = IF map.thrown THEN {} ELSE found
      /\ stage'[c] = IF map.thrown THEN "rejected" ELSE "done"
      /\ forgotten'[c] = forgotten[c] \union map.lost
      /\ \A q \in Callers : q # c => stage'[q] = stage[q] /\ answer'[q] = answer[q]
      /\ \A q \in Callers : forgotten'[q] =
           IF stage[q] = "reading" THEN forgotten[q] \union map.lost ELSE forgotten[q]
  BY <1>1 DEF IInv, CacheInv, CacheTypes, found
<1>7. MulticallInv'
  BY <1>1, MulticallRests DEF IInv
<1>8. CacheTypes'
  <2>1. answer' \in [Callers -> SUBSET (Addresses \X Range(Decimals))]
    BY <1>1, <1>5 DEF IInv, CacheInv, CacheTypes, found
  <2>2. forgotten' \in [Callers -> SUBSET Addresses]
    BY <1>1, <1>3 DEF IInv, CacheInv, CacheTypes
  <2>3. stage' \in [Callers -> {"new", "reading", "done", "rejected"}]
    BY <1>1 DEF IInv, CacheInv, CacheTypes
  <2>4. QED
    BY <1>1, <1>2, <1>3, <2>1, <2>2, <2>3 DEF IInv, CacheInv, CacheTypes
<1>9. OwnDecimals'
  <2>1. \A a \in Range(keys') : token'[a] = Decimals[a]
    BY <1>1, <1>2
  <2>2. \A q \in Callers : \A t \in answer'[q] : t[2] = Decimals[t[1]]
    BY <1>5, <1>6 DEF IInv, CacheInv, OwnDecimals
  <2>3. QED
    BY <2>1, <2>2 DEF OwnDecimals
<1>10. MissingExplained'
  <2>1. SUFFICES ASSUME NEW q \in Callers, NEW a \in Addresses, stage'[q] = "done",
                        a \in Range(Wanted[q]), \A t \in answer'[q] : t[1] # a
                 PROVE  \/ Decimals[a] \in NotTokens
                        \/ <<a, "decimals">> \in Costly
                        \/ a \in forgotten'[q] /\ Len(Wanted[q]) > 1
    BY DEF MissingExplained
  <2>2. CASE q = c
    <3>1. ~map.thrown /\ a \notin Range(map.keys)
      BY <1>5, <1>6, <2>1, <2>2
    <3>2. NoDecimals(a) \/ (a \in forgotten[c] \union map.lost /\ Len(Wanted[c]) > 1)
      BY <1>4, <2>1, <2>2, <3>1
    <3>3. QED
      BY <1>6, <2>2, <3>2 DEF NoDecimals
  <2>3. CASE q # c
    <3>1. stage[q] = "done" /\ answer'[q] = answer[q] /\ forgotten'[q] = forgotten[q]
      BY <1>6, <2>1, <2>3
    <3>2. QED
      BY <2>1, <3>1 DEF IInv, CacheInv, MissingExplained
  <2>4. QED
    BY <2>2, <2>3
<1>11. WaitsForMissing'
  <2>1. SUFFICES ASSUME NEW q \in Callers, stage'[q] = "reading"
                 PROVE  /\ asked[q] = CallsFor(missing[q])
                        /\ missing[q] # <<>> /\ Len(missing[q]) <= Len(Wanted[q])
                        /\ Range(missing[q]) \subseteq Range(Wanted[q])
                        /\ Range(Wanted[q]) \subseteq Range(keys') \union Range(missing[q]) \union forgotten'[q]
    BY <1>1 DEF WaitsForMissing, CallsFor
  <2>2. q # c /\ stage[q] = "reading" /\ forgotten'[q] = forgotten[q] \union map.lost
    BY <1>6, <2>1
  <2>3. QED
    BY <1>1, <1>2, <2>2 DEF IInv, CacheInv, WaitsForMissing
<1>12. QED
  BY <1>7, <1>8, <1>9, <1>10, <1>11 DEF IInv, CacheInv

\* A lookup whose multicall has failed is rejected.
LEMMA RejectKeeps ==
  ASSUME IInv, NEW c \in Callers, Reject(c)
  PROVE  IInv'
<1>1. /\ stage[c] = "reading" /\ stage' = [stage EXCEPT ![c] = "rejected"]
      /\ UNCHANGED multicallVars /\ asked' = asked /\ keys' = keys /\ token' = token
      /\ missing' = missing /\ answer' = answer /\ forgotten' = forgotten
  BY DEF Reject, cacheVars, multicallVars
<1>2. stage'[c] = "rejected" /\ \A q \in Callers : q # c => stage'[q] = stage[q]
  BY <1>1 DEF IInv, CacheInv, CacheTypes
<1>3. MulticallInv'
  BY <1>1, MulticallRests DEF IInv
<1>4. CacheTypes' /\ OwnDecimals'
  BY <1>1 DEF IInv, CacheInv, CacheTypes, OwnDecimals
<1>5. MissingExplained'
  BY <1>1, <1>2 DEF IInv, CacheInv, MissingExplained
<1>6. WaitsForMissing'
  <2>1. SUFFICES ASSUME NEW q \in Callers, stage'[q] = "reading"
                 PROVE  /\ asked[q] = CallsFor(missing[q])
                        /\ missing[q] # <<>> /\ Len(missing[q]) <= Len(Wanted[q])
                        /\ Range(missing[q]) \subseteq Range(Wanted[q])
                        /\ Range(Wanted[q]) \subseteq Range(keys) \union Range(missing[q]) \union forgotten[q]
    BY <1>1 DEF WaitsForMissing, CallsFor
  <2>2. stage[q] = "reading"
    BY <1>2, <2>1
  <2>3. QED
    BY <2>2 DEF IInv, CacheInv, WaitsForMissing
<1>7. QED
  BY <1>3, <1>4, <1>5, <1>6 DEF IInv, CacheInv

\* A request that ends does not touch the Map or the lookups.
LEMMA MulticallStepKeeps ==
  ASSUME IInv, NEW c \in Callers, MulticallStep(c)
  PROVE  IInv'
<1>1. /\ Request(c) /\ keys' = keys /\ token' = token /\ missing' = missing /\ stage' = stage
      /\ answer' = answer /\ forgotten' = forgotten
  BY DEF MulticallStep, cacheVars, lookupVars
<1>2. asked' = asked
  BY <1>1 DEF Request, Executed, Isolated, Settle, Halved, Broken
<1>3. MulticallInv'
  BY <1>1, RequestKeeps DEF IInv
<1>4. CacheTypes' /\ OwnDecimals' /\ MissingExplained'
  BY <1>1 DEF IInv, CacheInv, CacheTypes, OwnDecimals, MissingExplained
<1>5. WaitsForMissing'
  BY <1>1, <1>2 DEF IInv, CacheInv, WaitsForMissing, CallsFor
<1>6. QED
  BY <1>3, <1>4, <1>5 DEF IInv, CacheInv

\* A step that changes nothing keeps the invariant.
LEMMA RestKeeps ==
  ASSUME IInv, UNCHANGED vars
  PROVE  IInv'
<1>1. /\ UNCHANGED multicallVars /\ asked' = asked /\ keys' = keys /\ token' = token
      /\ missing' = missing /\ stage' = stage /\ answer' = answer /\ forgotten' = forgotten
  BY DEF vars, multicallVars, cacheVars, lookupVars
<1>2. MulticallInv'
  BY <1>1, MulticallRests DEF IInv
<1>3. CacheTypes' /\ OwnDecimals' /\ MissingExplained' /\ WaitsForMissing'
  BY <1>1 DEF IInv, CacheInv, CacheTypes, OwnDecimals, MissingExplained, WaitsForMissing, CallsFor
<1>4. QED
  BY <1>2, <1>3 DEF IInv, CacheInv

\* Every step keeps the invariant.
LEMMA Invariance == Spec => []IInv
<1>1. Init => IInv
  BY CacheStarts
<1>2. IInv /\ [Next]_vars => IInv'
  <2>1. SUFFICES ASSUME IInv, [Next]_vars PROVE IInv'
    OBVIOUS
  <2>2. CASE \E c \in Callers : GetTokens(c) \/ MulticallStep(c) \/ Store(c) \/ Reject(c)
    BY <2>1, <2>2, GetTokensKeeps, MulticallStepKeeps, StoreKeeps, RejectKeeps
  <2>3. CASE Finished \/ UNCHANGED vars
    BY <2>1, <2>3, RestKeeps DEF Finished
  <2>4. QED
    BY <2>1, <2>2, <2>3 DEF Next
<1>3. QED
  BY <1>1, <1>2, PTL DEF Spec
-----------------------------------------------------------------------------
(* What it gives *)

\* Calls, segments, results and the Map have their types in every state.
THEOREM TokenCacheTypeCorrect == Spec => []TypeOK
<1>1. IInv => TypeOK
  <2>1. SUFFICES ASSUME IInv PROVE TypeOK
    OBVIOUS
  <2>2. MulticallTypeOK
    <3>1. ASSUME NEW c \in Callers
          PROVE  /\ next[c] \in 0 .. Batches(Len(asked[c]))
                 /\ \A s \in flying[c] : s.first \in 1 .. s.last /\ s.last \in DOMAIN asked[c]
                 /\ results[c] \in [DOMAIN asked[c] -> Range(Reply) \union {Pending, TooMuchGas}]
                 /\ dead[c] \subseteq 0 .. next[c] - 1
      <4>1. asked[c] \in Seq(Calls) /\ DOMAIN asked[c] = 1 .. Len(asked[c]) /\ next[c] \in Nat
        BY <2>1 DEF IInv, MulticallInv, MulticallTypes
      <4>2. Batches(Len(asked[c])) \in Nat
        BY <4>1, Len(asked[c]) \in Nat, BatchesCover
      <4>3. QED
        BY <2>1, <4>1, <4>2
           DEF IInv, MulticallInv, MulticallTypes, CallerInv, SegmentsInBatches, Untaken
    <3>2. QED
      BY <2>1, <3>1 DEF IInv, MulticallInv, MulticallTypes, MulticallTypeOK
  <2>3. QED
    BY <2>1, <2>2 DEF IInv, CacheInv, CacheTypes, TypeOK
<1>2. QED
  BY <1>1, Invariance, PTL

\* A token has its own decimals, in the Map and in every answer: the results of the batches are put
\* together in the order of the calls, and each is read at the place of its own call, for every
\* list of addresses and every length of the Map.
THEOREM TokensHaveTheirDecimals == Spec => []OwnDecimals
<1>1. IInv => OwnDecimals
  BY DEF IInv, CacheInv
<1>2. QED
  BY <1>1, Invariance, PTL

\* Whatever is reported as no token is none, costs too much gas, or has been forgotten by the Map
\* during the wait of a caller who wants several.
THEOREM MissingIsExplained == Spec => []MissingExplained
<1>1. IInv => MissingExplained
  BY DEF IInv, CacheInv
<1>2. QED
  BY <1>1, Invariance, PTL

\* A call that has not ended has a request under way: the worker whose batch is incomplete, or one
\* of the halves of that batch.
THEOREM NobodyIsStranded == Spec => []NoCallStranded
<1>1. IInv => NoCallStranded
  <2>1. SUFFICES ASSUME IInv, NEW c \in Callers, outcome[c] = "pending" PROVE flying[c] # {}
    BY DEF NoCallStranded
  <2>2. dead[c] = {} /\ next[c] \in Nat /\ asked[c] \in Seq(Calls)
    BY <2>1 DEF IInv, MulticallInv, MulticallTypes, CallerInv, Working
  <2>3. PICK i \in 1 .. Len(asked[c]) : results[c][i] = Pending /\ BatchNumber(i) < next[c]
    BY <2>1 DEF IInv, MulticallInv, CallerInv, Working
  <2>4. BatchNumber(i) \in Nat
    <3>1. Len(asked[c]) \in Nat
      BY <2>2
    <3>2. ASSUME NEW k \in Nat \ {0} PROVE BatchNumber(k) \in Nat
      <4>1. k - 1 \in Nat /\ 0 \in Nat /\ BatchSize \in Nat \ {0}
        OBVIOUS
      <4>2. QED
        BY <4>1, QuotientIs DEF BatchNumber
    <3>3. i \in Nat \ {0}
      BY <3>1
    <3>4. QED
      BY <3>2, <3>3, Zenon
  <2>5. \/ results[c][i] # Pending \/ BatchNumber(i) >= next[c] \/ BatchNumber(i) \in dead[c]
        \/ \E s \in flying[c] : i \in Within(s)
    BY <2>1 DEF IInv, MulticallInv, CallerInv, EachCallOwed
  <2>6. QED
    BY <2>2, <2>3, <2>4, <2>5
<1>2. QED
  BY <1>1, Invariance, PTL

\* No call travels in two requests at a time, and none is made again once it is answered, however
\* its batch is halved.
THEOREM CallsAreMadeOnce == Spec => []EachCallOnce
<1>1. IInv => EachCallOnce
  BY DEF IInv, MulticallInv, CallerInv, SegmentsApart, EachCallOnce
<1>2. QED
  BY <1>1, Invariance, PTL

\* The multicall answers every caller as if each call had been made by itself: it implements
\* CallEach, for every batch size, every number of workers and every order of the answers.
THEOREM MulticallImplementsCallEach == Spec => ImplementsCallEach
<1>1. Init => Each!Init
  BY DEF Init, MulticallInit, Each!Init
<1>2. IInv /\ [Next]_vars => [Each!Next]_Each!vars
  <2>1. SUFFICES ASSUME IInv, [Next]_vars PROVE [Each!Next]_Each!vars
    OBVIOUS
  <2>2. UNCHANGED multicallVars => UNCHANGED Each!vars
    BY DEF multicallVars, Each!vars
  <2>3. ASSUME NEW c \in Callers, GetTokens(c) PROVE [Each!Next]_Each!vars
    <3>1. Missing(c) \in Seq(Addresses)
      BY <2>1, MissingFacts DEF IInv, CacheInv
    <3>2. CallsFor(Missing(c)) \in Seq(Calls)
      BY <3>1, CallsForFacts
    <3>3. CASE Missing(c) = <<>>
      BY <2>2, <2>3, <3>3 DEF GetTokens
    <3>4. CASE Missing(c) # <<>>
      <4>1. Call(c, CallsFor(Missing(c)))
        BY <2>3, <3>4 DEF GetTokens
      <4>2. Each!Ask(c)
        BY <2>1, <3>2, <4>1, CallAsks DEF IInv
      <4>3. QED
        BY <4>2 DEF Each!Next
    <3>5. QED
      BY <3>3, <3>4
  <2>4. ASSUME NEW c \in Callers, MulticallStep(c) PROVE [Each!Next]_Each!vars
    BY <2>1, <2>4, RequestImplements DEF MulticallStep, IInv
  <2>5. ASSUME NEW c \in Callers, Store(c) \/ Reject(c) PROVE [Each!Next]_Each!vars
    BY <2>2, <2>5 DEF Store, Reject
  <2>6. CASE Finished \/ UNCHANGED vars
    BY <2>2, <2>6 DEF Finished, vars
  <2>7. QED
    BY <2>1, <2>3, <2>4, <2>5, <2>6 DEF Next
<1>3. QED
  BY <1>1, <1>2, Invariance, PTL DEF Spec, ImplementsCallEach, Each!Spec
=============================================================================
