----------------------------- MODULE DataLemmas -----------------------------
(***************************************************************************)
(* What the proofs need to know of data, for every length and every value: *)
(* induction on the turns of a loop and the existence of a function that   *)
(* is defined by recursion on them, both in the form of sets and functions *)
(* (no operator is a parameter); what push, shift and splice(i, 1) do to   *)
(* an array that holds no element twice; and what push, flatMap and        *)
(* reverse do to the elements of an array and to their order.              *)
(***************************************************************************)
EXTENDS Integers, SequencesExt, WellFoundedInduction, TLAPS

\* A set of natural numbers has a least element.
LEMMA LeastElement ==
  ASSUME NEW T, T \subseteq Nat, T # {}
  PROVE  \E m \in T : \A n \in T : m <= n
<1>1. PICK m \in T : \A n \in T : <<n, m>> \notin OpToRel(<, Nat)
  BY WFMin, NatLessThanWellFounded, Zenon
<1>2. \A n \in T : ~(n < m)
  BY <1>1, Zenon DEF OpToRel
<1>3. QED
  BY <1>2

\* Induction up to the last turn of a loop: K is the set of turns after which something holds.
LEMMA UpToLast ==
  ASSUME NEW L \in Nat, NEW K, 0 \in K, \A n \in 0 .. L - 1 : n \in K => n + 1 \in K
  PROVE  \A n \in 0 .. L : n \in K
<1> DEFINE T == {n \in 0 .. L : n \notin K}
<1>1. SUFFICES ASSUME T # {} PROVE FALSE
  OBVIOUS
<1>2. PICK m \in T : \A n \in T : m <= n
  <2>1. T \subseteq Nat
    OBVIOUS
  <2> HIDE DEF T
  <2>2. QED
    BY <1>1, <2>1, LeastElement
<1>3. m \in 1 .. L /\ m - 1 \in 0 .. L - 1 /\ m - 1 \notin T
  BY <1>2
<1>4. m - 1 \in K
  BY <1>3
<1>5. QED
  BY <1>2, <1>3, <1>4

\* f is what a loop of L turns computes: it starts at x and makes one step a turn.
IsLoop(f, S, x, L, step) ==
  f \in [0 .. L -> S] /\ f[0] = x /\ \A n \in 1 .. L : f[n] = step[<<n, f[n - 1]>>]

\* What a loop computes exists.
LEMMA LoopExists ==
  ASSUME NEW S, NEW x \in S, NEW L \in Nat, NEW step \in [(1 .. L) \X S -> S]
  PROVE  \E f : IsLoop(f, S, x, L, step)
<1> DEFINE Loop(f, k) ==
      f \in [0 .. k -> S] /\ f[0] = x /\ \A n \in 1 .. k : f[n] = step[<<n, f[n - 1]>>]
<1> DEFINE K == {k \in 0 .. L : \E f : Loop(f, k)}
<1>1. 0 \in K
  <2>1. Loop([n \in 0 .. 0 |-> x], 0)
    OBVIOUS
  <2> HIDE DEF Loop
  <2>2. QED
    BY <2>1
<1>2. ASSUME NEW k \in 0 .. L - 1, k \in K PROVE k + 1 \in K
  <2>1. PICK f : Loop(f, k)
    BY <1>2
  <2> DEFINE g == [n \in 0 .. k + 1 |-> IF n = k + 1 THEN step[<<k + 1, f[k]>>] ELSE f[n]]
  <2>2. f[k] \in S /\ step[<<k + 1, f[k]>>] \in S
    BY <2>1
  <2>3. g \in [0 .. k + 1 -> S] /\ g[0] = x
    BY <2>1, <2>2
  <2>4. \A n \in 1 .. k + 1 : g[n] = step[<<n, g[n - 1]>>]
    <3>1. TAKE n \in 1 .. k + 1
    <3>2. CASE n = k + 1
      <4>1. n - 1 = k /\ g[k] = f[k] /\ g[n] = step[<<n, f[k]>>]
        BY <3>2
      <4>2. QED
        BY <4>1
    <3>3. CASE n # k + 1
      BY <3>3, <2>1
    <3>4. QED
      BY <3>2, <3>3
  <2>5. Loop(g, k + 1)
    BY <2>3, <2>4
  <2>6. k + 1 \in 0 .. L
    OBVIOUS
  <2> HIDE DEF Loop
  <2>7. QED
    BY <2>5, <2>6
<1>3. L \in K
  <2> HIDE DEF K
  <2>1. QED
    BY <1>1, <1>2, UpToLast
<1>4. QED
  BY <1>3 DEF IsLoop

\* push: the newcomer is the only new element, and repeats nothing.
LEMMA AppendFacts ==
  ASSUME NEW S, NEW s \in Seq(S), NEW e \in S, e \notin Range(s), IsInjective(s)
  PROVE  /\ Append(s, e) \in Seq(S)
         /\ Len(Append(s, e)) = Len(s) + 1
         /\ Range(Append(s, e)) = Range(s) \union {e}
         /\ IsInjective(Append(s, e))
<1>1. /\ Append(s, e) \in Seq(S)
      /\ Len(Append(s, e)) = Len(s) + 1
      /\ DOMAIN s = 1 .. Len(s)
      /\ DOMAIN Append(s, e) = 1 .. Len(s) + 1
      /\ \A i \in 1 .. Len(s) : Append(s, e)[i] = s[i]
      /\ Append(s, e)[Len(s) + 1] = e
      /\ Len(s) \in Nat
  OBVIOUS
<1>2. Range(Append(s, e)) = Range(s) \union {e}
  BY <1>1 DEF Range
<1>3. IsInjective(Append(s, e))
  BY <1>1 DEF IsInjective, Range
<1>4. QED
  BY <1>1, <1>2, <1>3

\* shift: what is left is the queue without its head.
LEMMA TailFacts ==
  ASSUME NEW S, NEW s \in Seq(S), s # <<>>, IsInjective(s)
  PROVE  /\ Tail(s) \in Seq(S)
         /\ Len(Tail(s)) = Len(s) - 1
         /\ Head(s) \in Range(s)
         /\ Range(Tail(s)) = Range(s) \ {Head(s)}
         /\ IsInjective(Tail(s))
<1>1. /\ Tail(s) \in Seq(S)
      /\ Len(s) \in Nat \ {0}
      /\ Len(Tail(s)) = Len(s) - 1
      /\ Head(s) = s[1]
      /\ DOMAIN s = 1 .. Len(s)
      /\ DOMAIN Tail(s) = 1 .. Len(s) - 1
      /\ \A i \in 1 .. Len(s) - 1 : Tail(s)[i] = s[i + 1]
  OBVIOUS
<1>2. Head(s) \in Range(s)
  BY <1>1 DEF Range
<1>3. Range(Tail(s)) = Range(s) \ {Head(s)}
  <2>1. ASSUME NEW x \in Range(Tail(s)) PROVE x \in Range(s) \ {Head(s)}
    <3>1. PICK i \in 1 .. Len(s) - 1 : x = s[i + 1]
      BY <1>1 DEF Range
    <3>2. i + 1 \in DOMAIN s /\ i + 1 # 1 /\ 1 \in DOMAIN s
      BY <1>1
    <3>3. QED
      BY <3>1, <3>2, <1>1 DEF Range, IsInjective
  <2>2. ASSUME NEW x \in Range(s) \ {Head(s)} PROVE x \in Range(Tail(s))
    <3>1. PICK i \in 1 .. Len(s) : x = s[i] /\ i # 1
      BY <1>1 DEF Range
    <3>2. i - 1 \in 1 .. Len(s) - 1 /\ Tail(s)[i - 1] = x
      BY <3>1, <1>1
    <3>3. QED
      BY <3>2, <1>1 DEF Range
  <2>3. QED
    BY <2>1, <2>2
<1>4. IsInjective(Tail(s))
  BY <1>1 DEF IsInjective
<1>5. QED
  BY <1>1, <1>2, <1>3, <1>4

\* splice: what is left is the queue without the element at that place, in the same order.
LEMMA RemoveAtFacts ==
  ASSUME NEW S, NEW s \in Seq(S), NEW k \in DOMAIN s, IsInjective(s)
  PROVE  /\ RemoveAt(s, k) \in Seq(S)
         /\ Len(RemoveAt(s, k)) = Len(s) - 1
         /\ Range(RemoveAt(s, k)) = Range(s) \ {s[k]}
         /\ IsInjective(RemoveAt(s, k))
<1> DEFINE r == RemoveAt(s, k)
<1>1. /\ Len(s) \in Nat
      /\ DOMAIN s = 1 .. Len(s)
      /\ k \in 1 .. Len(s)
  OBVIOUS
<1>2. /\ SubSeq(s, 1, k - 1) \in Seq(S)
      /\ Len(SubSeq(s, 1, k - 1)) = k - 1
      /\ \A i \in 1 .. k - 1 : SubSeq(s, 1, k - 1)[i] = s[i]
  BY <1>1
<1>3. /\ SubSeq(s, k + 1, Len(s)) \in Seq(S)
      /\ Len(SubSeq(s, k + 1, Len(s))) = Len(s) - k
      /\ \A i \in 1 .. Len(s) - k : SubSeq(s, k + 1, Len(s))[i] = s[k + i]
  BY <1>1
<1>4. /\ r \in Seq(S)
      /\ Len(r) = Len(s) - 1
      /\ \A i \in 1 .. k - 1 : r[i] = s[i]
      /\ \A i \in k .. Len(s) - 1 : r[i] = s[i + 1]
  <2> DEFINE a == SubSeq(s, 1, k - 1)
             b == SubSeq(s, k + 1, Len(s))
  <2>1. r = a \o b
    BY DEF RemoveAt
  <2>2. a \in Seq(S) /\ Len(a) = k - 1 /\ \A i \in 1 .. k - 1 : a[i] = s[i]
    BY <1>2
  <2>3. b \in Seq(S) /\ Len(b) = Len(s) - k /\ \A i \in 1 .. Len(s) - k : b[i] = s[k + i]
    BY <1>3
  <2> HIDE DEF a, b
  <2>4. r \in Seq(S) /\ Len(r) = Len(s) - 1
    <3>1. r \in Seq(S) /\ Len(r) = Len(a) + Len(b)
      BY <2>1, <2>2, <2>3
    <3>2. (k - 1) + (Len(s) - k) = Len(s) - 1
      BY <1>1
    <3>3. QED
      BY <3>1, <3>2, <2>2, <2>3
  <2>5. \A i \in 1 .. k - 1 : r[i] = s[i]
    BY <2>1, <2>2, <2>3, <1>1
  <2>6. ASSUME NEW i \in k .. Len(s) - 1 PROVE r[i] = s[i + 1]
    <3>1. i - (k - 1) \in 1 .. Len(s) - k /\ r[i] = b[i - (k - 1)]
      BY <2>1, <2>2, <2>3, <1>1
    <3>2. k + (i - (k - 1)) = i + 1
      BY <1>1
    <3>3. QED
      BY <3>1, <3>2, <2>3
  <2>7. QED
    BY <2>4, <2>5, <2>6
<1>5. DOMAIN r = 1 .. Len(s) - 1
  BY <1>4
<1> HIDE DEF r
<1>6. Range(r) = Range(s) \ {s[k]}
  <2>1. ASSUME NEW x \in Range(r) PROVE x \in Range(s) \ {s[k]}
    <3>1. PICK i \in 1 .. Len(s) - 1 : x = r[i]
      BY <1>5 DEF Range
    <3>2. CASE i < k
      BY <3>1, <3>2, <1>1, <1>4 DEF Range, IsInjective
    <3>3. CASE ~(i < k)
      BY <3>1, <3>3, <1>1, <1>4 DEF Range, IsInjective
    <3>4. QED
      BY <3>2, <3>3
  <2>2. ASSUME NEW x \in Range(s) \ {s[k]} PROVE x \in Range(r)
    <3>1. PICK i \in 1 .. Len(s) : x = s[i] /\ i # k
      BY <1>1 DEF Range
    <3>2. CASE i < k
      <4>1. i \in 1 .. k - 1 /\ i \in 1 .. Len(s) - 1
        BY <3>2, <1>1
      <4>2. r[i] = x /\ i \in DOMAIN r
        BY <3>1, <4>1, <1>4, <1>5
      <4>3. QED
        BY <4>2 DEF Range
    <3>3. CASE i > k
      <4>1. i - 1 \in k .. Len(s) - 1 /\ r[i - 1] = x
        BY <3>1, <3>3, <1>1, <1>4
      <4>2. QED
        BY <4>1, <1>1, <1>5 DEF Range
    <3>4. QED
      BY <3>1, <3>2, <3>3, <1>1
  <2>3. QED
    BY <2>1, <2>2
<1>7. IsInjective(r)
  <2>1. ASSUME NEW i \in DOMAIN r, NEW j \in DOMAIN r, r[i] = r[j], i < j PROVE FALSE
    <3>1. CASE j < k
      BY <2>1, <3>1, <1>1, <1>4, <1>5 DEF IsInjective
    <3>2. CASE i < k /\ ~(j < k)
      <4>1. i \in 1 .. Len(s) /\ j + 1 \in 1 .. Len(s) /\ i # j + 1
        BY <2>1, <3>2, <1>1, <1>5
      <4>2. s[i] = s[j + 1]
        BY <2>1, <3>2, <1>1, <1>4, <1>5
      <4>3. QED
        BY <4>1, <4>2, <1>1 DEF IsInjective
    <3>3. CASE ~(i < k) /\ ~(j < k)
      <4>1. i + 1 \in 1 .. Len(s) /\ j + 1 \in 1 .. Len(s) /\ i + 1 # j + 1
        BY <2>1, <3>3, <1>1, <1>5
      <4>2. s[i + 1] = s[j + 1]
        BY <2>1, <3>3, <1>1, <1>4, <1>5
      <4>3. QED
        BY <4>1, <4>2, <1>1 DEF IsInjective
    <3>4. QED
      BY <2>1, <3>1, <3>2, <3>3, <1>1, <1>5
  <2>2. QED
    BY <2>1, <1>1, <1>5 DEF IsInjective
<1>8. QED
  BY <1>4, <1>6, <1>7 DEF r

\* A push keeps what is there and adds the newcomer.
LEMMA PushFacts ==
  ASSUME NEW S, NEW s \in Seq(S), NEW e \in S
  PROVE  /\ Append(s, e) \in Seq(S) /\ Len(Append(s, e)) = Len(s) + 1
         /\ Range(Append(s, e)) = Range(s) \union {e}
<1>1. /\ Append(s, e) \in Seq(S) /\ Len(Append(s, e)) = Len(s) + 1 /\ Len(s) \in Nat
      /\ DOMAIN s = 1 .. Len(s) /\ DOMAIN Append(s, e) = 1 .. Len(s) + 1
      /\ \A i \in 1 .. Len(s) : Append(s, e)[i] = s[i]
      /\ Append(s, e)[Len(s) + 1] = e
  OBVIOUS
<1>2. QED
  BY <1>1 DEF Range

\* flatMap appends one list after the other.
LEMMA FlattenLoop ==
  ASSUME NEW S, NEW seqs \in Seq(Seq(S))
  PROVE  \E all \in [0 .. Len(seqs) -> Seq(S)] :
           /\ all[0] = <<>>
           /\ \A n \in 0 .. Len(seqs) - 1 : all[n + 1] = all[n] \o seqs[n + 1]
           /\ FlattenSeq(seqs) = all[Len(seqs)]
<1> DEFINE L == Len(seqs)
           T == Seq(S)
           none == <<>>
           flatten[i \in 1 .. L] == IF i = 1 THEN seqs[i] ELSE flatten[i - 1] \o seqs[i]
<1>1. L \in Nat /\ none \in T /\ \A n \in 1 .. L : seqs[n] \in Seq(S)
  OBVIOUS
<1>2. FlattenSeq(seqs) = IF L = 0 THEN seqs ELSE flatten[L]
  BY DEF FlattenSeq
<1>3. flatten = CHOOSE f : f = [i \in 1 .. L |-> IF i = 1 THEN seqs[i] ELSE f[i - 1] \o seqs[i]]
  BY Zenon
<1>4. L = 0 => seqs = none
  OBVIOUS
<1>5. \A s \in T, t \in T : s \o t \in T /\ none \o t = t
  OBVIOUS
<1> HIDE DEF flatten, L, T, none
<1>6. PICK step : step = [p \in (1 .. L) \X T |-> p[2] \o seqs[p[1]]]
  OBVIOUS
<1>7. PICK all : IsLoop(all, T, none, L, step)
  <2>1. step \in [(1 .. L) \X T -> T]
    <3>1. \A p \in (1 .. L) \X T : p[1] \in 1 .. L /\ p[2] \in T
      OBVIOUS
    <3>2. \A p \in (1 .. L) \X T : p[2] \o seqs[p[1]] \in T
      BY <1>1, <1>5, <3>1 DEF T
    <3> QED BY ONLY <1>6, <3>2
  <2> QED BY ONLY <1>1, <2>1, LoopExists, Zenon
<1>8. /\ all \in [0 .. L -> T] /\ all[0] = none
      /\ \A n \in 1 .. L : all[n] = all[n - 1] \o seqs[n]
  <2>1. \A n \in 1 .. L : all[n] = all[n - 1] \o seqs[n]
    <3>1. TAKE n \in 1 .. L
    <3>2. n - 1 \in 0 .. L
      BY <1>1
    <3> QED BY <1>6, <1>7, <3>2 DEF IsLoop
  <2> QED BY <1>7, <2>1 DEF IsLoop
<1>9. L # 0 => flatten = [i \in 1 .. L |-> all[i]]
  <2>1. SUFFICES ASSUME L # 0 PROVE flatten = [i \in 1 .. L |-> all[i]]
    OBVIOUS
  <2> DEFINE g == [i \in 1 .. L |-> all[i]]
  <2>2. 1 \in 1 .. L /\ all[1] = seqs[1]
    <3>1. 1 \in 1 .. L /\ seqs[1] \in T /\ 1 - 1 = 0
      BY <1>1, <2>1 DEF T
    <3>2. all[1] = all[1 - 1] \o seqs[1]
      BY <1>8, <3>1, Zenon
    <3>3. none \o seqs[1] = seqs[1]
      BY <1>1, <1>5, <3>1, Zenon
    <3> QED BY ONLY <1>8, <3>1, <3>2, <3>3
  <2>3. \A i \in 1 .. L : i # 1 => i - 1 \in 1 .. L
    BY <1>1
  <2>4. \A i \in 1 .. L : g[i] = IF i = 1 THEN seqs[i] ELSE g[i - 1] \o seqs[i]
    BY <1>8, <2>2, <2>3
  <2>5. g = [i \in 1 .. L |-> IF i = 1 THEN seqs[i] ELSE g[i - 1] \o seqs[i]]
    BY <2>4
  <2>6. flatten = [i \in 1 .. L |-> IF i = 1 THEN seqs[i] ELSE flatten[i - 1] \o seqs[i]]
    <3> HIDE DEF g
    <3> QED BY <1>3, <2>5, Zenon
  <2> DEFINE K == {n \in 0 .. L : n = 0 \/ flatten[n] = all[n]}
  <2>7. 0 \in K
    BY <1>1
  <2>8. \A n \in 0 .. L - 1 : n \in K => n + 1 \in K
    <3>1. SUFFICES ASSUME NEW n \in 0 .. L - 1, n \in K PROVE flatten[n + 1] = all[n + 1]
      BY <1>1
    <3>2. n + 1 \in 1 .. L /\ n + 1 - 1 = n
      BY <1>1
    <3>3. \A i \in 1 .. L : flatten[i] = IF i = 1 THEN seqs[i] ELSE flatten[i - 1] \o seqs[i]
      BY <2>6, Zenon
    <3>4. CASE n = 0
      BY <2>2, <3>2, <3>3, <3>4
    <3>5. CASE n # 0
      <4>1. PICK m \in 1 .. L : m = n + 1 /\ m - 1 = n /\ m # 1
        BY <3>2, <3>5
      <4>2. flatten[n] = all[n]
        BY <3>1, <3>5
      <4>3. flatten[m] = flatten[m - 1] \o seqs[m]
        BY <3>3, <4>1, Zenon
      <4>4. all[m] = all[m - 1] \o seqs[m]
        BY <1>8, Zenon
      <4> QED BY ONLY <4>1, <4>2, <4>3, <4>4
    <3> QED BY <3>4, <3>5
  <2> HIDE DEF K
  <2>9. \A n \in 0 .. L : n \in K
    BY ONLY <1>1, <2>7, <2>8, UpToLast
  <2>10. \A n \in 1 .. L : flatten[n] = all[n]
    BY <1>1, <2>9 DEF K
  <2> QED BY <2>6, <2>10
<1>10. FlattenSeq(seqs) = all[L]
  <2>1. CASE L = 0
    BY <1>2, <1>4, <1>8, <2>1
  <2>2. CASE L # 0
    <3>1. L \in 1 .. L
      BY <1>1, <2>2
    <3> QED BY <1>2, <1>9, <2>2, <3>1
  <2> QED BY <2>1, <2>2
<1>11. \A n \in 0 .. L - 1 : all[n + 1] = all[n] \o seqs[n + 1]
  <2>1. TAKE n \in 0 .. L - 1
  <2>2. PICK m \in 1 .. L : m = n + 1 /\ m - 1 = n
    BY <1>1
  <2>3. all[m] = all[m - 1] \o seqs[m]
    BY <1>8, Zenon
  <2> QED BY ONLY <2>2, <2>3
<1> QED BY <1>8, <1>10, <1>11 DEF L, T, none

\* What is in two lists is in one appended to the other, and nothing else.
LEMMA ConcatFacts ==
  ASSUME NEW S, NEW s \in Seq(S), NEW t \in Seq(S)
  PROVE  /\ s \o t \in Seq(S) /\ Len(s \o t) = Len(s) + Len(t)
         /\ \A i \in DOMAIN s : (s \o t)[i] = s[i]
         /\ \A i \in DOMAIN t : (s \o t)[Len(s) + i] = t[i]
         /\ Range(s \o t) = Range(s) \union Range(t)
<1>1. /\ s \o t \in Seq(S) /\ Len(s \o t) = Len(s) + Len(t) /\ Len(s) \in Nat /\ Len(t) \in Nat
      /\ DOMAIN s = 1 .. Len(s) /\ DOMAIN t = 1 .. Len(t) /\ DOMAIN (s \o t) = 1 .. Len(s) + Len(t)
      /\ \A i \in 1 .. Len(s) : (s \o t)[i] = s[i]
      /\ \A i \in 1 .. Len(t) : (s \o t)[Len(s) + i] = t[i]
  OBVIOUS
<1> DEFINE c == s \o t
<1> HIDE DEF c
<1>2. ASSUME NEW x \in Range(c) PROVE x \in Range(s) \union Range(t)
  <2>1. PICK i \in 1 .. Len(s) + Len(t) : x = c[i]
    BY <1>1 DEF Range, c
  <2>2. CASE i <= Len(s)
    BY <1>1, <2>1, <2>2 DEF Range, c
  <2>3. CASE i > Len(s)
    <3>1. i - Len(s) \in 1 .. Len(t) /\ Len(s) + (i - Len(s)) = i
      BY <1>1, <2>1, <2>3
    <3> QED BY <1>1, <2>1, <3>1 DEF Range, c
  <2> QED BY <1>1, <2>1, <2>2, <2>3
<1>3. ASSUME NEW x \in Range(s) \union Range(t) PROVE x \in Range(c)
  <2>1. CASE x \in Range(s)
    <3>1. PICK i \in 1 .. Len(s) : x = s[i]
      BY <1>1, <2>1 DEF Range
    <3>2. i \in 1 .. Len(s) + Len(t)
      BY <1>1
    <3> QED BY <1>1, <3>1, <3>2 DEF Range, c
  <2>2. CASE x \in Range(t)
    <3>1. PICK i \in 1 .. Len(t) : x = t[i]
      BY <1>1, <2>2 DEF Range
    <3>2. Len(s) + i \in 1 .. Len(s) + Len(t)
      BY <1>1
    <3> QED BY <1>1, <3>1, <3>2 DEF Range, c
  <2> QED BY <2>1, <2>2
<1> QED BY <1>1, <1>2, <1>3 DEF c

\* What is in the lists is in the result, and nothing else.
LEMMA FlattenFacts ==
  ASSUME NEW S, NEW seqs \in Seq(Seq(S))
  PROVE  /\ FlattenSeq(seqs) \in Seq(S)
         /\ Range(FlattenSeq(seqs)) = UNION {Range(seqs[i]) : i \in DOMAIN seqs}
<1> DEFINE L == Len(seqs)
<1>1. L \in Nat /\ DOMAIN seqs = 1 .. L /\ \A n \in 1 .. L : seqs[n] \in Seq(S)
  OBVIOUS
<1>2. PICK all \in [0 .. L -> Seq(S)] :
        /\ all[0] = <<>>
        /\ \A n \in 0 .. L - 1 : all[n + 1] = all[n] \o seqs[n + 1]
        /\ FlattenSeq(seqs) = all[L]
  BY FlattenLoop
<1> HIDE DEF L
<1> DEFINE K == {n \in 0 .. L : Range(all[n]) = UNION {Range(seqs[i]) : i \in 1 .. n}}
<1>3. 0 \in K
  <2>1. Range(<<>>) = {} /\ 1 .. 0 = {}
    BY DEF Range
  <2> QED BY <1>1, <1>2, <2>1
<1>4. \A n \in 0 .. L - 1 : n \in K => n + 1 \in K
  <2>1. SUFFICES ASSUME NEW n \in 0 .. L - 1, n \in K PROVE n + 1 \in K
    OBVIOUS
  <2>2. n + 1 \in 1 .. L /\ n + 1 \in 0 .. L /\ n \in 0 .. L /\ n + 1 - 1 = n
    BY <1>1
  <2>3. all[n + 1] = all[n] \o seqs[n + 1] /\ all[n] \in Seq(S) /\ seqs[n + 1] \in Seq(S)
    BY <1>1, <1>2, <2>2
  <2>4. Range(all[n + 1]) = Range(all[n]) \union Range(seqs[n + 1])
    BY <2>3, ConcatFacts
  <2>5. 1 .. n + 1 = (1 .. n) \union {n + 1}
    BY <1>1
  <2>6. UNION {Range(seqs[i]) : i \in 1 .. n + 1}
          = (UNION {Range(seqs[i]) : i \in 1 .. n}) \union Range(seqs[n + 1])
    BY <2>5
  <2> QED BY <2>1, <2>2, <2>4, <2>6
<1> HIDE DEF K
<1>5. \A n \in 0 .. L : n \in K
  BY ONLY <1>1, <1>3, <1>4, UpToLast
<1>6. L \in K /\ L \in 0 .. L
  BY <1>1, <1>5
<1> QED BY <1>1, <1>2, <1>6 DEF K

\* Each element comes after those that precede it.
Ordered(s, after) == \A m, n \in DOMAIN s : m < n => s[n] \in after[s[m]]

\* Two lists in order, one after the other.
LEMMA ConcatOrdered ==
  ASSUME NEW S, NEW s \in Seq(S), NEW t \in Seq(S), NEW after, Ordered(s, after), Ordered(t, after),
         \A x \in Range(s), y \in Range(t) : y \in after[x]
  PROVE  Ordered(s \o t, after)
<1> DEFINE c == s \o t
<1>1. /\ Len(s) \in Nat /\ Len(t) \in Nat
      /\ DOMAIN s = 1 .. Len(s) /\ DOMAIN t = 1 .. Len(t) /\ DOMAIN c = 1 .. Len(s) + Len(t)
      /\ \A i \in 1 .. Len(s) : c[i] = s[i]
      /\ \A i \in 1 .. Len(t) : c[Len(s) + i] = t[i]
  OBVIOUS
<1> HIDE DEF c
<1>2. ASSUME NEW i \in DOMAIN c
      PROVE  \/ i \in DOMAIN s /\ c[i] = s[i] /\ s[i] \in Range(s) /\ i <= Len(s)
             \/ \E k \in DOMAIN t : c[i] = t[k] /\ t[k] \in Range(t) /\ i = Len(s) + k /\ i > Len(s)
  <2>1. CASE i <= Len(s)
    BY <1>1, <2>1 DEF Range
  <2>2. CASE i > Len(s)
    <3>1. PICK k \in 1 .. Len(t) : i = Len(s) + k
      <4>1. i - Len(s) \in 1 .. Len(t) /\ i = Len(s) + (i - Len(s))
        BY <1>1, <2>2
      <4> QED BY <4>1
    <3>2. c[i] = t[k] /\ k \in DOMAIN t /\ t[k] \in Range(t)
      BY <1>1, <3>1 DEF Range
    <3> QED BY <2>2, <3>1, <3>2
  <2> QED BY <1>1, <2>1, <2>2
<1>3. SUFFICES ASSUME NEW m \in DOMAIN c, NEW n \in DOMAIN c, m < n PROVE c[n] \in after[c[m]]
  BY DEF Ordered, c
<1>4. m \in Int /\ n \in Int /\ Len(s) \in Int
  BY <1>1
<1>5. CASE n <= Len(s)
  <2>1. m \in DOMAIN s /\ n \in DOMAIN s /\ c[m] = s[m] /\ c[n] = s[n]
    BY <1>1, <1>3, <1>4, <1>5
  <2> QED BY <1>3, <2>1 DEF Ordered
<1>6. CASE n > Len(s)
  <2>1. PICK k \in DOMAIN t : c[n] = t[k] /\ t[k] \in Range(t) /\ n = Len(s) + k
    BY <1>1, <1>2, <1>4, <1>6
  <2>2. CASE m <= Len(s)
    <3>1. c[m] = s[m] /\ s[m] \in Range(s)
      BY <1>1, <1>2, <1>4, <2>2
    <3> QED BY <2>1, <3>1
  <2>3. CASE m > Len(s)
    <3>1. PICK j \in DOMAIN t : c[m] = t[j] /\ m = Len(s) + j
      <4>1. PICK i \in Int : i = m - Len(s)
        BY <1>1
      <4>2. i \in DOMAIN t /\ m = Len(s) + i
        BY <1>1, <2>3, <4>1
      <4> QED BY <1>2, <1>4, <4>2
    <3>2. j < k
      BY <1>1, <1>3, <2>1, <3>1
    <3> QED BY <2>1, <3>1, <3>2 DEF Ordered
  <2> QED BY <1>4, <2>2, <2>3
<1> QED BY <1>4, <1>5, <1>6

\* flatMap keeps the order.
LEMMA FlattenOrdered ==
  ASSUME NEW S, NEW seqs \in Seq(Seq(S)), NEW after, \A i \in DOMAIN seqs : Ordered(seqs[i], after),
         \A i, j \in DOMAIN seqs : i < j => \A x \in Range(seqs[i]), y \in Range(seqs[j]) : y \in after[x]
  PROVE  Ordered(FlattenSeq(seqs), after)
<1> DEFINE L == Len(seqs)
<1>1. L \in Nat /\ DOMAIN seqs = 1 .. L /\ \A n \in 1 .. L : seqs[n] \in Seq(S)
  OBVIOUS
<1>2. PICK all \in [0 .. L -> Seq(S)] :
        /\ all[0] = <<>>
        /\ \A n \in 0 .. L - 1 : all[n + 1] = all[n] \o seqs[n + 1]
        /\ FlattenSeq(seqs) = all[L]
  BY FlattenLoop
<1> HIDE DEF L
<1> DEFINE K == {n \in 0 .. L : /\ Ordered(all[n], after)
                                /\ \A x \in Range(all[n]) : \E i \in 1 .. n : x \in Range(seqs[i])}
<1>3. 0 \in K
  <2>1. Range(<<>>) = {} /\ Ordered(<<>>, after)
    BY DEF Range, Ordered
  <2> QED BY <1>1, <1>2, <2>1
<1>4. \A n \in 0 .. L - 1 : n \in K => n + 1 \in K
  <2>1. SUFFICES ASSUME NEW n \in 0 .. L - 1, n \in K PROVE n + 1 \in K
    OBVIOUS
  <2>2. n + 1 \in 1 .. L /\ n + 1 \in 0 .. L /\ n \in 0 .. L
    BY <1>1
  <2>3. all[n + 1] = all[n] \o seqs[n + 1] /\ all[n] \in Seq(S) /\ seqs[n + 1] \in Seq(S)
    BY <1>1, <1>2, <2>2
  <2>4. Range(all[n + 1]) = Range(all[n]) \union Range(seqs[n + 1])
    BY <2>3, ConcatFacts
  <2>5. ASSUME NEW x \in Range(all[n + 1]) PROVE \E i \in 1 .. n + 1 : x \in Range(seqs[i])
    <3>1. CASE x \in Range(all[n])
      <4>1. PICK i \in 1 .. n : x \in Range(seqs[i])
        BY <2>1, <3>1
      <4>2. i \in 1 .. n + 1
        BY <2>2
      <4> QED BY <4>1, <4>2
    <3>2. CASE x \in Range(seqs[n + 1])
      <4>1. n + 1 \in 1 .. n + 1
        BY <2>2
      <4> QED BY <3>2, <4>1
    <3> QED BY <2>4, <2>5, <3>1, <3>2
  <2>6. ASSUME NEW x \in Range(all[n]), NEW y \in Range(seqs[n + 1]) PROVE y \in after[x]
    <3>1. PICK i \in 1 .. n : x \in Range(seqs[i])
      BY <2>1
    <3>2. i \in DOMAIN seqs /\ n + 1 \in DOMAIN seqs /\ i < n + 1
      BY <1>1, <2>2
    <3> QED BY <2>6, <3>1, <3>2
  <2>7. Ordered(all[n], after) /\ Ordered(seqs[n + 1], after)
    BY <1>1, <2>1, <2>2
  <2>8. Ordered(all[n + 1], after)
    BY <2>3, <2>6, <2>7, ConcatOrdered
  <2> QED BY <2>2, <2>5, <2>8
<1>5. L \in K
  <2> HIDE DEF K
  <2>1. \A n \in 0 .. L : n \in K
    BY ONLY <1>1, <1>3, <1>4, UpToLast
  <2> QED BY <1>1, <2>1
<1> QED BY <1>2, <1>5

\* A list is one of whatever its elements are.
LEMMA ListOf ==
  ASSUME NEW S, NEW s \in Seq(S), NEW T, Range(s) \subseteq T
  PROVE  s \in Seq(T)
<1>1. s \in [1 .. Len(s) -> S] /\ Len(s) \in Nat /\ DOMAIN s = 1 .. Len(s)
  OBVIOUS
<1>2. \A i \in 1 .. Len(s) : s[i] \in T
  BY <1>1 DEF Range
<1>3. s \in [1 .. Len(s) -> T]
  BY <1>1, <1>2
<1> QED BY <1>1, <1>3

\* reverse keeps the elements.
LEMMA ReverseFacts ==
  ASSUME NEW S, NEW seq \in Seq(S)
  PROVE  Reverse(seq) \in Seq(S) /\ Range(Reverse(seq)) = Range(seq) /\ (IsInjective(seq) => IsInjective(Reverse(seq)))
<1> DEFINE L == Len(seq)
           back == [i \in 1 .. L |-> seq[(L - i) + 1]]
<1>1. L \in Nat /\ DOMAIN seq = 1 .. L /\ \A i \in 1 .. L : seq[i] \in S
  OBVIOUS
<1>2. \A i \in 1 .. L : (L - i) + 1 \in 1 .. L /\ (L - ((L - i) + 1)) + 1 = i
  BY <1>1
<1>3. Reverse(seq) = back
  BY DEF Reverse
<1> HIDE DEF L
<1>4. back \in Seq(S) /\ DOMAIN back = 1 .. L
  BY <1>1, <1>2
<1>5. Range(back) = Range(seq)
  <2>1. ASSUME NEW x \in Range(back) PROVE x \in Range(seq)
    BY <1>1, <1>2, <2>1 DEF Range
  <2>2. ASSUME NEW x \in Range(seq) PROVE x \in Range(back)
    <3>1. PICK i \in 1 .. L : x = seq[i]
      BY <1>1 DEF Range
    <3>2. PICK j \in 1 .. L : j = (L - i) + 1 /\ (L - j) + 1 = i
      BY <1>2
    <3>3. back[j] = x
      BY <3>1, <3>2
    <3> QED BY <1>4, <3>3 DEF Range
  <2> QED BY <2>1, <2>2
<1>6. ASSUME IsInjective(seq) PROVE IsInjective(back)
  <2>1. SUFFICES ASSUME NEW a \in 1 .. L, NEW b \in 1 .. L, back[a] = back[b] PROVE a = b
    BY <1>4 DEF IsInjective
  <2>2. seq[(L - a) + 1] = seq[(L - b) + 1]
    BY <2>1
  <2>3. (L - a) + 1 = (L - b) + 1
    BY <1>1, <1>2, <1>6, <2>2 DEF IsInjective
  <2> QED BY <1>1, <2>3
<1> QED BY <1>3, <1>4, <1>5, <1>6

\* A list that is not empty has a last element.
LEMMA FrontAndLast ==
  ASSUME NEW D, NEW path \in Seq(D), path # <<>>
  PROVE  \E front \in Seq(D), i \in D : path = Append(front, i) /\ Len(front) = Len(path) - 1
<1> DEFINE L == Len(path)
           front == [n \in 1 .. L - 1 |-> path[n]]
<1>1. L \in Nat /\ L >= 1 /\ L - 1 \in Nat /\ \A n \in 1 .. L : path[n] \in D
  OBVIOUS
<1>2. front \in Seq(D) /\ Len(front) = L - 1
  <2>1. \A n \in 1 .. L - 1 : n \in 1 .. L
    BY <1>1
  <2> QED BY <1>1, <2>1
<1>3. path = Append(front, path[L])
  <2>1. Append(front, path[L]) \in Seq(D) /\ Len(Append(front, path[L])) = L
    BY <1>1, <1>2
  <2>2. ASSUME NEW n \in 1 .. L PROVE Append(front, path[L])[n] = path[n]
    <3>1. \A m \in 1 .. L - 1 : front[m] = path[m]
      OBVIOUS
    <3> HIDE DEF front
    <3>2. CASE n = L
      BY <1>1, <1>2, <3>2
    <3>3. CASE n # L
      <4>1. n \in 1 .. L - 1
        BY <1>1, <3>3
      <4> QED BY <1>1, <1>2, <3>1, <4>1
    <3> QED BY <3>2, <3>3
  <2> QED BY <2>1, <2>2
<1>4. path[L] \in D
  BY <1>1
<1> QED BY <1>2, <1>3, <1>4
=============================================================================
