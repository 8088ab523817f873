------------------------ MODULE QuoteAdmission_proofs ------------------------
(***************************************************************************)
(* Places among the active quotes are conserved, and buckets filled on     *)
(* arrival let through what buckets filled by the tick would, for every    *)
(* set of requests and of visitors and for all limits.                     *)
(***************************************************************************)
EXTENDS QuoteAdmission, DataLemmas, FiniteSetTheorems, TLAPS

USE RequestAssumption, BucketAssumption, LimitsAssumption

-----------------------------------------------------------------------------
(* Lemmas *)

\* The least of two numbers.
LEMMA MinOfTwo ==
  ASSUME NEW a \in Int, NEW b \in Int
  PROVE  Min({a, b}) = IF a <= b THEN a ELSE b
<1> DEFINE m == IF a <= b THEN a ELSE b
<1>1. m \in {a, b} /\ \A y \in {a, b} : m <= y
  OBVIOUS
<1>2. \A x \in {a, b} : (\A y \in {a, b} : x <= y) => x = m
  OBVIOUS
<1>3. QED
  BY <1>1, <1>2 DEF Min

\* Map.delete removes the key and keeps the order of the others.
LEMMA DeletedFacts ==
  ASSUME NEW S, NEW s \in Seq(S), NEW e, IsInjective(s)
  PROVE  /\ Deleted(s, e) \in Seq(S)
         /\ Range(Deleted(s, e)) = Range(s) \ {e}
         /\ IsInjective(Deleted(s, e))
         /\ Len(Deleted(s, e)) = IF e \in Range(s) THEN Len(s) - 1 ELSE Len(s)
<1>1. CASE e \notin Range(s)
  BY <1>1 DEF Deleted
<1>2. CASE e \in Range(s)
  <2> DEFINE k == CHOOSE i \in DOMAIN s : s[i] = e
  <2>1. k \in DOMAIN s /\ s[k] = e
    BY <1>2 DEF Range
  <2>2. Deleted(s, e) = RemoveAt(s, k)
    BY <1>2 DEF Deleted
  <2> HIDE DEF k
  <2>3. QED
    BY <1>2, <2>1, <2>2, RemoveAtFacts
<1>3. QED
  BY <1>1, <1>2

\* The first key is deleted by taking the tail.
LEMMA DeletedHead ==
  ASSUME NEW S, NEW s \in Seq(S), s # <<>>, IsInjective(s)
  PROVE  Deleted(s, Head(s)) = Tail(s)
<1>1. /\ Len(s) \in Nat \ {0}
      /\ DOMAIN s = 1 .. Len(s)
      /\ Head(s) = s[1]
  OBVIOUS
<1>2. Head(s) \in Range(s)
  BY <1>1 DEF Range
<1>3. (CHOOSE i \in DOMAIN s : s[i] = Head(s)) = 1
  BY <1>1 DEF IsInjective
<1>4. Deleted(s, Head(s)) = RemoveAt(s, 1)
  BY <1>2, <1>3 DEF Deleted
<1>5. RemoveAt(s, 1) = SubSeq(s, 1, 0) \o SubSeq(s, 2, Len(s))
  BY DEF RemoveAt
<1>6. RemoveAt(s, 1) = Tail(s)
  BY <1>1, <1>5
<1>7. QED
  BY <1>4, <1>6

-----------------------------------------------------------------------------
(* The inductive invariant *)

(***************************************************************************)
(* The Map holds no key twice, without which delete would leave a second   *)
(* entry behind, and the history agrees with it. A request that is being   *)
(* read holds its place; one that is not and has yet to start or has       *)
(* started is a compressed one whose client has left.                      *)
(***************************************************************************)
IInv ==
  /\ TypeOK
  /\ IsInjective(visitors)
  /\ recency = visitors
  /\ IsFiniteSet(placed)
  /\ PlacesAccountedFor
  /\ \A r \in Requests :
       /\ stage[r] = "new" => r \notin placed /\ answer[r] = 0
       /\ stage[r] = "reading" => r \in placed
       /\ stage[r] = "inflating" => Body[r] = "compressed"
       /\ stage[r] \in {"inflating", "quoting"} /\ r \notin placed =>
            r \in gone /\ Body[r] = "compressed"

\* A bucket is worth between nothing and Burst.
LEMMA Worth ==
  ASSUME TypeOK, NEW v \in Visitors
  PROVE  /\ tokens[v] \in 0 .. Burst /\ since[v] \in 0 .. Burst
         /\ since[v] * Refill \in Nat
         /\ Level(v) \in 0 .. Burst
<1>1. tokens[v] \in 0 .. Burst /\ since[v] \in 0 .. Burst
  BY DEF TypeOK
<1>2. \A a, b \in Nat : a * b \in Nat
  OBVIOUS
<1>3. since[v] * Refill \in Nat
  BY <1>1, <1>2
<1>4. tokens[v] + since[v] * Refill \in Nat
  BY <1>1, <1>3
<1>5. Level(v) \in 0 .. Burst
  BY <1>4, MinOfTwo DEF Level
<1>6. QED
  BY <1>1, <1>3, <1>5

\* The visitor a request comes from is remembered, and at most one other is forgotten.
LEMMA ChargeFacts ==
  ASSUME IInv, NEW v \in Visitors, NEW taken \in {0, 1}, taken <= Level(v), Charge(v, taken)
  PROVE  /\ visitors' \in Seq(Visitors) /\ Len(visitors') <= MaxVisitors
         /\ IsInjective(visitors')
         /\ recency' = visitors'
         /\ v \in Range(visitors')
         /\ Range(visitors') \subseteq Range(visitors) \union {v}
         /\ Range(visitors) \ Range(visitors') \subseteq {Head(visitors)}
         /\ tokens' \in [Visitors -> 0 .. Burst]
         /\ since' \in [Visitors -> 0 .. Burst]
<1> DEFINE rest == Deleted(visitors, v)
           seen == Append(rest, v)
<1>1. /\ rest \in Seq(Visitors) /\ IsInjective(rest)
      /\ Range(rest) = Range(visitors) \ {v} /\ Len(rest) <= Len(visitors)
      /\ Len(visitors) \in Nat
  BY DeletedFacts DEF IInv, TypeOK
<1>2. v \notin Range(rest)
  BY <1>1
<1>3. /\ seen \in Seq(Visitors) /\ IsInjective(seen)
      /\ Range(seen) = Range(visitors) \union {v}
      /\ Len(seen) = Len(rest) + 1
      /\ seen # <<>>
  <2> HIDE DEF rest
  <2>1. QED
    BY <1>1, <1>2, AppendFacts
<1>4. visitors' = (IF Len(seen) > MaxVisitors THEN Tail(seen) ELSE seen)
  BY DEF Charge, Seen, Remembered
<1>5. recency' = (IF Len(seen) > MaxVisitors THEN Deleted(seen, Head(seen)) ELSE seen)
  BY DEF Charge, Seen, IInv
<1>7. recency' = visitors'
  BY <1>3, <1>4, <1>5, DeletedHead
<1>8. Len(seen) > MaxVisitors => Head(seen) = Head(visitors) /\ Head(seen) # v
  <2> SUFFICES ASSUME Len(seen) > MaxVisitors
               PROVE  Head(seen) = Head(visitors) /\ Head(seen) # v
    OBVIOUS
  <2>1. Len(rest) >= MaxVisitors /\ Len(visitors) <= MaxVisitors
    BY <1>1, <1>3 DEF IInv, TypeOK
  <2>2. rest = visitors
    <3>1. Len(rest) = Len(visitors)
      BY <1>1, <1>3, <2>1 DEF IInv, TypeOK
    <3>2. v \notin Range(visitors)
      BY <1>1, <3>1, DeletedFacts DEF IInv, TypeOK
    <3>3. QED
      BY <3>2 DEF Deleted
  <2>3. rest # <<>>
    BY <1>1, <2>1
  <2>4. Head(seen) = Head(rest) /\ Head(rest) \in Range(rest)
    BY <1>1, <2>3, TailFacts
  <2>5. QED
    BY <1>2, <2>2, <2>4
<1>9. /\ visitors' \in Seq(Visitors) /\ Len(visitors') <= MaxVisitors
      /\ IsInjective(visitors')
      /\ v \in Range(visitors')
      /\ Range(visitors') \subseteq Range(visitors) \union {v}
      /\ Range(visitors) \ Range(visitors') \subseteq {Head(visitors)}
  <2>1. CASE Len(seen) > MaxVisitors
    <3>1. /\ Tail(seen) \in Seq(Visitors) /\ IsInjective(Tail(seen))
          /\ Range(Tail(seen)) = Range(seen) \ {Head(seen)}
          /\ Len(Tail(seen)) = Len(seen) - 1
      BY <1>3, TailFacts
    <3>2. Len(Tail(seen)) <= MaxVisitors
      BY <1>1, <1>3, <3>1 DEF IInv, TypeOK
    <3>3. visitors' = Tail(seen)
      BY <2>1, <1>4
    <3>4. QED
      BY <1>3, <1>8, <2>1, <3>1, <3>2, <3>3
  <2>2. CASE ~(Len(seen) > MaxVisitors)
    <3>1. visitors' = seen /\ Len(seen) <= MaxVisitors
      BY <2>2, <1>1, <1>3, <1>4
    <3>2. QED
      BY <1>3, <3>1
  <2>3. QED
    BY <2>1, <2>2
<1>10. Level(v) \in 0 .. Burst
  BY Worth DEF IInv
<1>11. /\ tokens' \in [Visitors -> 0 .. Burst]
       /\ since' \in [Visitors -> 0 .. Burst]
  <2>1. Level(v) - taken \in 0 .. Burst
    BY <1>10
  <2>2. QED
    BY <2>1 DEF Charge, IInv, TypeOK
<1>12. QED
  BY <1>7, <1>9, <1>11

\* releaseQuote gives back the one place of a request that has one, and nothing otherwise.
LEMMA ReleaseFacts ==
  ASSUME IInv, NEW r \in Requests, releaseQuote(r)
  PROVE  /\ placed' = placed \ {r}
         /\ IsFiniteSet(placed')
         /\ active' = Cardinality(placed')
         /\ active' \in 0 .. MaxActive
<1>1. placed' = placed \ {r} /\ IsFiniteSet(placed)
  BY DEF releaseQuote, IInv
<1>2. active = Cardinality(placed) /\ active \in 0 .. MaxActive
  BY DEF IInv, PlacesAccountedFor, TypeOK
<1>3. CASE r \in placed
  <2>1. IsFiniteSet(placed') /\ Cardinality(placed') = Cardinality(placed) - 1
    BY <1>1, <1>3, FS_RemoveElement
  <2>2. Cardinality(placed') \in Nat
    BY <2>1, FS_CardinalityType
  <2>3. QED
    BY <1>1, <1>2, <1>3, <2>1, <2>2 DEF releaseQuote
<1>4. CASE r \notin placed
  BY <1>1, <1>2, <1>4 DEF releaseQuote
<1>5. QED
  BY <1>3, <1>4

\* Arrivals keep the invariant, whether they are turned away or let in.
LEMMA ArrivePreserves ==
  ASSUME IInv, NEW r \in Requests, Arrive(r)
  PROVE  IInv'
<1> DEFINE v == VisitorOf[r]
<1>1. v \in Visitors /\ stage[r] = "new" /\ gone' = gone /\ r \notin placed
  BY DEF Arrive, IInv
<1>2. CASE RateLimited(r, v) \/ TurnedAway(r, v)
  <2>1. \E taken \in {0, 1} : Charge(v, taken) /\ taken <= Level(v)
    <3>1. CASE RateLimited(r, v)
      <4>1. Level(v) >= 0
        BY <1>1, Worth DEF IInv
      <4>2. QED
        BY <3>1, <4>1 DEF RateLimited
    <3>2. CASE TurnedAway(r, v)
      BY <3>2 DEF TurnedAway
    <3>3. QED
      BY <1>2, <3>1, <3>2
  <2>2. /\ stage' = [stage EXCEPT ![r] = "done"]
        /\ answer' \in [Requests -> {0, 414, 429, 503}]
        /\ \A q \in Requests : q # r => answer'[q] = answer[q]
        /\ active' = active /\ placed' = placed
    <3>1. CASE RateLimited(r, v)
      BY <3>1 DEF RateLimited, IInv, TypeOK
    <3>2. CASE TurnedAway(r, v)
      <4>1. \E code \in {414, 503} : answer' = [answer EXCEPT ![r] = code]
        BY <3>2 DEF TurnedAway
      <4>2. answer \in [Requests -> {0, 414, 429, 503}]
        BY DEF IInv, TypeOK
      <4>3. /\ answer' \in [Requests -> {0, 414, 429, 503}]
            /\ \A q \in Requests : q # r => answer'[q] = answer[q]
        BY <4>1, <4>2
      <4>4. QED
        BY <3>2, <4>3 DEF TurnedAway
    <3>3. QED
      BY <1>2, <3>1, <3>2
  <2> HIDE DEF v
  <2>3. /\ visitors' \in Seq(Visitors) /\ Len(visitors') <= MaxVisitors
        /\ IsInjective(visitors') /\ recency' = visitors'
        /\ tokens' \in [Visitors -> 0 .. Burst]
        /\ since' \in [Visitors -> 0 .. Burst]
    BY <1>1, <2>1, ChargeFacts
  <2>4. TypeOK'
    BY <1>1, <2>2, <2>3 DEF IInv, TypeOK, Waiting
  <2>5. stage'[r] = "done" /\ \A q \in Requests : q # r => stage'[q] = stage[q]
    BY <2>2 DEF IInv, TypeOK
  <2>6. ASSUME NEW q \in Requests
        PROVE  /\ stage'[q] = "new" => q \notin placed' /\ answer'[q] = 0
               /\ stage'[q] = "reading" => q \in placed'
               /\ stage'[q] = "inflating" => Body[q] = "compressed"
               /\ stage'[q] \in {"inflating", "quoting"} /\ q \notin placed' =>
                    q \in gone' /\ Body[q] = "compressed"
    <3>1. placed' = placed /\ gone' = gone
      BY <1>1, <2>2
    <3>2. CASE q = r
      BY <2>5, <3>2
    <3>3. CASE q # r
      <4>1. stage'[q] = stage[q] /\ answer'[q] = answer[q]
        BY <2>2, <2>5, <3>3
      <4>2. QED
        BY <3>1, <4>1 DEF IInv
    <3>4. QED
      BY <3>2, <3>3
  <2>7. IsFiniteSet(placed') /\ PlacesAccountedFor'
    BY <2>2 DEF IInv, PlacesAccountedFor
  <2>8. QED
    BY <2>3, <2>4, <2>6, <2>7 DEF IInv
<1>3. CASE Admitted(r, v)
  <2>1. /\ active < MaxActive /\ active' = active + 1
        /\ placed' = placed \union {r} /\ answer' = answer
        /\ stage' = [stage EXCEPT ![r] = IF Body[r] = "none" THEN "quoting" ELSE "reading"]
        /\ Charge(v, 1) /\ 1 <= Level(v)
    BY <1>3 DEF Admitted
  <2> HIDE DEF v
  <2>2. /\ visitors' \in Seq(Visitors) /\ Len(visitors') <= MaxVisitors
        /\ IsInjective(visitors') /\ recency' = visitors'
        /\ tokens' \in [Visitors -> 0 .. Burst]
        /\ since' \in [Visitors -> 0 .. Burst]
    BY <1>1, <2>1, ChargeFacts
  <2>3. IsFiniteSet(placed') /\ active' = Cardinality(placed')
    BY <1>1, <2>1, FS_AddElement DEF IInv, PlacesAccountedFor
  <2>4. TypeOK'
    BY <1>1, <2>1, <2>2 DEF IInv, TypeOK, Waiting
  <2>5. \A q \in Requests : q # r =>
          stage'[q] = stage[q] /\ answer'[q] = answer[q] /\ (q \in placed' <=> q \in placed)
    BY <2>1 DEF IInv, TypeOK
  <2>6. stage'[r] \in {"quoting", "reading"} /\ r \in placed'
    BY <2>1 DEF IInv, TypeOK
  <2>7. QED
    BY <1>1, <2>2, <2>3, <2>4, <2>5, <2>6 DEF IInv, PlacesAccountedFor
<1>4. QED
  BY <1>2, <1>3 DEF Arrive

\* What is left of a request's way leaves the buckets alone.
LEMMA RequestPreserves ==
  ASSUME IInv, NEW r \in Requests, Close(r) \/ Handle(r)
  PROVE  IInv'
<1> USE DEF IInv, TypeOK, Waiting, bucketVars
<1>1. CASE BodyRead(r) \/ BodyInflated(r) \/ BodyFails(r)
  <2>1. /\ UNCHANGED <<visitors, tokens, since, recency, active, placed, answer, gone>>
        /\ stage' \in [Requests -> {"new", "quoting", "done"} \union Waiting]
        /\ \A q \in Requests : q # r => stage'[q] = stage[q]
    <3>1. CASE BodyRead(r)
      BY <3>1 DEF BodyRead
    <3>2. CASE BodyInflated(r)
      BY <3>2 DEF BodyInflated
    <3>3. CASE BodyFails(r)
      BY <3>3 DEF BodyFails
    <3>4. QED
      BY <1>1, <3>1, <3>2, <3>3
  <2>2. \/ stage'[r] = "failing"
        \/ /\ stage[r] \in {"reading", "inflating"}
           /\ stage'[r] = "inflating" => Body[r] = "compressed"
           /\ stage'[r] \in {"inflating", "quoting"}
    BY <1>1 DEF BodyRead, BodyInflated, BodyFails
  <2>3. QED
    BY <2>1, <2>2 DEF PlacesAccountedFor
<1>2. CASE ErrorHandled(r) \/ QuoteEnds(r)
  <2>1. releaseQuote(r)
    BY <1>2 DEF ErrorHandled, QuoteEnds
  <2>2. /\ placed' = placed \ {r} /\ IsFiniteSet(placed')
        /\ PlacesAccountedFor' /\ active' \in 0 .. MaxActive
    BY <2>1, ReleaseFacts DEF PlacesAccountedFor
  <2>3. /\ UNCHANGED <<visitors, tokens, since, recency, answer, gone>>
        /\ stage' = [stage EXCEPT ![r] = "done"]
    BY <1>2 DEF ErrorHandled, QuoteEnds
  <2>4. QED
    BY <2>2, <2>3
<1>3. CASE Close(r)
  <2>1. CASE stage[r] \in Waiting
    <3>1. releaseQuote(r)
      BY <1>3, <2>1 DEF Close, releaseUnstarted
    <3>2. /\ placed' = placed \ {r} /\ IsFiniteSet(placed')
          /\ PlacesAccountedFor' /\ active' \in 0 .. MaxActive
      BY <3>1, ReleaseFacts DEF PlacesAccountedFor
    <3>3. /\ UNCHANGED <<visitors, tokens, since, recency, answer>>
          /\ gone' = gone \union {r}
          /\ stage' = IF stage[r] = "reading" THEN [stage EXCEPT ![r] = "failing"] ELSE stage
      BY <1>3 DEF Close
    <3>4. QED
      BY <2>1, <3>2, <3>3
  <2>2. CASE stage[r] \notin Waiting
    BY <1>3, <2>2 DEF Close, releaseUnstarted, PlacesAccountedFor
  <2>3. QED
    BY <2>1, <2>2
<1>4. QED
  BY <1>1, <1>2, <1>3 DEF Handle

\* The passing of time keeps the invariant.
LEMMA TickPreserves ==
  ASSUME IInv, Tick
  PROVE  IInv'
<1>1. since' \in [Visitors -> 0 .. Burst]
  <2>1. ASSUME NEW v \in Visitors PROVE Min({Burst, since[v] + 1}) \in 0 .. Burst
    <3>1. since[v] \in 0 .. Burst
      BY Worth DEF IInv
    <3>2. Min({Burst, since[v] + 1}) = IF Burst <= since[v] + 1 THEN Burst ELSE since[v] + 1
      BY <3>1, MinOfTwo
    <3>3. QED
      BY <3>1, <3>2
  <2>2. QED
    BY <2>1 DEF Tick
<1>2. QED
  BY <1>1 DEF Tick, IInv, TypeOK, requestVars, PlacesAccountedFor

\* The invariant holds in every state.
LEMMA Invariance == Spec => []IInv
<1>1. Init => IInv
  BY FS_EmptySet DEF Init, IInv, TypeOK, Waiting, PlacesAccountedFor, IsInjective
<1>2. IInv /\ [Next]_vars => IInv'
  <2> SUFFICES ASSUME IInv, [Next]_vars PROVE IInv'
    OBVIOUS
  <2>1. CASE UNCHANGED vars
    BY <2>1 DEF vars, bucketVars, requestVars, IInv, TypeOK, PlacesAccountedFor
  <2>2. QED
    BY <2>1, ArrivePreserves, RequestPreserves, TickPreserves DEF Next
<1>3. QED
  BY <1>1, <1>2, PTL DEF Spec

-----------------------------------------------------------------------------
(* Buckets filled on arrival *)

\* Both specifications mean the same by the least of a set.
LEMMA BucketMin == \A S : Bucket!Min(S) = Min(S)
BY DEF Bucket!Min, Min

\* A tick is worth Refill tokens, until the bucket is full.
LEMMA TickFills ==
  ASSUME IInv, Tick
  PROVE  Bucket!TimePasses
<1>1. ASSUME NEW v \in Visitors
      PROVE  Level(v)' = Min({Burst, Level(v) + Refill})
  <2> DEFINE worth == tokens[v] + since[v] * Refill
  <2>1. /\ tokens[v] \in 0 .. Burst /\ since[v] \in 0 .. Burst
        /\ since[v] * Refill \in Nat /\ Level(v) \in 0 .. Burst
    BY Worth DEF IInv
  <2>2. visitors' = visitors /\ tokens' = tokens
    BY DEF Tick
  <2>3. CASE v \notin Range(visitors)
    <3>1. Level(v)' = Burst /\ Level(v) = Burst
      BY <2>2, <2>3 DEF Level
    <3>2. Min({Burst, Burst + Refill}) = Burst
      BY MinOfTwo
    <3>3. QED
      BY <3>1, <3>2
  <2>4. CASE v \in Range(visitors)
    <3>1. since'[v] = IF Burst <= since[v] + 1 THEN Burst ELSE since[v] + 1
      BY <2>1, <2>4, MinOfTwo DEF Tick
    <3>2. Level(v) = IF Burst <= worth THEN Burst ELSE worth
      BY <2>1, <2>4, MinOfTwo DEF Level
    <3>3. Level(v)' = Min({Burst, tokens[v] + since'[v] * Refill})
      BY <2>2, <2>4 DEF Level
    <3>4. CASE since[v] = Burst
      <4>1. since'[v] = Burst
        BY <3>1, <3>4
      <4>2. \A a, b \in Nat \ {0} : a * b >= a
        OBVIOUS
      <4>3. since[v] * Refill >= Burst
        BY <3>4, <4>2
      <4>4. Level(v)' = Burst
        BY <2>1, <3>3, <3>4, <4>1, <4>3, MinOfTwo
      <4>5. Level(v) = Burst
        BY <2>1, <3>2, <4>3
      <4>6. QED
        BY <4>4, <4>5, MinOfTwo
    <3>5. CASE since[v] # Burst
      <4>1. since'[v] = since[v] + 1
        BY <2>1, <3>1, <3>5
      <4>2. \A a, b \in Int : (a + 1) * b = a * b + b
        OBVIOUS
      <4>3. since'[v] * Refill = since[v] * Refill + Refill
        BY <2>1, <4>1, <4>2
      <4>4. tokens[v] + since'[v] * Refill = worth + Refill /\ worth \in Nat
        BY <2>1, <4>3
      <4>5. Level(v)' = IF Burst <= worth + Refill THEN Burst ELSE worth + Refill
        BY <3>3, <4>4, MinOfTwo
      <4>6. Min({Burst, Level(v) + Refill})
              = IF Burst <= Level(v) + Refill THEN Burst ELSE Level(v) + Refill
        BY <2>1, MinOfTwo
      <4> HIDE DEF worth
      <4>7. QED
        BY <2>1, <3>2, <4>4, <4>5, <4>6
    <3>6. QED
      BY <3>4, <3>5
  <2>5. QED
    BY <2>3, <2>4
<1>2. Passed' = Passed
  BY DEF Tick, requestVars, Passed
<1>3. QED
  BY <1>1, <1>2, BucketMin DEF Bucket!TimePasses

\* A visitor who asks pays, one who is forgotten starts over, and nobody else notices.
LEMMA ChargeLevels ==
  ASSUME IInv, NEW v \in Visitors, NEW taken \in {0, 1}, taken <= Level(v), Charge(v, taken)
  PROVE  /\ v \notin Range(visitors) \ Range(visitors')
         /\ \A w \in Visitors :
              Level(w)' = IF w \in Range(visitors) \ Range(visitors') THEN Burst
                          ELSE Level(w) - (IF w = v THEN taken ELSE 0)
<1>1. v \in Range(visitors') /\ Range(visitors') \subseteq Range(visitors) \union {v}
  BY ChargeFacts
<1>2. Level(v) \in 0 .. Burst
  BY Worth DEF IInv
<1>3. Level(v)' = Level(v) - taken
  <2>1. Level(v)' = Min({Burst, tokens'[v] + since'[v] * Refill})
    BY <1>1 DEF Level
  <2>2. tokens'[v] = Level(v) - taken /\ since'[v] = 0
    BY DEF Charge
  <2>3. Level(v) - taken + 0 * Refill = Level(v) - taken
    BY <1>2
  <2>4. Min({Burst, Level(v) - taken}) = Level(v) - taken
    BY <1>2, MinOfTwo
  <2>5. QED
    BY <2>1, <2>2, <2>3, <2>4
<1>4. ASSUME NEW w \in Visitors, w # v, w \in Range(visitors')
      PROVE  Level(w)' = Level(w)
  <2>1. w \in Range(visitors)
    BY <1>1, <1>4
  <2>2. tokens'[w] = tokens[w] /\ since'[w] = since[w]
    BY <1>4 DEF Charge
  <2>3. QED
    BY <1>4, <2>1, <2>2 DEF Level
<1>5. ASSUME NEW w \in Visitors, w \notin Range(visitors')
      PROVE  Level(w)' = Burst /\ (w \notin Range(visitors) => Level(w) = Burst)
  BY <1>5 DEF Level
<1>6. \A w \in Visitors : Level(w) \in Int
  BY Worth DEF IInv
<1>7. QED
  BY <1>1, <1>3, <1>4, <1>5, <1>6

\* An arrival is, for the eager buckets, a request that passes or is refused.
LEMMA ArrivePasses ==
  ASSUME IInv, NEW r \in Requests, Arrive(r)
  PROVE  Bucket!Next
<1> DEFINE v == VisitorOf[r]
           forgotten == Range(visitors) \ Range(visitors')
<1>1. v \in Visitors /\ stage[r] = "new" /\ r \notin Passed
  BY DEF Arrive, Passed
<1>2. Level(v) \in 0 .. Burst
  BY <1>1, Worth DEF IInv
<1>3. forgotten \in SUBSET Visitors
  BY DEF IInv, TypeOK, Range
<1>4. \A w \in Visitors : Level(w) \in Int
  BY Worth DEF IInv
<1>5. CASE RateLimited(r, v)
  <2>1. Charge(v, 0)
    BY <1>5 DEF RateLimited
  <2>2. Passed' = Passed
    BY <1>1, <1>5 DEF RateLimited, Passed, IInv, TypeOK
  <2> HIDE DEF v
  <2>3. \A w \in Visitors : Level(w)' = IF w \in forgotten THEN Burst ELSE Level(w)
    BY <1>1, <1>2, <1>4, <2>1, ChargeLevels
  <2>4. \A w \in Visitors : Level(w) - 0 = Level(w)
    BY <1>4
  <2>5. Bucket!Forget(forgotten)
    BY <2>2, <2>3, <2>4 DEF Bucket!Forget, Bucket!LevelAfter
  <2>6. QED
    BY <1>3, <2>5 DEF Bucket!Next
<1>6. CASE TurnedAway(r, v) \/ Admitted(r, v)
  <2>1. Charge(v, 1) /\ 1 <= Level(v)
    BY <1>6 DEF TurnedAway, Admitted
  <2>2. Passed' = Passed \union {r}
    <3>1. /\ stage' \in [Requests -> {"new", "quoting", "done"} \union Waiting]
          /\ stage'[r] # "new" /\ answer'[r] # 429
          /\ \A q \in Requests : q # r => stage'[q] = stage[q] /\ answer'[q] = answer[q]
      <4>1. CASE TurnedAway(r, v)
        BY <4>1 DEF TurnedAway, IInv, TypeOK
      <4>2. CASE Admitted(r, v)
        <5>1. answer[r] # 429
          BY <1>1 DEF IInv
        <5>2. QED
          BY <4>2, <5>1 DEF Admitted, IInv, TypeOK, Waiting
      <4>3. QED
        BY <1>6, <4>1, <4>2
    <3>2. QED
      BY <3>1 DEF Passed
  <2> HIDE DEF v
  <2>3. /\ v \notin forgotten
        /\ \A w \in Visitors :
             Level(w)' = IF w \in forgotten THEN Burst ELSE Level(w) - (IF w = v THEN 1 ELSE 0)
    BY <1>1, <2>1, ChargeLevels
  <2>4. Bucket!Pass(r, forgotten)
    BY <1>1, <2>1, <2>2, <2>3 DEF Bucket!Pass, Bucket!LevelAfter, v
  <2>5. QED
    BY <1>3, <2>4 DEF Bucket!Next
<1>7. QED
  BY <1>5, <1>6 DEF Arrive

\* What happens to a request after it has arrived does not concern its bucket.
LEMMA RequestStutters ==
  ASSUME IInv, NEW r \in Requests, Close(r) \/ Handle(r)
  PROVE  UNCHANGED Bucket!vars
<1>1. UNCHANGED <<visitors, tokens, since, answer>>
  BY DEF Close, Handle, BodyRead, BodyInflated, BodyFails, ErrorHandled, QuoteEnds, bucketVars
<1>2. \A q \in Requests : stage[q] = "new" <=> stage'[q] = "new"
  <2>1. stage[r] # "new" /\ stage'[r] # "new"
    BY DEF Close, Handle, BodyRead, BodyInflated, BodyFails, ErrorHandled, QuoteEnds, IInv, TypeOK
  <2>2. \A q \in Requests : q # r => stage'[q] = stage[q]
    BY DEF Close, Handle, BodyRead, BodyInflated, BodyFails, ErrorHandled, QuoteEnds, IInv, TypeOK
  <2>3. QED
    BY <2>1, <2>2
<1>3. \A v \in Visitors : Level(v)' = Level(v)
  BY <1>1 DEF Level
<1>4. Passed' = Passed
  BY <1>1, <1>2 DEF Passed
<1>5. QED
  BY <1>3, <1>4 DEF Bucket!vars

-----------------------------------------------------------------------------
(* Theorems *)

\* Every variable of admission keeps to its type; the counter stays within its limit.
THEOREM AdmissionTypes == Spec => []TypeOK
<1>1. IInv => TypeOK
  BY DEF IInv
<1>2. QED
  BY <1>1, Invariance, PTL

\* No place is lost or given back twice, in whatever order handler, error handler and connection
\* come to give it back.
THEOREM PlacesConserved == Spec => []PlacesAccountedFor
<1>1. IInv => PlacesAccountedFor
  BY DEF IInv
<1>2. QED
  BY <1>1, Invariance, PTL

\* No more quotes are computed than there are places, but for those whose client left while a
\* compressed body was being inflated.
THEOREM QuotesBounded == Spec => []QuotesWithinLimit
<1>1. IInv => QuotesWithinLimit
  <2> SUFFICES ASSUME IInv PROVE QuotesWithinLimit
    OBVIOUS
  <2> DEFINE counted == {r \in Requests : stage[r] = "quoting"} \ StartedLate
  <2>1. counted \subseteq placed
    BY DEF StartedLate
  <2>2. Cardinality(counted) <= Cardinality(placed)
    BY <2>1, FS_Subset DEF IInv
  <2>3. IsFiniteSet(placed) /\ IsFiniteSet(counted)
    BY <2>1, FS_Subset DEF IInv
  <2>4. Cardinality(counted) \in Nat /\ Cardinality(placed) \in Nat
    BY <2>3, FS_CardinalityType
  <2>5. Cardinality(counted) <= MaxActive
    BY <2>2, <2>4 DEF IInv, TypeOK, PlacesAccountedFor
  <2>6. StartedLate \subseteq gone \intersect {r \in Requests : Body[r] = "compressed"}
    BY DEF StartedLate, IInv
  <2>7. QED
    BY <2>5, <2>6 DEF QuotesWithinLimit
<1>2. QED
  BY <1>1, Invariance, PTL

\* The visitor who is forgotten is the one who has been away longest.
THEOREM OldestForgotten == Spec => LeastRecentForgotten
<1>1. IInv /\ [Next]_vars =>
        [\A v \in Range(recency) \ Range(recency') : v = recency[1]]_vars
  <2> SUFFICES ASSUME IInv, Next, NEW v \in Range(recency) \ Range(recency')
               PROVE  v = recency[1]
    OBVIOUS
  <2>1. PICK r \in Requests : Arrive(r)
    <3>1. ~Tick
      BY DEF Tick
    <3>2. ASSUME NEW r \in Requests, Close(r) \/ Handle(r) PROVE FALSE
      BY <3>2 DEF Close, Handle, BodyRead, BodyInflated, BodyFails, ErrorHandled, QuoteEnds,
                  bucketVars
    <3>3. QED
      BY <3>1, <3>2 DEF Next
  <2>2. VisitorOf[r] \in Visitors
    OBVIOUS
  <2>4. Level(VisitorOf[r]) >= 0
    BY <2>2, Worth DEF IInv
  <2>5. \E taken \in {0, 1} : Charge(VisitorOf[r], taken) /\ taken <= Level(VisitorOf[r])
    BY <2>1, <2>4 DEF Arrive, RateLimited, TurnedAway, Admitted
  <2>6. recency' = visitors' /\ Range(visitors) \ Range(visitors') \subseteq {Head(visitors)}
    BY <2>2, <2>5, ChargeFacts
  <2>7. recency = visitors /\ visitors \in Seq(Visitors) /\ visitors # <<>>
    BY DEF IInv, TypeOK, Range
  <2>8. QED
    BY <2>6, <2>7
<1>2. QED
  BY <1>1, Invariance, PTL DEF Spec, LeastRecentForgotten

\* A place that a computed quote holds is given back by the handler of that quote only.
THEOREM PlacesKept == Spec => PlaceKeptWhileQuoting
<1>1. IInv /\ [Next]_vars =>
        [\A r \in placed : stage[r] = "quoting" /\ r \notin placed' => stage'[r] = "done"]_vars
  <2> SUFFICES ASSUME IInv, Next, NEW r \in placed, stage[r] = "quoting", r \notin placed'
               PROVE  stage'[r] = "done"
    OBVIOUS
  <2>1. r \in Requests
    BY DEF IInv, TypeOK
  <2>2. CASE Tick
    BY <2>2 DEF Tick
  <2>3. ASSUME NEW q \in Requests, Arrive(q) PROVE stage'[r] = "done"
    BY <2>3 DEF Arrive, RateLimited, TurnedAway, Admitted
  <2>4. ASSUME NEW q \in Requests, Close(q) PROVE stage'[r] = "done"
    BY <2>4 DEF Close, releaseUnstarted, releaseQuote, Waiting
  <2>5. ASSUME NEW q \in Requests, Handle(q) PROVE stage'[r] = "done"
    BY <2>1, <2>5 DEF Handle, BodyRead, BodyInflated, BodyFails, ErrorHandled, QuoteEnds,
                      releaseQuote, IInv, TypeOK
  <2>6. QED
    BY <2>2, <2>3, <2>4, <2>5 DEF Next
<1>2. QED
  BY <1>1, Invariance, PTL DEF Spec, PlaceKeptWhileQuoting

\* Buckets that are filled on arrival let through what buckets filled by the tick would.
THEOREM BucketsExact == Spec => ImplementsRateLimit
<1>1. Init => Bucket!Init
  <2> SUFFICES ASSUME Init PROVE Bucket!Init
    OBVIOUS
  <2>1. \A v \in Visitors : Level(v) = Burst
    BY DEF Init, Level, Range
  <2>2. Passed = {}
    BY DEF Init, Passed
  <2>3. QED
    BY <2>1, <2>2 DEF Bucket!Init
<1>2. IInv /\ [Next]_vars => [Bucket!Next]_Bucket!vars
  <2> SUFFICES ASSUME IInv, [Next]_vars PROVE Bucket!Next \/ UNCHANGED Bucket!vars
    OBVIOUS
  <2>1. CASE UNCHANGED vars
    <3>1. UNCHANGED <<visitors, tokens, since, stage, answer>>
      BY <2>1 DEF vars, bucketVars, requestVars
    <3>2. QED
      BY <3>1 DEF Bucket!vars, Level, Passed
  <2>2. CASE Tick
    BY <2>2, TickFills DEF Bucket!Next
  <2>3. ASSUME NEW r \in Requests, Arrive(r) PROVE Bucket!Next
    BY <2>3, ArrivePasses
  <2>4. ASSUME NEW r \in Requests, Close(r) \/ Handle(r) PROVE UNCHANGED Bucket!vars
    BY <2>4, RequestStutters
  <2>5. QED
    BY <2>1, <2>2, <2>3, <2>4 DEF Next
<1>3. QED
  BY <1>1, <1>2, Invariance, PTL DEF Spec, ImplementsRateLimit, Bucket!Spec
=============================================================================
