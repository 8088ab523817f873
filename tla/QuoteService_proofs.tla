------------------------ MODULE QuoteService_proofs ------------------------
(***************************************************************************)
(* The quote service answers every request with what was computed for it,  *)
(* fresh and in order, for every number of requests, every cache size and  *)
(* all times to live.                                                      *)
(***************************************************************************)
EXTENDS QuoteService, FiniteSetTheorems, TLAPS

USE TtlAssumption, MaxEntriesAssumption, NoSourceAssumption, AskAssumption, PoolTtlAssumption

-----------------------------------------------------------------------------
(* The inductive invariant *)

Begun == {c \in Requests : comp[c] # "none"}
Came == {r \in Requests : arrived[r] > 0}

\* The key a request is looked up under is fixed by what it asks for.
KeysInv == key = [r \in Requests |-> KeyOf(ask[r])]

\* An entry leads to a computation of its own key that may still be joined.
EntryInv ==
  \A k \in DOMAIN entry :
    k # NoKey /\ key[entry[k]] = k /\ comp[entry[k]] \in {"pending", "ok"}

\* Where a request is agrees with the promise it awaits. A value that is handed over is fresh.
PromiseInv ==
  \A r \in Requests :
    /\ status[r] = "new" => source[r] = NoSource /\ comp[r] = "none" /\ arrived[r] = 0
    /\ status[r] = "waiting" => source[r] # NoSource /\ comp[source[r]] = "pending"
    /\ status[r] = "served" => /\ source[r] # NoSource
                               /\ comp[source[r]] \in {"ok", "failed"}
                               /\ comp[source[r]] = "ok" => age[source[r]] < Ttl
    /\ status[r] = "done" => IF source[r] = NoSource THEN ~ask[r].wellFormed
                             ELSE comp[source[r]] \in {"ok", "failed"}

\* Computations are numbered as they start.
BirthInv == IsFiniteSet(Begun) /\ \A c \in Requests : born[c] <= Started

\* A request shares a computation only with requests of its own key.
ShareInv ==
  \A r \in Requests :
    /\ source[r] \in {NoSource, r} \/ (key[r] # NoKey /\ key[source[r]] = key[r])
    /\ comp[r] # "none" => ask[r].wellFormed

\* The stage of a computation bears out whose fault a failure is; a body may outlive its promise.
StageInv ==
  \A c \in Requests :
    /\ stage[c] = "none" <=> comp[c] = "none"
    /\ stage[c] \in {"base", "block", "pools", "quoting"} \/ comp[c] = "ok" => ~BadRequest(ask[c])
    /\ error[c] = "the caller's" => BadRequest(ask[c])

\* Whoever awaits a computation that has failed came before it did.
HistoryInv ==
  /\ IsFiniteSet(Came)
  /\ \A r \in Requests : arrived[r] <= Arrivals
  /\ \A r \in Requests : source[r] # NoSource /\ comp[source[r]] = "failed"
                           => arrived[r] <= failedAt[source[r]]

IInv ==
  /\ ServiceTypeOK
  /\ KeysInv /\ EntryInv /\ PromiseInv /\ BirthInv /\ NewestStored /\ ShareInv /\ StageInv
  /\ SharedWorkOwned /\ HistoryInv

-----------------------------------------------------------------------------
(* What an arrival does *)

\* A request that cannot be parsed is answered at once.
Refused(r) ==
  /\ ~ask[r].wellFormed
  /\ status' = [status EXCEPT ![r] = "done"]
  /\ UNCHANGED <<source, hit, ageMs, comp, age, born, entry, place, bodyVars, sharedVars>>

\* A computation starts for it. Its entry, if it has one, is the only new one.
Begins(r) ==
  /\ ask[r].wellFormed
  /\ comp' = [comp EXCEPT ![r] = "pending"]
  /\ born' = [born EXCEPT ![r] = Started + 1]
  /\ source' = [source EXCEPT ![r] = r]
  /\ status' = [status EXCEPT ![r] = "waiting"]
  /\ \A k \in DOMAIN entry' :
       \/ k = key[r] /\ k # NoKey /\ entry'[k] = r
       \/ k \in DOMAIN entry /\ entry'[k] = entry[k] /\ (k # key[r] \/ k = NoKey)
  /\ StartBody(r)
  /\ UNCHANGED <<ageMs, age>>

\* It is given the promise of an entry that is pending or still fresh.
Joins(r) ==
  /\ ask[r].wellFormed
  /\ key[r] # NoKey
  /\ Live(key[r])
  /\ source' = [source EXCEPT ![r] = entry[key[r]]]
  /\ status' = [status EXCEPT ![r] =
                  IF comp[entry[key[r]]] = "pending" THEN "waiting" ELSE "served"]
  /\ UNCHANGED <<ageMs, comp, age, born, entry, place, bodyVars, sharedVars>>

\* What is stored is the one new entry; eviction only removes others.
LEMMA StoreMoves ==
  ASSUME IInv, NEW r \in Requests, Store(r)
  PROVE  /\ entry' \in [DOMAIN entry' -> Requests] /\ place' \in [DOMAIN entry' -> Nat]
         /\ \A k \in DOMAIN entry' :
              \/ k = key[r] /\ entry'[k] = r
              \/ k \in DOMAIN entry /\ entry'[k] = entry[k] /\ k # key[r]
<1> DEFINE map == [k \in DOMAIN entry \union {key[r]} |-> IF k = key[r] THEN r ELSE entry[k]]
           at == [k \in DOMAIN map |-> IF k \in DOMAIN entry THEN place[k] ELSE Started + 1]
           kept == Kept(map, at)
<1>1. entry' = [k \in kept |-> map[k]] /\ place' = [k \in kept |-> at[k]]
  BY DEF Store
<1>2. kept \subseteq DOMAIN map
  BY DEF Kept
<1>3. Started \in Nat
  BY FS_CardinalityType DEF IInv, BirthInv, Begun, Started
<1>4. entry \in [DOMAIN entry -> Requests] /\ place \in [DOMAIN entry -> Nat]
  BY DEF IInv, ServiceTypeOK, TypeOK
<1>5. \A k \in DOMAIN map : /\ map[k] \in Requests /\ at[k] \in Nat
                           /\ \/ k = key[r] /\ map[k] = r
                              \/ k \in DOMAIN entry /\ map[k] = entry[k] /\ k # key[r]
  BY <1>3, <1>4
<1> HIDE DEF map, at, kept
<1>6. QED
  BY <1>1, <1>2, <1>5

\* An arrival is one of these, of a request that nothing has been done for yet.
Arrives(r) ==
  /\ status[r] = "new" /\ source[r] = NoSource /\ comp[r] = "none" /\ stage[r] = "none"
  /\ arrived[r] = 0
  /\ arrived' = [arrived EXCEPT ![r] = Arrivals + 1]
  /\ UNCHANGED <<ask, key, bypass, failedAt>>
  /\ Refused(r) \/ Begins(r) \/ Joins(r)

\* Every arrival is refused, begins a computation or joins one.
LEMMA ArriveMoves ==
  ASSUME IInv, NEW r \in Requests, Arrive(r)
  PROVE  Arrives(r)
<1> USE DEF inputVars, requestVars, compVars, mapVars, Arrives
<1>1. /\ status[r] = "new" /\ source[r] = NoSource /\ comp[r] = "none" /\ stage[r] = "none"
      /\ arrived[r] = 0
  BY DEF Arrive, IInv, PromiseInv, StageInv
<1>2. arrived' = [arrived EXCEPT ![r] = Arrivals + 1] /\ UNCHANGED <<ask, failedAt>>
  BY DEF Arrive
<1>3. CASE ~ask[r].wellFormed
  BY <1>1, <1>2, <1>3 DEF Arrive, Refused
<1>4. CASE ask[r].wellFormed /\ key[r] = NoKey
  <2>1. ComputeDirectly(r)
    BY <1>4 DEF Arrive
  <2>2. comp'[r] = "pending"
    BY <2>1 DEF ComputeDirectly, IInv, ServiceTypeOK, TypeOK
  <2>3. StartBody(r)
    BY <1>4, <2>2 DEF Arrive
  <2>4. Begins(r)
    BY <1>4, <2>1, <2>3 DEF ComputeDirectly, Begins
  <2>5. QED
    BY <1>1, <1>2, <2>1, <2>4 DEF ComputeDirectly
<1>5. CASE ask[r].wellFormed /\ key[r] # NoKey
  <2>1. Request(r)
    BY <1>5 DEF Arrive
  <2>2. CASE Live(key[r]) /\ Join(r)
    <3>1. UNCHANGED <<bodyVars, sharedVars>>
      BY <1>1, <1>5, <2>2 DEF Arrive, Join
    <3>2. Joins(r)
      BY <1>5, <2>1, <2>2, <3>1 DEF Joins, Join, Request
    <3>3. QED
      BY <1>1, <1>2, <2>1, <3>2 DEF Request
  <2>3. CASE Compute(r)
    <3>1. comp'[r] = "pending"
      BY <2>3 DEF Compute, IInv, ServiceTypeOK, TypeOK
    <3>2. StartBody(r)
      BY <1>5, <3>1 DEF Arrive
    <3>3. \A k \in DOMAIN entry' :
            \/ k = key[r] /\ k # NoKey /\ entry'[k] = r
            \/ k \in DOMAIN entry /\ entry'[k] = entry[k] /\ (k # key[r] \/ k = NoKey)
      BY <1>5, <2>3, StoreMoves DEF Compute
    <3>4. Begins(r)
      BY <1>5, <2>1, <2>3, <3>2, <3>3 DEF Begins, Compute, Request
    <3>5. QED
      BY <1>1, <1>2, <2>1, <3>4 DEF Request
  <2>4. QED
    BY <2>1, <2>2, <2>3 DEF Request
<1>6. QED
  BY <1>3, <1>4, <1>5

-----------------------------------------------------------------------------
(* What the other steps do *)

\* A computation's promise settles, and everyone who awaits it is served. A failed one leaves
\* no entry.
Settles(c) ==
  /\ comp[c] = "pending"
  /\ \/ comp' = [comp EXCEPT ![c] = "ok"] /\ age' = [age EXCEPT ![c] = 0] /\ failedAt' = failedAt
        /\ stage[c] = "quoting" /\ stage' = [stage EXCEPT ![c] = "end"]
     \/ comp' = [comp EXCEPT ![c] = "failed"] /\ age' = age /\ stage' = stage
        /\ failedAt' = [failedAt EXCEPT ![c] = Arrivals]
  /\ ServeAwaiting(c)
  /\ \A k \in DOMAIN entry' :
       k \in DOMAIN entry /\ entry'[k] = entry[k] /\ (comp'[c] = "failed" => entry[k] # c)
  /\ UNCHANGED <<ask, key, bypass, source, born, error, sharedVars, arrived>>

\* A computation that comes to its end serves those who await it, and loses its entry if it failed.
LEMMA SettlesMoves ==
  ASSUME IInv, NEW c \in Requests, Reject(c) \/ (Quote(c) /\ comp[c] = "pending")
  PROVE  Settles(c)
<1> USE DEF inputVars, compVars, mapVars, historyVars
<1>1. comp \in [Requests -> {"none", "pending", "ok", "failed"}]
  BY DEF IInv, ServiceTypeOK, TypeOK
<1>2. CASE Quote(c) /\ comp[c] = "pending"
  <2>1. comp'[c] = "ok"
    BY <1>1, <1>2 DEF Quote, ComputeSucceeds
  <2>2. QED
    BY <1>2, <2>1 DEF Quote, ComputeSucceeds, Settles
<1>3. CASE Reject(c)
  <2>1. \A k \in DOMAIN entry' : k \in DOMAIN entry /\ entry'[k] = entry[k] /\ entry[k] # c
    <3>1. \A k \in DOMAIN entry : entry[k] = c => k = key[c]
      BY DEF IInv, EntryInv
    <3>2. QED
      BY <1>3, <3>1 DEF Reject, ComputeFails
  <2>2. QED
    BY <1>3, <2>1 DEF Reject, ComputeFails, Settles
<1>4. QED
  BY <1>2, <1>3

\* The computations that are under way, and those past the check of what was asked.
UnderWay == {"network", "currencies", "base", "block", "pools", "quoting"}
Accepted == {"base", "block", "pools", "quoting"}

\* Bodies under way get on or end, and nothing that the cache knows of changes.
GetsOn ==
  /\ \A c \in Requests :
       /\ stage'[c] = stage[c] \/ (stage[c] \in UnderWay /\ stage'[c] \in UnderWay \union {"end"})
       /\ stage'[c] \in Accepted => stage[c] \in Accepted \/ ~BadRequest(ask[c])
       /\ error'[c] = error[c] \/ error'[c] = "ours" \/ BadRequest(ask[c])
  /\ UNCHANGED <<vars, ask, historyVars>>

\* Every step is an arrival, the end of a computation, an answer, a tick, or gets computations on.
LEMMA StepKinds ==
  ASSUME IInv, [ServiceNext]_serviceVars
  PROVE  \/ GetsOn \/ ServiceTick
         \/ \E r \in Requests : \/ Arrive(r) \/ Reject(r) \/ Answer(r)
                              \/ (Quote(r) /\ comp[r] = "pending")
<1> USE DEF UnderWay, Accepted
<1>1. stage \in [Requests -> Stages] /\ error \in [Requests -> {"none", "ours", "the caller's"}]
  BY DEF IInv, ServiceTypeOK, TypeOK
<1>2. CASE UNCHANGED serviceVars
  BY <1>2 DEF serviceVars, bodyVars, historyVars, GetsOn
<1>3. CASE VerifySucceeds \/ BaseSucceeds
  BY <1>1, <1>3 DEF VerifySucceeds, BaseSucceeds, MoveOn, GetsOn
<1>4. CASE VerifyFails \/ BaseFails
  <2>1. PICK s \in {"network", "base"} : FailAll(At(s), "ours")
    BY <1>4 DEF VerifyFails, BaseFails
  <2>2. UNCHANGED <<vars, ask, historyVars>>
    BY <1>4 DEF VerifyFails, BaseFails
  <2>3. QED
    BY <1>1, <2>1, <2>2 DEF FailAll, At, GetsOn
<1>5. ASSUME NEW kind \in {"v2", "cl"}, QuerySucceeds(kind) \/ QueryFails(kind) PROVE GetsOn
  BY <1>1, <1>5 DEF QuerySucceeds, QueryFails, MoveOn, FailAll, At, GetsOn
<1>6. ASSUME NEW c \in Requests, ResolveCurrencies(c) PROVE GetsOn
  BY <1>1, <1>6 DEF ResolveCurrencies, FailAll, GetsOn
<1>7. ASSUME NEW c \in Requests, GetBlockNumber(c) PROVE GetsOn
  BY <1>1, <1>7 DEF GetBlockNumber, GetsOn
<1>8. ASSUME NEW c \in Requests, OwnCallFails(c) PROVE GetsOn
  BY <1>1, <1>8 DEF OwnCallFails, FailAll, GetsOn, sharedVars
<1>9. ASSUME NEW c \in Requests, TimeOut(c) PROVE GetsOn
  BY <1>1, <1>9 DEF TimeOut, GetsOn
<1>10. ASSUME NEW c \in Requests, Quote(c), comp[c] # "pending" PROVE GetsOn
  <2>1. stage' = [stage EXCEPT ![c] = "end"] /\ stage[c] = "quoting" /\ UNCHANGED <<ask, error, historyVars>>
    BY <1>10 DEF Quote
  <2>2. UNCHANGED vars
    BY <1>10 DEF Quote
  <2>3. QED
    BY <1>1, <2>1, <2>2 DEF GetsOn
<1>11. CASE \E r \in Requests : Quote(r)
  BY <1>10, <1>11
<1>12. CASE \E r \in Requests : Arrive(r) \/ Reject(r) \/ Answer(r)
  BY <1>12
<1>13. QED
  BY <1>2, <1>3, <1>4, <1>5, <1>6, <1>7, <1>8, <1>9, <1>11, <1>12 DEF ServiceNext

-----------------------------------------------------------------------------
(* Types *)

\* The cache's own variables.
LEMMA CacheTypes ==
  ASSUME IInv, [ServiceNext]_serviceVars
  PROVE  TypeOK'
<1> USE DEF TypeOK, inputVars, requestVars, compVars, mapVars
<1>0. TypeOK
  BY DEF IInv, ServiceTypeOK
<1>1. CASE GetsOn
  BY <1>0, <1>1 DEF GetsOn, vars
<1>2. CASE ServiceTick
  BY <1>0, <1>2 DEF ServiceTick, Tick
<1>3. ASSUME NEW r \in Requests, Arrive(r) PROVE TypeOK'
  <2>1. Started \in Nat
    BY FS_CardinalityType DEF IInv, BirthInv, Begun, Started
  <2>2. CASE ~ask[r].wellFormed
    BY <1>0, <1>3, <2>2 DEF Arrive
  <2>3. CASE ComputeDirectly(r)
    BY <1>0, <2>1, <2>3 DEF ComputeDirectly
  <2>4. CASE Request(r)
    <3>1. hit' \in [Requests -> BOOLEAN] /\ ageMs' = ageMs
      BY <1>0, <2>4 DEF Request
    <3>2. CASE Live(key[r]) /\ Join(r)
      BY <1>0, <3>1, <3>2 DEF Join, Live
    <3>3. CASE Compute(r)
      <4>1. entry' \in [DOMAIN entry' -> Requests] /\ place' \in [DOMAIN entry' -> Nat]
        BY <3>3, StoreMoves DEF Compute
      <4>2. QED
        BY <1>0, <2>1, <3>1, <3>3, <4>1 DEF Compute
    <3>4. QED
      BY <2>4, <3>2, <3>3 DEF Request
  <2>5. QED
    BY <1>3, <2>2, <2>3, <2>4 DEF Arrive
<1>4. ASSUME NEW c \in Requests, Quote(c) PROVE TypeOK'
  BY <1>0, <1>4 DEF Quote, ComputeSucceeds, ServeAwaiting, vars
<1>5. ASSUME NEW c \in Requests, Reject(c) PROVE TypeOK'
  BY <1>0, <1>5 DEF Reject, ComputeFails, ServeAwaiting
<1>6. ASSUME NEW r \in Requests, Answer(r) PROVE TypeOK'
  BY <1>0, <1>6 DEF Answer, Deliver
<1>7. QED
  BY <1>1, <1>2, <1>3, <1>4, <1>5, <1>6, StepKinds

\* The stages, and whose fault it is.
LEMMA BodyTypes ==
  ASSUME IInv, [ServiceNext]_serviceVars
  PROVE  /\ ask' \in [Requests -> AskType]
         /\ stage' \in [Requests -> Stages] /\ rejected' \subseteq Requests
         /\ error' \in [Requests -> {"none", "ours", "the caller's"}]
         /\ arrived' \in [Requests -> Nat] /\ failedAt' \in [Requests -> Nat]
<1>0. /\ ask \in [Requests -> AskType]
      /\ stage \in [Requests -> Stages] /\ rejected \subseteq Requests
      /\ error \in [Requests -> {"none", "ours", "the caller's"}]
      /\ arrived \in [Requests -> Nat] /\ failedAt \in [Requests -> Nat]
      /\ Arrivals \in Nat
  BY FS_CardinalityType DEF IInv, ServiceTypeOK, HistoryInv, Came, Arrivals
<1>f. ASSUME NEW cs \in SUBSET Requests, NEW whose \in {"ours", "the caller's"}, FailAll(cs, whose)
      PROVE  /\ stage' \in [Requests -> Stages] /\ rejected' \subseteq Requests
             /\ error' \in [Requests -> {"none", "ours", "the caller's"}]
  BY <1>0, <1>f DEF FailAll, Stages
<1>a. \A s : At(s) \in SUBSET Requests
  BY DEF At
<1> USE DEF Stages, bodyVars, historyVars
<1>1. CASE UNCHANGED serviceVars \/ ServiceTick
  BY <1>0, <1>1 DEF serviceVars, ServiceTick
<1>2. CASE VerifySucceeds \/ BaseSucceeds
  BY <1>0, <1>2 DEF VerifySucceeds, BaseSucceeds, MoveOn
<1>3. CASE VerifyFails \/ BaseFails
  BY <1>0, <1>f, <1>a, <1>3 DEF VerifyFails, BaseFails
<1>4. ASSUME NEW kind \in {"v2", "cl"}, QuerySucceeds(kind) \/ QueryFails(kind)
      PROVE  /\ UNCHANGED <<ask, historyVars>>
             /\ stage' \in [Requests -> Stages] /\ rejected' \subseteq Requests
             /\ error' \in [Requests -> {"none", "ours", "the caller's"}]
  BY <1>0, <1>f, <1>a, <1>4 DEF QuerySucceeds, QueryFails, MoveOn
<1>5. ASSUME NEW r \in Requests, Arrive(r)
      PROVE  /\ UNCHANGED <<ask, rejected, error, failedAt>> /\ stage' \in [Requests -> Stages]
             /\ arrived' \in [Requests -> Nat]
  <2>1. UNCHANGED <<ask, failedAt>> /\ arrived' = [arrived EXCEPT ![r] = Arrivals + 1]
    BY <1>5, ArriveMoves DEF Arrives
  <2>2. UNCHANGED bodyVars \/ StartBody(r)
    BY <1>5 DEF Arrive
  <2>3. stage' \in [Requests -> Stages] /\ error' = error /\ rejected' = rejected
    BY <1>0, <2>2 DEF StartBody
  <2>4. arrived' \in [Requests -> Nat]
    <3>1. arrived \in [Requests -> Nat]
      BY <1>0
    <3>2. Arrivals \in Nat
      BY <1>0
    <3>3. Arrivals + 1 \in Nat
      BY <3>2
    <3>4. QED
      BY <2>1, <3>1, <3>3
  <2>5. QED
    BY <2>1, <2>3, <2>4
<1>6. ASSUME NEW c \in Requests, ResolveCurrencies(c) \/ GetBlockNumber(c)
      PROVE  /\ UNCHANGED <<ask, historyVars>>
             /\ stage' \in [Requests -> Stages] /\ rejected' \subseteq Requests
             /\ error' \in [Requests -> {"none", "ours", "the caller's"}]
  BY <1>0, <1>f, <1>6 DEF ResolveCurrencies, GetBlockNumber
<1>7. ASSUME NEW c \in Requests, OwnCallFails(c) \/ TimeOut(c)
      PROVE  /\ UNCHANGED <<ask, historyVars>>
             /\ stage' \in [Requests -> Stages] /\ rejected' \subseteq Requests
             /\ error' \in [Requests -> {"none", "ours", "the caller's"}]
  BY <1>0, <1>f, <1>7 DEF OwnCallFails, TimeOut
<1>8. ASSUME NEW c \in Requests, Quote(c) \/ Reject(c)
      PROVE  /\ UNCHANGED <<ask, error, arrived>> /\ stage' \in [Requests -> Stages]
             /\ rejected' \subseteq Requests /\ failedAt' \in [Requests -> Nat]
  BY <1>0, <1>8 DEF Quote, Reject
<1>9. ASSUME NEW r \in Requests, Answer(r) PROVE UNCHANGED <<ask, bodyVars, historyVars>>
  BY <1>9 DEF Answer
<1>10. QED
  BY <1>0, <1>1, <1>2, <1>3, <1>4, <1>5, <1>6, <1>7, <1>8, <1>9 DEF ServiceNext

\* The promises that computations share.
LEMMA SharedTypes ==
  ASSUME IInv, [ServiceNext]_serviceVars
  PROVE  /\ verified' \in {Unset} \union [state : {"pending", "ok"}, by : Requests]
         /\ baseTokens' \in {Unset} \union [state : {"pending", "ok"}, by : Requests]
         /\ list' \in [age : 0 .. PoolTtl + 1, left : SUBSET {"v2", "cl"}]
<1>0. /\ verified \in {Unset} \union [state : {"pending", "ok"}, by : Requests]
      /\ baseTokens \in {Unset} \union [state : {"pending", "ok"}, by : Requests]
      /\ list \in [age : 0 .. PoolTtl + 1, left : SUBSET {"v2", "cl"}]
  BY DEF IInv, ServiceTypeOK
<1>1. Unset.state = "unset"
  BY DEF Unset
<1>2. CASE \/ UNCHANGED serviceVars
           \/ \E c \in Requests : OwnCallFails(c) \/ TimeOut(c) \/ Quote(c) \/ Reject(c) \/ Answer(c)
  BY <1>0, <1>2 DEF serviceVars, sharedVars, OwnCallFails, TimeOut, Quote, Reject, Answer
<1>3. CASE VerifySucceeds \/ VerifyFails
  <2>1. UNCHANGED <<baseTokens, list>>
    BY <1>3 DEF VerifySucceeds, VerifyFails
  <2>2. verified' = Unset \/ (verified # Unset /\ verified' = [verified EXCEPT !.state = "ok"])
    BY <1>1, <1>3 DEF VerifySucceeds, VerifyFails
  <2>3. QED
    BY <1>0, <2>1, <2>2
<1>4. CASE BaseSucceeds \/ BaseFails
  <2>1. UNCHANGED <<verified, list>>
    BY <1>4 DEF BaseSucceeds, BaseFails
  <2>2. baseTokens' = Unset \/ (baseTokens # Unset /\ baseTokens' = [baseTokens EXCEPT !.state = "ok"])
    BY <1>1, <1>4 DEF BaseSucceeds, BaseFails
  <2>3. QED
    BY <1>0, <2>1, <2>2
<1>5. CASE ServiceTick
  BY <1>0, <1>5 DEF ServiceTick
<1>6. ASSUME NEW kind \in {"v2", "cl"}, QuerySucceeds(kind) \/ QueryFails(kind)
      PROVE  /\ UNCHANGED <<verified, baseTokens>>
             /\ list' \in [age : 0 .. PoolTtl + 1, left : SUBSET {"v2", "cl"}]
  BY <1>0, <1>6 DEF QuerySucceeds, QueryFails
<1>7. ASSUME NEW c \in Requests, GetBlockNumber(c)
      PROVE  /\ UNCHANGED <<verified, baseTokens>>
             /\ list' \in [age : 0 .. PoolTtl + 1, left : SUBSET {"v2", "cl"}]
  BY <1>0, <1>7 DEF GetBlockNumber
<1>8. ASSUME NEW c \in Requests PROVE Pending(c) \in [state : {"pending", "ok"}, by : Requests]
  BY DEF Pending
<1>9. ASSUME NEW r \in Requests, Arrive(r)
      PROVE  UNCHANGED <<baseTokens, list>> /\ verified' \in {verified, Pending(r)}
  BY <1>9 DEF Arrive, sharedVars, StartBody
<1>10. ASSUME NEW c \in Requests, ResolveCurrencies(c)
      PROVE  UNCHANGED <<verified, list>> /\ baseTokens' \in {baseTokens, Pending(c)}
  BY <1>10 DEF ResolveCurrencies
<1>11. QED
  BY <1>0, <1>2, <1>3, <1>4, <1>5, <1>6, <1>7, <1>8, <1>9, <1>10 DEF ServiceNext

\* Every step keeps the types.
LEMMA TypesPreserved ==
  ASSUME IInv, [ServiceNext]_serviceVars
  PROVE  ServiceTypeOK'
BY CacheTypes, BodyTypes, SharedTypes DEF ServiceTypeOK
-----------------------------------------------------------------------------
(* Each part of the invariant is preserved *)

\* Every step is of one of these kinds.
LEMMA Moves ==
  ASSUME IInv, [ServiceNext]_serviceVars
  PROVE  \/ GetsOn \/ ServiceTick
         \/ \E r \in Requests : Arrives(r) \/ Settles(r) \/ Answer(r)
BY StepKinds, ArriveMoves, SettlesMoves

\* An arrival that starts a computation is the only step that starts one.
LEMMA CountOfComputations ==
  ASSUME IInv, [ServiceNext]_serviceVars
  PROVE  /\ Started \in Nat /\ IsFiniteSet(Begun')
         /\ \A r \in Requests : Arrives(r) /\ Begins(r) => Started' = Started + 1
         /\ (\A r \in Requests : ~(Arrives(r) /\ Begins(r))) => Started' = Started
<1>0. Started = Cardinality(Begun) /\ Started' = Cardinality(Begun')
  BY DEF Started, Begun
<1>1. IsFiniteSet(Begun) /\ Started \in Nat
  BY <1>0, FS_CardinalityType DEF IInv, BirthInv
<1>2. comp \in [Requests -> {"none", "pending", "ok", "failed"}]
  BY DEF IInv, ServiceTypeOK, TypeOK
<1>3. ASSUME NEW r \in Requests, Arrives(r), Begins(r)
      PROVE  IsFiniteSet(Begun') /\ Started' = Started + 1
  <2>1. Begun' = Begun \union {r} /\ r \notin Begun
    BY <1>2, <1>3 DEF Arrives, Begins, Begun
  <2>2. QED
    BY <1>0, <1>1, <2>1, FS_AddElement
<1>4. ASSUME \A r \in Requests : ~(Arrives(r) /\ Begins(r)) PROVE Begun' = Begun
  <2>1. CASE UNCHANGED comp
    BY <2>1 DEF Begun
  <2>2. ASSUME NEW c \in Requests, Settles(c) PROVE Begun' = Begun
    BY <1>2, <2>2 DEF Settles, Begun
  <2>3. UNCHANGED comp \/ \E c \in Requests : Settles(c)
    BY <1>4, Moves DEF GetsOn, ServiceTick, Tick, Arrives, Refused, Joins, Answer, Deliver, vars,
                       compVars, mapVars
  <2>4. QED
    BY <2>1, <2>2, <2>3
<1>5. QED
  BY <1>0, <1>1, <1>3, <1>4

\* An arrival is the only step that adds one.
LEMMA CountOfArrivals ==
  ASSUME IInv, [ServiceNext]_serviceVars
  PROVE  /\ Arrivals \in Nat /\ IsFiniteSet(Came')
         /\ \A r \in Requests : Arrives(r) => Arrivals' = Arrivals + 1
         /\ UNCHANGED arrived => Arrivals' = Arrivals
<1>0. Arrivals = Cardinality(Came) /\ Arrivals' = Cardinality(Came')
  BY DEF Arrivals, Came
<1>1. IsFiniteSet(Came) /\ Arrivals \in Nat
  BY <1>0, FS_CardinalityType DEF IInv, HistoryInv
<1>2. arrived \in [Requests -> Nat]
  BY DEF IInv, ServiceTypeOK
<1>3. ASSUME NEW r \in Requests, Arrives(r)
      PROVE  IsFiniteSet(Came') /\ Arrivals' = Arrivals + 1
  <2>1. arrived[r] = 0 /\ arrived' = [arrived EXCEPT ![r] = Arrivals + 1]
    BY <1>3 DEF Arrives
  <2>2. Arrivals + 1 > 0
    BY <1>1
  <2>3. Came' = Came \union {r} /\ r \notin Came
    BY <1>1, <1>2, <2>1, <2>2 DEF Came
  <2>4. QED
    BY <1>0, <1>1, <2>3, FS_AddElement
<1>4. UNCHANGED arrived => Came' = Came
  BY DEF Came
<1>5. UNCHANGED arrived \/ \E r \in Requests : Arrives(r)
  BY Moves DEF GetsOn, ServiceTick, Settles, Answer, historyVars
<1>6. QED
  BY <1>0, <1>1, <1>3, <1>4, <1>5

\* What requests ask for, and so their keys, stays.
LEMMA KeysPreserved ==
  ASSUME IInv, [ServiceNext]_serviceVars
  PROVE  UNCHANGED <<ask, key>> /\ KeysInv'
<1>1. UNCHANGED <<ask, key>>
  BY Moves DEF GetsOn, ServiceTick, Tick, Arrives, Settles, Answer, Deliver, vars, inputVars
<1>2. QED
  BY <1>1 DEF IInv, KeysInv

\* A computation leads on from its own key until it fails.
LEMMA EntriesPreserved ==
  ASSUME IInv, [ServiceNext]_serviceVars
  PROVE  EntryInv'
<1>0. /\ EntryInv /\ comp \in [Requests -> {"none", "pending", "ok", "failed"}]
      /\ entry \in [DOMAIN entry -> Requests]
  BY DEF IInv, ServiceTypeOK, TypeOK
<1>1. UNCHANGED key
  BY KeysPreserved
<1>2. CASE UNCHANGED <<comp, entry>>
  BY <1>0, <1>1, <1>2 DEF EntryInv
<1>3. ASSUME NEW r \in Requests, Arrives(r), Begins(r) PROVE EntryInv'
  BY <1>0, <1>1, <1>3 DEF EntryInv, Arrives, Begins
<1>4. ASSUME NEW c \in Requests, Settles(c) PROVE EntryInv'
  BY <1>0, <1>1, <1>4 DEF EntryInv, Settles
<1>5. QED
  BY <1>2, <1>3, <1>4, Moves DEF GetsOn, ServiceTick, Tick, Arrives, Refused, Joins, Answer, Deliver,
                                 vars, compVars, mapVars

\* The promise a request awaits settles when the request is served, and not before.
LEMMA PromisesPreserved ==
  ASSUME IInv, [ServiceNext]_serviceVars
  PROVE  PromiseInv'
<1>0. /\ PromiseInv
      /\ status \in [Requests -> {"new", "waiting", "served", "done"}]
      /\ source \in [Requests -> Requests \union {NoSource}]
      /\ comp \in [Requests -> {"none", "pending", "ok", "failed"}]
      /\ age \in [Requests -> 0 .. Ttl]
      /\ entry \in [DOMAIN entry -> Requests]
      /\ arrived \in [Requests -> Nat]
  BY DEF IInv, ServiceTypeOK, TypeOK
<1>1. UNCHANGED ask
  BY KeysPreserved
<1>2. CASE GetsOn
  BY <1>0, <1>1, <1>2 DEF PromiseInv, GetsOn, vars, requestVars, compVars, historyVars
<1>3. CASE ServiceTick
  BY <1>0, <1>1, <1>3 DEF PromiseInv, ServiceTick, Tick, requestVars, historyVars
<1>4. ASSUME NEW r \in Requests, Arrives(r) PROVE PromiseInv'
  <2> USE DEF PromiseInv, Arrives
  <2>1. \A q \in Requests : q # r => arrived'[q] = arrived[q]
    BY <1>0, <1>4
  <2>2. CASE Refused(r)
    BY <1>0, <1>1, <1>4, <2>1, <2>2 DEF Refused
  <2>3. CASE Begins(r)
    BY <1>0, <1>1, <1>4, <2>1, <2>3 DEF Begins
  <2>4. CASE Joins(r)
    <3> DEFINE c == entry[key[r]]
    <3>1. c \in Requests /\ comp[c] \in {"pending", "ok"}
      BY <1>0, <2>4 DEF IInv, EntryInv, Joins, Live
    <3>2. comp[c] = "ok" => age[c] < Ttl
      BY <1>0, <2>4, <3>1 DEF Joins, Live, Expired
    <3>3. /\ source' = [source EXCEPT ![r] = c]
          /\ status' = [status EXCEPT ![r] = IF comp[c] = "pending" THEN "waiting" ELSE "served"]
          /\ UNCHANGED <<comp, age>>
      BY <2>4 DEF Joins
    <3> HIDE DEF c
    <3>4. QED
      BY <1>0, <1>1, <1>4, <2>1, <3>1, <3>2, <3>3
  <2>5. QED
    BY <1>4, <2>2, <2>3, <2>4
<1>5. ASSUME NEW c \in Requests, Settles(c) PROVE PromiseInv'
  BY <1>0, <1>1, <1>5 DEF PromiseInv, Settles, ServeAwaiting, Awaiting
<1>6. ASSUME NEW r \in Requests, Answer(r) PROVE PromiseInv'
  BY <1>0, <1>1, <1>6 DEF PromiseInv, Answer, Deliver, compVars, historyVars
<1>7. QED
  BY <1>2, <1>3, <1>4, <1>5, <1>6, Moves

\* No computation has a number above the count.
LEMMA BirthsPreserved ==
  ASSUME IInv, [ServiceNext]_serviceVars
  PROVE  BirthInv'
<1>0. BirthInv /\ born \in [Requests -> Nat]
  BY DEF IInv, ServiceTypeOK, TypeOK
<1>1. Started \in Nat /\ IsFiniteSet(Begun')
  BY CountOfComputations
<1>2. ASSUME NEW r \in Requests, Arrives(r), Begins(r) PROVE BirthInv'
  <2>1. Started' = Started + 1
    BY <1>2, CountOfComputations
  <2>2. QED
    BY <1>0, <1>1, <1>2, <2>1 DEF BirthInv, Begins
<1>3. CASE \A r \in Requests : ~(Arrives(r) /\ Begins(r))
  <2>1. Started' = Started
    BY <1>3, CountOfComputations
  <2>2. UNCHANGED born
    BY <1>3, Moves DEF GetsOn, ServiceTick, Tick, Arrives, Refused, Joins, Settles, Answer, Deliver,
                       vars, compVars
  <2>3. QED
    BY <1>0, <1>1, <2>1, <2>2 DEF BirthInv
<1>4. QED
  BY <1>2, <1>3

\* A new entry leads to the newest computation of all.
LEMMA NewestPreserved ==
  ASSUME IInv, [ServiceNext]_serviceVars
  PROVE  NewestStored'
<1>0. /\ NewestStored /\ EntryInv /\ BirthInv
      /\ comp \in [Requests -> {"none", "pending", "ok", "failed"}]
      /\ entry \in [DOMAIN entry -> Requests]
      /\ born \in [Requests -> Nat]
  BY DEF IInv, ServiceTypeOK, TypeOK
<1>1. UNCHANGED key
  BY KeysPreserved
<1>2. CASE UNCHANGED <<comp, born, entry>>
  BY <1>0, <1>1, <1>2 DEF NewestStored
<1>3. ASSUME NEW r \in Requests, Arrives(r), Begins(r) PROVE NewestStored'
  <2>1. Started \in Nat
    BY CountOfComputations
  <2>2. /\ born' = [born EXCEPT ![r] = Started + 1]
        /\ comp' = [comp EXCEPT ![r] = "pending"]
        /\ comp[r] = "none"
    BY <1>3 DEF Arrives, Begins
  <2>3. \A c \in Requests : born'[c] <= born'[r]
    BY <1>0, <2>1, <2>2 DEF BirthInv
  <2>4. SUFFICES ASSUME NEW k \in DOMAIN entry', NEW c \in Requests, comp'[c] # "none", key[c] = k
                 PROVE  born'[c] <= born'[entry'[k]]
    BY <1>1 DEF NewestStored
  <2>5. CASE entry'[k] = r
    BY <2>3, <2>5
  <2>6. CASE k \in DOMAIN entry /\ entry'[k] = entry[k] /\ k # key[r]
    <3>1. c # r /\ comp[c] # "none"
      BY <2>2, <2>4, <2>6
    <3>2. born[c] <= born[entry[k]]
      BY <1>0, <2>4, <2>6, <3>1 DEF NewestStored
    <3>3. entry[k] \in Requests /\ entry[k] # r
      BY <1>0, <2>2, <2>6 DEF EntryInv
    <3>4. QED
      BY <1>0, <2>2, <2>6, <3>1, <3>2, <3>3
  <2>7. QED
    BY <1>0, <1>3, <2>4, <2>5, <2>6 DEF Begins, EntryInv
<1>4. ASSUME NEW c \in Requests, Settles(c) PROVE NewestStored'
  BY <1>0, <1>1, <1>4 DEF NewestStored, Settles
<1>5. QED
  BY <1>2, <1>3, <1>4, Moves DEF GetsOn, ServiceTick, Tick, Arrives, Refused, Joins, Answer, Deliver,
                                 vars, compVars, mapVars

\* Whoever joins an entry has its key.
LEMMA SharesPreserved ==
  ASSUME IInv, [ServiceNext]_serviceVars
  PROVE  ShareInv'
<1>0. /\ ShareInv
      /\ comp \in [Requests -> {"none", "pending", "ok", "failed"}]
      /\ source \in [Requests -> Requests \union {NoSource}]
  BY DEF IInv, ServiceTypeOK, TypeOK
<1>1. UNCHANGED <<ask, key>>
  BY KeysPreserved
<1>2. CASE UNCHANGED <<source, comp>>
  BY <1>0, <1>1, <1>2 DEF ShareInv
<1>3. ASSUME NEW r \in Requests, Arrives(r), Begins(r) PROVE ShareInv'
  BY <1>0, <1>1, <1>3 DEF ShareInv, Begins
<1>4. ASSUME NEW r \in Requests, Joins(r) PROVE ShareInv'
  <2>1. key[entry[key[r]]] = key[r] /\ key[r] # NoKey
    BY <1>4 DEF IInv, EntryInv, Joins, Live
  <2>2. QED
    BY <1>0, <1>1, <1>4, <2>1 DEF ShareInv, Joins
<1>5. ASSUME NEW c \in Requests, Settles(c) PROVE ShareInv'
  BY <1>0, <1>1, <1>5 DEF ShareInv, Settles
<1>6. QED
  BY <1>2, <1>3, <1>4, <1>5, Moves DEF GetsOn, ServiceTick, Tick, Arrives, Refused, Answer, Deliver,
                                       vars, requestVars, compVars

\* A computation is past the check of what was asked only when that was in order.
LEMMA StagesPreserved ==
  ASSUME IInv, [ServiceNext]_serviceVars
  PROVE  StageInv'
<1>0. /\ StageInv
      /\ comp \in [Requests -> {"none", "pending", "ok", "failed"}]
      /\ stage \in [Requests -> Stages]
  BY DEF IInv, ServiceTypeOK, TypeOK
<1>1. UNCHANGED ask
  BY KeysPreserved
<1> USE DEF BadRequest, PermitOf
<1>2. CASE UNCHANGED <<stage, error, comp>>
  BY <1>0, <1>1, <1>2 DEF StageInv
<1>3. CASE GetsOn
  BY <1>0, <1>1, <1>3 DEF StageInv, GetsOn, UnderWay, Accepted, vars, compVars
<1>4. ASSUME NEW r \in Requests, Arrives(r), Begins(r) PROVE StageInv'
  <2>1. /\ error' = error /\ comp' = [comp EXCEPT ![r] = "pending"]
        /\ stage' \in {[stage EXCEPT ![r] = "currencies"], [stage EXCEPT ![r] = "network"]}
        /\ comp[r] = "none"
    BY <1>4 DEF Arrives, Begins, StartBody
  <2>2. QED
    BY <1>0, <1>1, <2>1 DEF StageInv
<1>5. ASSUME NEW c \in Requests, Settles(c) PROVE StageInv'
  BY <1>0, <1>1, <1>5 DEF StageInv, Settles
<1>6. QED
  BY <1>2, <1>3, <1>4, <1>5, Moves DEF ServiceTick, Tick, Arrives, Refused, Joins, Answer, Deliver,
                                       bodyVars, compVars

\* A computation fails after all who await it have arrived.
LEMMA HistoryPreserved ==
  ASSUME IInv, [ServiceNext]_serviceVars
  PROVE  HistoryInv'
<1>0. /\ HistoryInv
      /\ comp \in [Requests -> {"none", "pending", "ok", "failed"}]
      /\ source \in [Requests -> Requests \union {NoSource}]
      /\ arrived \in [Requests -> Nat] /\ failedAt \in [Requests -> Nat]
  BY DEF IInv, ServiceTypeOK, TypeOK
<1>1. Arrivals \in Nat /\ IsFiniteSet(Came')
  BY CountOfArrivals
<1>2. CASE UNCHANGED <<source, comp, arrived, failedAt>>
  <2>1. Arrivals' = Arrivals
    BY <1>2, CountOfArrivals
  <2>2. QED
    BY <1>0, <1>1, <1>2, <2>1 DEF HistoryInv
<1>3. ASSUME NEW r \in Requests, Arrives(r) PROVE HistoryInv'
  <2>1. /\ arrived' = [arrived EXCEPT ![r] = Arrivals + 1] /\ Arrivals' = Arrivals + 1
        /\ comp[r] = "none" /\ source[r] = NoSource /\ failedAt' = failedAt
    BY <1>3, CountOfArrivals DEF Arrives
  <2>2. \A q \in Requests : arrived'[q] <= Arrivals'
    BY <1>0, <1>1, <2>1 DEF HistoryInv
  <2>3. \A q \in Requests : q # r => source'[q] = source[q]
    BY <1>0, <1>3 DEF Arrives, Refused, Begins, Joins
  <2>4. \A c \in Requests : comp'[c] = "failed" => comp[c] = "failed"
    BY <1>0, <1>3 DEF Arrives, Refused, Begins, Joins
  <2>5. source'[r] # NoSource => comp'[source'[r]] # "failed"
    <3>1. CASE Refused(r)
      BY <2>1, <3>1 DEF Refused
    <3>2. CASE Begins(r)
      BY <1>0, <3>2 DEF Begins
    <3>3. CASE Joins(r)
      BY <1>0, <3>3 DEF Joins, Live, IInv, EntryInv
    <3>4. QED
      BY <1>3, <3>1, <3>2, <3>3 DEF Arrives
  <2>6. \A q \in Requests : source'[q] # NoSource /\ comp'[source'[q]] = "failed"
                              => arrived'[q] <= failedAt'[source'[q]]
    BY <1>0, <2>1, <2>3, <2>4, <2>5 DEF HistoryInv
  <2>7. QED
    BY <1>1, <2>2, <2>6 DEF HistoryInv
<1>4. ASSUME NEW c \in Requests, Settles(c) PROVE HistoryInv'
  <2>1. Arrivals' = Arrivals /\ arrived' = arrived /\ source' = source
    BY <1>4, CountOfArrivals DEF Settles
  <2>2. \A d \in Requests : d # c => comp'[d] = comp[d] /\ failedAt'[d] = failedAt[d]
    BY <1>0, <1>4 DEF Settles
  <2>3. comp'[c] = "failed" => failedAt'[c] = Arrivals
    BY <1>0, <1>4 DEF Settles
  <2>4. QED
    BY <1>0, <1>1, <2>1, <2>2, <2>3 DEF HistoryInv
<1>5. QED
  BY <1>2, <1>3, <1>4, Moves DEF GetsOn, ServiceTick, Tick, Answer, Deliver, vars, requestVars,
                                 compVars, historyVars

\* A promise that is shared ends together with every body that awaits it, its starter's included.
LEMMA SharedWorkPreserved ==
  ASSUME IInv, [ServiceNext]_serviceVars
  PROVE  SharedWorkOwned'
<1>0. /\ SharedWorkOwned
      /\ stage \in [Requests -> Stages]
      /\ verified \in {Unset} \union [state : {"pending", "ok"}, by : Requests]
      /\ baseTokens \in {Unset} \union [state : {"pending", "ok"}, by : Requests]
      /\ list \in [age : 0 .. PoolTtl + 1, left : SUBSET {"v2", "cl"}]
  BY DEF IInv, ServiceTypeOK
<1> USE DEF SharedWorkOwned, At
<1>1. Unset.state = "unset"
  BY DEF Unset
<1>2. ASSUME NEW c \in Requests
      PROVE  Pending(c).state = "pending" /\ Pending(c).by = c
  BY DEF Pending
<1>3. /\ SharedWorkOwned
      /\ stage \in [Requests -> Stages]
      /\ verified.state = "pending" => verified.by \in Requests
      /\ baseTokens.state = "pending" => baseTokens.by \in Requests
  BY <1>0, <1>1
<1>4. CASE UNCHANGED <<stage, sharedVars>>
  BY <1>0, <1>4 DEF sharedVars
<1>5. CASE VerifySucceeds
  BY <1>3, <1>5 DEF VerifySucceeds, MoveOn
<1>6. CASE VerifyFails
  BY <1>0, <1>1, <1>6 DEF VerifyFails, FailAll
<1>7. CASE BaseSucceeds
  BY <1>3, <1>7 DEF BaseSucceeds, MoveOn
<1>8. CASE BaseFails
  BY <1>0, <1>1, <1>8 DEF BaseFails, FailAll
<1>9. CASE ServiceTick
  BY <1>0, <1>9 DEF ServiceTick, bodyVars
<1>10. ASSUME NEW kind \in {"v2", "cl"}, QuerySucceeds(kind) PROVE SharedWorkOwned'
  <2>1. /\ UNCHANGED <<verified, baseTokens>>
        /\ \A c \in Requests : stage'[c] # stage[c] => stage[c] = "pools" /\ stage'[c] = "quoting"
    BY <1>3, <1>10 DEF QuerySucceeds, MoveOn
  <2>2. list'.left = {} => \A c \in Requests : stage'[c] # "pools"
    BY <1>0, <1>10 DEF QuerySucceeds, MoveOn
  <2>3. (\E c \in Requests : stage'[c] = "pools") => list'.left # {}
    BY <2>2
  <2>4. QED
    BY <1>3, <2>1, <2>3
<1>11. ASSUME NEW kind \in {"v2", "cl"}, QueryFails(kind) PROVE SharedWorkOwned'
  BY <1>3, <1>11 DEF QueryFails, FailAll
<1>12. ASSUME NEW r \in Requests, Arrive(r) PROVE SharedWorkOwned'
  <2>1. stage[r] = "none"
    BY <1>12, ArriveMoves DEF Arrives
  <2>2. CASE StartBody(r)
    BY <1>0, <1>1, <1>2, <2>1, <2>2 DEF StartBody
  <2>3. QED
    BY <1>4, <1>12, <2>2 DEF Arrive, bodyVars
<1>13. ASSUME NEW c \in Requests, ResolveCurrencies(c) PROVE SharedWorkOwned'
  <2>1. /\ UNCHANGED <<verified, list>> /\ stage[c] = "currencies"
        /\ \/ stage' = [stage EXCEPT ![c] = "end"] /\ UNCHANGED baseTokens
           \/ /\ stage' = [stage EXCEPT ![c] = IF baseTokens.state = "ok" THEN "block" ELSE "base"]
              /\ baseTokens' = IF baseTokens.state = "unset" THEN Pending(c) ELSE baseTokens
    BY <1>3, <1>13 DEF ResolveCurrencies, FailAll
  <2>2. baseTokens.state \in {"unset", "pending", "ok"}
    BY <1>0, <1>1
  <2>3. QED
    BY <1>3, <1>2, <2>1, <2>2
<1>14. ASSUME NEW c \in Requests, GetBlockNumber(c) PROVE SharedWorkOwned'
  <2>1. /\ UNCHANGED <<verified, baseTokens>>
        /\ stage[c] = "block"
        /\ \A d \in Requests : d # c => stage'[d] = stage[d]
        /\ stage'[c] \in {"pools", "quoting"}
    BY <1>3, <1>14 DEF GetBlockNumber
  <2>2. stage'[c] = "pools" => list'.left # {}
    BY <1>0, <1>14 DEF GetBlockNumber
  <2>3. list.left # {} => list'.left # {}
    BY <1>0, <1>14 DEF GetBlockNumber
  <2>4. \A d \in Requests : stage'[d] = stage[d] \/ stage'[d] \in {"pools", "quoting"}
    BY <2>1
  <2>5. /\ At("network")' # {} => verified'.state = "pending"
        /\ At("base")' # {} => baseTokens'.state = "pending"
    BY <1>3, <2>1, <2>4
  <2>6. At("pools")' # {} => list'.left # {}
    BY <1>3, <2>1, <2>2, <2>3
  <2>7. /\ verified.state = "pending" => verified.by # c /\ stage'[verified.by] = "network"
        /\ baseTokens.state = "pending" => baseTokens.by # c /\ stage'[baseTokens.by] = "base"
    BY <1>3, <2>1
  <2>8. QED
    BY <2>1, <2>5, <2>6, <2>7
<1>15. ASSUME NEW c \in Requests, Quote(c) \/ Reject(c) PROVE SharedWorkOwned'
  BY <1>3, <1>15 DEF Quote, Reject, sharedVars
<1>16. ASSUME NEW c \in Requests, OwnCallFails(c) PROVE SharedWorkOwned'
  BY <1>3, <1>16 DEF OwnCallFails, FailAll, sharedVars
<1>17. ASSUME NEW c \in Requests, TimeOut(c) PROVE SharedWorkOwned'
  BY <1>4, <1>17 DEF TimeOut
<1>18. ASSUME NEW r \in Requests, Answer(r) PROVE SharedWorkOwned'
  BY <1>4, <1>18 DEF Answer, bodyVars
<1>19. CASE UNCHANGED serviceVars
  BY <1>4, <1>19 DEF serviceVars, bodyVars
<1>20. QED
  BY <1>5, <1>6, <1>7, <1>8, <1>9, <1>10, <1>11, <1>12, <1>13, <1>14, <1>15, <1>16, <1>17, <1>18, <1>19
     DEF ServiceNext

-----------------------------------------------------------------------------
(* The theorems *)

\* Nothing has been asked, and nothing is cached.
LEMMA ServiceStarts ==
  ASSUME ServiceInit
  PROVE  IInv
<1> USE DEF ServiceInit, Init
<1>0. \A k : k \notin DOMAIN entry
  OBVIOUS
<1>1. ServiceTypeOK
  BY <1>0 DEF ServiceTypeOK, TypeOK, Stages
<1>2. Begun = {} /\ Came = {}
  BY DEF Begun, Came
<1>3. IsFiniteSet(Begun) /\ IsFiniteSet(Came) /\ Started = 0 /\ Arrivals = 0
  BY <1>2, FS_EmptySet DEF Begun, Came, Started, Arrivals
<1>4. BirthInv /\ HistoryInv
  BY <1>3 DEF BirthInv, HistoryInv
<1>5. EntryInv /\ NewestStored
  BY <1>0 DEF EntryInv, NewestStored
<1>6. SharedWorkOwned
  BY DEF SharedWorkOwned, At, Unset
<1>7. KeysInv /\ PromiseInv /\ ShareInv /\ StageInv
  BY DEF KeysInv, PromiseInv, ShareInv, StageInv
<1>8. QED
  BY <1>1, <1>4, <1>5, <1>6, <1>7 DEF IInv

\* The invariant holds in every state.
THEOREM ServiceInvariant == ServiceSpec => []IInv
<1>1. IInv /\ [ServiceNext]_serviceVars => IInv'
  <2> SUFFICES ASSUME IInv, [ServiceNext]_serviceVars PROVE IInv'
    OBVIOUS
  <2>1. ServiceTypeOK' /\ KeysInv' /\ EntryInv' /\ PromiseInv'
    BY TypesPreserved, KeysPreserved, EntriesPreserved, PromisesPreserved
  <2>2. BirthInv' /\ NewestStored' /\ ShareInv' /\ StageInv'
    BY BirthsPreserved, NewestPreserved, SharesPreserved, StagesPreserved
  <2>3. SharedWorkOwned' /\ HistoryInv'
    BY SharedWorkPreserved, HistoryPreserved
  <2>4. QED
    BY <2>1, <2>2, <2>3 DEF IInv
<1>2. QED
  BY <1>1, ServiceStarts, PTL DEF ServiceSpec

\* Every variable of the cache and the service keeps to its type.
THEOREM ServiceTypeCorrect == ServiceSpec => []ServiceTypeOK
<1>1. IInv => ServiceTypeOK
  BY DEF IInv
<1>2. QED
  BY <1>1, ServiceInvariant, PTL

\* resolveWithOutcome hands over no value that is as old as the time to live, whether it was found,
\* awaited or computed, however many entries are evicted or replaced meanwhile.
THEOREM ValuesFresh == ServiceSpec => []NoStaleValue
<1>1. IInv => NoStaleValue
  BY DEF IInv, PromiseInv, NoStaleValue
<1>2. QED
  BY <1>1, ServiceInvariant, PTL

\* A computation that settles late never takes the entry back from the one that replaced it.
THEOREM NewestKept == ServiceSpec => []NewestStored
<1>1. IInv => NewestStored
  BY DEF IInv
<1>2. QED
  BY <1>1, ServiceInvariant, PTL

\* handleQuote answers what was asked: requests that share a computation agree in all that its
\* response depends on, a permit is used for its own request only, and 400 is for those who ask badly.
THEOREM AnswersOwn == ServiceSpec => []OwnAnswer
<1>1. IInv => OwnAnswer
  <2> SUFFICES ASSUME IInv, NEW r \in Requests, status[r] = "done"
               PROVE  /\ source[r] # NoSource =>
                           LET c == source[r]
                           IN  /\ ask[c].swap = ask[r].swap /\ ask[c].recipient = ask[r].recipient
                               /\ PermitOf(ask[c]) = PermitOf(ask[r])
                               /\ PermitOf(ask[c]) # "none" => c = r
                      /\ Status(r) = "answer" => ask[r].wellFormed /\ ~BadRequest(ask[r])
                      /\ Status(r) = "bad request" => ~ask[r].wellFormed \/ BadRequest(ask[r])
    BY DEF OwnAnswer
  <2>1. CASE source[r] = NoSource
    <3>1. Status(r) = "bad request" /\ ~ask[r].wellFormed
      BY <2>1 DEF Status, IInv, PromiseInv
    <3>2. QED
      BY <2>1, <3>1
  <2>2. CASE source[r] # NoSource
    <3> DEFINE c == source[r]
    <3>0. c \in Requests
      BY <2>2 DEF IInv, ServiceTypeOK, TypeOK
    <3>1. c \in Requests /\ comp[c] \in {"ok", "failed"}
      BY <2>2, <3>0 DEF IInv, PromiseInv
    <3>2. ask[c].wellFormed
      BY <3>1 DEF IInv, ShareInv
    <3>3. /\ ask[c].swap = ask[r].swap /\ ask[c].recipient = ask[r].recipient
          /\ ask[c].tokensKnown = ask[r].tokensKnown
          /\ PermitOf(ask[c]) = PermitOf(ask[r])
          /\ PermitOf(ask[c]) # "none" => c = r
          /\ ask[r].wellFormed
      <4>1. CASE c = r
        BY <3>2, <4>1
      <4>2. CASE c # r
        <5>1. key[r] # NoKey /\ key[c] = key[r]
          BY <2>2, <4>2 DEF IInv, ShareInv
        <5>2. key[r] = KeyOf(ask[r]) /\ key[c] = KeyOf(ask[c])
          BY <3>1 DEF IInv, KeysInv
        <5>3. /\ ask[r].wellFormed /\ PermitOf(ask[r]) = "none" /\ PermitOf(ask[c]) = "none"
              /\ cacheKey(ask[c]) = cacheKey(ask[r])
          BY <5>1, <5>2 DEF KeyOf
        <5>4. QED
          BY <5>3 DEF cacheKey
      <4>3. QED
        BY <4>1, <4>2
    <3>4. BadRequest(ask[c]) <=> BadRequest(ask[r])
      BY <3>3 DEF BadRequest
    <3>5. Status(r) = "answer" => ~BadRequest(ask[c])
      BY <2>2, <3>1 DEF Status, IInv, StageInv
    <3>6. Status(r) = "bad request" => BadRequest(ask[c])
      BY <2>2, <3>1 DEF Status, IInv, StageInv
    <3>7. QED
      BY <3>3, <3>4, <3>5, <3>6
  <2>3. QED
    BY <2>1, <2>2
<1>2. QED
  BY <1>1, ServiceInvariant, PTL

\* A failure is not cached: whoever fails with a computation had come before it failed.
THEOREM FailuresFirstHand == ServiceSpec => []NoSecondHandFailure
<1>1. IInv => NoSecondHandFailure
  <2> SUFFICES ASSUME IInv, NEW r \in Requests, status[r] = "done", Status(r) = "unavailable"
               PROVE  arrived[r] <= failedAt[source[r]]
    BY DEF NoSecondHandFailure
  <2>1. source[r] # NoSource /\ comp[source[r]] = "failed"
    BY DEF Status, IInv, PromiseInv
  <2>2. QED
    BY <2>1 DEF IInv, HistoryInv
<1>2. QED
  BY <1>1, ServiceInvariant, PTL

\* No quote ever waits for a network check, base tokens or a pool list that is not under way: what
\* fails is put back in the turn in which it fails, whether or not the quote that started it has
\* been answered, and a deadline that passes leaves it alone.
THEOREM SharedWorkHeld == ServiceSpec => []SharedWorkOwned
<1>1. IInv => SharedWorkOwned
  BY DEF IInv
<1>2. QED
  BY <1>1, ServiceInvariant, PTL
=============================================================================
