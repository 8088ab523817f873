--------------------------- MODULE ResponseCache ---------------------------
(***************************************************************************)
(* The cache of quote responses: routing-api/src/cache.ts.                 *)
(*                                                                         *)
(* A request is one call of resolveWithOutcome. The computation it starts, *)
(* if it starts one, bears its name, and so does the entry made for it. A  *)
(* "served" request is one whose promise has settled and whose             *)
(* continuation is still a microtask away: other requests may act first,   *)
(* the clock may not. The computations are those of QuoteService.          *)
(*                                                                         *)
(* A JavaScript Map iterates in the order in which its keys were first     *)
(* set: place says when that was, in computations started, and entry what  *)
(* each key maps to. The clock is the age of each value, counted up to     *)
(* Ttl, where it has expired.                                              *)
(***************************************************************************)
EXTENDS Integers, FiniteSets

CONSTANTS
  Requests,     \* calls of resolveWithOutcome
  Keys,         \* cache keys
  Ttl,          \* ticks a settled value is served for; positive, or the cache is disabled
  MaxEntries,   \* entries kept
  NoSource      \* the source of a request that has none yet

ASSUME TtlAssumption == Ttl \in Nat \ {0}
ASSUME MaxEntriesAssumption == MaxEntries \in Nat \ {0}
ASSUME NoSourceAssumption == NoSource \notin Requests

VARIABLES
  key,        \* the key each request asks for
  bypass,     \* whether it asks for fresh data
  status,     \* where each request is
  source,     \* the computation whose promise a request awaits
  hit,        \* the hit it reports
  ageMs,      \* the age it reports
  comp,       \* each computation's promise: none, pending, ok or failed
  age,        \* ticks since each computation's value settled, up to Ttl
  born,       \* the order in which computations started
  entry,      \* the Map: the computation behind each key's entry
  place       \* the Map's iteration order: each key's place in it

inputVars == <<key, bypass>>
requestVars == <<status, source, hit, ageMs>>
compVars == <<comp, age, born>>
mapVars == <<entry, place>>
vars == <<inputVars, requestVars, compVars, mapVars>>

TypeOK ==
  /\ status \in [Requests -> {"new", "waiting", "served", "done"}]
  /\ source \in [Requests -> Requests \union {NoSource}]
  /\ hit \in [Requests -> BOOLEAN] /\ ageMs \in [Requests -> 0 .. Ttl]
  /\ comp \in [Requests -> {"none", "pending", "ok", "failed"}]
  /\ age \in [Requests -> 0 .. Ttl] /\ born \in [Requests -> Nat]
  /\ entry \in [DOMAIN entry -> Requests] /\ place \in [DOMAIN entry -> Nat]

Init ==
  /\ key \in [Requests -> Keys]
  /\ bypass \in [Requests -> BOOLEAN]
  /\ status = [r \in Requests |-> "new"]
  /\ source = [r \in Requests |-> NoSource]
  /\ hit = [r \in Requests |-> FALSE]
  /\ ageMs = [r \in Requests |-> 0]
  /\ comp = [r \in Requests |-> "none"]
  /\ age = [r \in Requests |-> 0]
  /\ born = [r \in Requests |-> 0]
  /\ entry = <<>>
  /\ place = <<>>

\* Slip: a value is served for its last tick as well, and, ages being capped there, for ever.
ExpiredLater(c) == comp[c] = "ok" /\ age[c] > Ttl

Expired(c) == comp[c] = "ok" /\ age[c] >= Ttl

\* A pending entry is only a coalescing target; a settled one is served until it expires.
Live(k) == k \in DOMAIN entry /\ ~Expired(entry[k])

-----------------------------------------------------------------------------
(* resolve *)

Started == Cardinality({c \in Requests : comp[c] # "none"})

\* evict: nothing while there is room, else the expired entries and then the front ones.
Kept(map, at) ==
  LET unexpired == {k \in DOMAIN map : ~Expired(map[k])}
  IN  IF Cardinality(DOMAIN map) <= MaxEntries THEN DOMAIN map
      ELSE {k \in unexpired : Cardinality({j \in unexpired : at[j] > at[k]}) < MaxEntries}

\* entries.set, where a key that is already there keeps its place, and evict.
Store(r) ==
  LET map == [k \in DOMAIN entry \union {key[r]} |-> IF k = key[r] THEN r ELSE entry[k]]
      at == [k \in DOMAIN map |-> IF k \in DOMAIN entry THEN place[k] ELSE Started + 1]
  IN  /\ entry' = [k \in Kept(map, at) |-> map[k]]
      /\ place' = [k \in Kept(map, at) |-> at[k]]

\* compute() is called, its entry stored, and the Map trimmed, in one synchronous stretch.
Compute(r) ==
  /\ comp' = [comp EXCEPT ![r] = "pending"]
  /\ born' = [born EXCEPT ![r] = Started + 1]
  /\ Store(r)
  /\ source' = [source EXCEPT ![r] = r]
  /\ status' = [status EXCEPT ![r] = "waiting"]
  /\ UNCHANGED age

Join(r) ==
  /\ source' = [source EXCEPT ![r] = entry[key[r]]]
  /\ status' = [status EXCEPT ![r] = IF comp[entry[key[r]]] = "pending" THEN "waiting" ELSE "served"]
  /\ UNCHANGED <<compVars, mapVars>>

\* resolveWithOutcome up to its await: hit is decided before resolve looks the key up again.
Request(r) ==
  /\ status[r] = "new"
  /\ hit' = [hit EXCEPT ![r] = ~bypass[r] /\ Live(key[r])]
  /\ \/ /\ ~bypass[r] /\ Live(key[r])
        /\ Join(r)
     \/ /\ bypass[r] \/ ~Live(key[r])
        /\ Compute(r)
  /\ UNCHANGED <<inputVars, ageMs>>

-----------------------------------------------------------------------------
(* the promises *)

Awaiting(c) == {r \in Requests : status[r] = "waiting" /\ source[r] = c}

\* Slip: only those are served whose entry can still be found.
ServeFromEntry(c) ==
  status' = [r \in Requests |->
    IF r \in Awaiting(c) /\ key[c] \in DOMAIN entry /\ entry[key[c]] = c THEN "served" ELSE status[r]]

ServeAwaiting(c) == status' = [r \in Requests |-> IF r \in Awaiting(c) THEN "served" ELSE status[r]]

\* Slip: a value is stored again when it arrives.
ComputeStores(c) ==
  /\ comp[c] = "pending"
  /\ comp' = [comp EXCEPT ![c] = "ok"]
  /\ age' = [age EXCEPT ![c] = 0]
  /\ ServeAwaiting(c)
  /\ entry' = [k \in DOMAIN entry |-> IF k = key[c] THEN c ELSE entry[k]]
  /\ UNCHANGED <<inputVars, source, hit, ageMs, born, place>>

\* expiresAt and computedAt are set on the computation's own entry, in the Map or not.
ComputeSucceeds(c) ==
  /\ comp[c] = "pending"
  /\ comp' = [comp EXCEPT ![c] = "ok"]
  /\ age' = [age EXCEPT ![c] = 0]
  /\ ServeAwaiting(c)
  /\ UNCHANGED <<inputVars, source, hit, ageMs, born, mapVars>>

\* Slip: the entry of a failed computation stays.
ComputeFailsCached(c) ==
  /\ comp[c] = "pending"
  /\ comp' = [comp EXCEPT ![c] = "failed"]
  /\ ServeAwaiting(c)
  /\ UNCHANGED <<inputVars, source, hit, ageMs, age, born, mapVars>>

\* The entry goes unless a later computation has taken its place.
ComputeFails(c) ==
  /\ comp[c] = "pending"
  /\ comp' = [comp EXCEPT ![c] = "failed"]
  /\ ServeAwaiting(c)
  /\ IF key[c] \in DOMAIN entry /\ entry[key[c]] = c
       THEN /\ entry' = [k \in DOMAIN entry \ {key[c]} |-> entry[k]]
            /\ place' = [k \in DOMAIN entry \ {key[c]} |-> place[k]]
       ELSE UNCHANGED mapVars
  /\ UNCHANGED <<inputVars, source, hit, ageMs, age, born>>

\* The continuation of resolveWithOutcome: the age is read from whatever the key maps to now.
Deliver(r) ==
  /\ status[r] = "served"
  /\ status' = [status EXCEPT ![r] = "done"]
  /\ ageMs' = [ageMs EXCEPT ![r] =
       IF /\ comp[source[r]] = "ok" /\ hit[r]
          /\ key[r] \in DOMAIN entry /\ comp[entry[key[r]]] = "ok"
         THEN age[entry[key[r]]] ELSE 0]
  /\ UNCHANGED <<inputVars, source, hit, compVars, mapVars>>

Tick ==
  /\ \A r \in Requests : status[r] # "served"
  /\ age' = [c \in Requests |-> IF comp[c] = "ok" /\ age[c] < Ttl THEN age[c] + 1 ELSE age[c]]
  /\ UNCHANGED <<inputVars, requestVars, comp, born, mapVars>>

-----------------------------------------------------------------------------
\* A value handed to a request is younger than the TTL, by whatever way it got there.
NoStaleValue ==
  \A r \in Requests : status[r] = "served" /\ comp[source[r]] = "ok" => age[source[r]] < Ttl

\* A key leads to the computation that was started last for it, so that a slow request that is
\* overtaken by a refresh never brings its older value back.
NewestStored ==
  \A k \in DOMAIN entry, c \in Requests :
    comp[c] # "none" /\ key[c] = k => born[c] <= born[entry[k]]

\* Every request is answered when computations settle, also one whose entry was evicted or replaced
\* while it waited.
EveryRequestAnswered == \A r \in Requests : status[r] \in {"waiting", "served"} ~> status[r] = "done"
=============================================================================
