--------------------------- MODULE QuoteAdmission ---------------------------
(***************************************************************************)
(* Who may ask for a quote: quoteProtection of routing-api/src/            *)
(* protection.ts, and the handlers of routing-api/src/server.ts that give  *)
(* the place back.                                                         *)
(*                                                                         *)
(* A request takes a token of its visitor and one of MaxActive places. The *)
(* place is given back by the handler's finally block, by the error        *)
(* handler, or, as long as no handler has started, by the listeners on the *)
(* connection, in whatever order these come.                               *)
(*                                                                         *)
(* Between admission and handler lies express.json (external): a GET has   *)
(* no body and its handler starts at once, any other body has to be read,  *)
(* and a compressed one also to be inflated, which goes on after the       *)
(* client has left.                                                        *)
(*                                                                         *)
(* A visitor is what clientNetwork makes of an address. Tokens are counted *)
(* in the tokens a visitor gains in a tick.                                *)
(***************************************************************************)
EXTENDS Integers, Sequences, FiniteSets, SequencesExt

CONSTANTS
  Requests,
  Visitors,
  VisitorOf,     \* who each request comes from
  Body,          \* what comes with it: "none", a "plain" or a "compressed" body
  Burst,         \* BURST
  Refill,        \* REFILL_PER_SECOND, by the tick
  MaxActive,     \* MAX_ACTIVE_QUOTES
  MaxVisitors    \* visitors remembered

ASSUME RequestAssumption ==
  /\ VisitorOf \in [Requests -> Visitors]
  /\ Body \in [Requests -> {"none", "plain", "compressed"}]
ASSUME BucketAssumption == Burst \in Nat \ {0} /\ Refill \in Nat \ {0}
ASSUME LimitsAssumption == MaxActive \in Nat /\ MaxVisitors \in Nat \ {0}

VARIABLES
  visitors,    \* the keys of the Map of the same name, in its order
  tokens,      \* the tokens in each entry
  since,       \* ticks since each entry's at, counted until the bucket is full
  recency,     \* (history) the visitors remembered, most recent last
  active,      \* the counter of the same name
  placed,      \* requests that hold a place: admitted, and released is false
  stage,       \* where each request is
  answer,      \* the status it was refused with before it got a place, or 0
  gone         \* requests whose connection has closed

bucketVars == <<visitors, tokens, since, recency>>
requestVars == <<stage, answer, gone>>
vars == <<bucketVars, active, placed, requestVars>>

Waiting == {"reading", "inflating", "failing"}

TypeOK ==
  /\ visitors \in Seq(Visitors) /\ Len(visitors) <= MaxVisitors
  /\ tokens \in [Visitors -> 0 .. Burst]
  /\ since \in [Visitors -> 0 .. Burst]
  /\ recency \in Seq(Visitors)
  /\ active \in 0 .. MaxActive
  /\ placed \subseteq Requests
  /\ stage \in [Requests -> {"new", "quoting", "done"} \union Waiting]
  /\ answer \in [Requests -> {0, 414, 429, 503}]
  /\ gone \subseteq Requests

Init ==
  /\ visitors = <<>>
  /\ tokens = [v \in Visitors |-> Burst]
  /\ since = [v \in Visitors |-> 0]
  /\ recency = <<>>
  /\ active = 0
  /\ placed = {}
  /\ stage = [r \in Requests |-> "new"]
  /\ answer = [r \in Requests |-> 0]
  /\ gone = {}

-----------------------------------------------------------------------------
(* the token bucket *)

\* What an entry is worth now; a visitor who is not known has a full bucket.
Level(v) ==
  IF v \in Range(visitors) THEN Min({Burst, tokens[v] + since[v] * Refill}) ELSE Burst

\* Map.delete: the other keys keep their order.
Deleted(map, v) ==
  IF v \in Range(map) THEN RemoveAt(map, CHOOSE i \in DOMAIN map : map[i] = v) ELSE map

\* delete, then set: the visitor moves to the back of the Map.
Seen(v) == Append(Deleted(visitors, v), v)

Remembered(map) == IF Len(map) > MaxVisitors THEN Tail(map) ELSE map

\* Slip: at stays where it was, and the same ticks are credited with every request.
ChargeAgain(v, taken) ==
  /\ visitors' = Remembered(Seen(v))
  /\ tokens' = [w \in Visitors |-> IF w = v THEN Level(v) - taken
                                  ELSE IF w \in Range(visitors') THEN tokens[w] ELSE Burst]
  /\ since' = [w \in Visitors |-> IF w \in Range(visitors') THEN since[w] ELSE 0]
  /\ recency' = LET newest == Append(Deleted(recency, v), v)
                IN  IF Len(Seen(v)) > MaxVisitors THEN Deleted(newest, Head(Seen(v))) ELSE newest

\* The bucket is brought up to date, whether or not the request passes.
Charge(v, taken) ==
  /\ visitors' = Remembered(Seen(v))
  /\ tokens' = [w \in Visitors |-> IF w = v THEN Level(v) - taken
                                  ELSE IF w \in Range(visitors') THEN tokens[w] ELSE Burst]
  /\ since' = [w \in Visitors |-> IF w # v /\ w \in Range(visitors') THEN since[w] ELSE 0]
  /\ recency' = LET newest == Append(Deleted(recency, v), v)
                IN  IF Len(Seen(v)) > MaxVisitors THEN Deleted(newest, Head(Seen(v))) ELSE newest

-----------------------------------------------------------------------------
(* admission *)

RateLimited(r, v) ==
  /\ Level(v) < 1
  /\ Charge(v, 0)
  /\ stage' = [stage EXCEPT ![r] = "done"]
  /\ answer' = [answer EXCEPT ![r] = 429]
  /\ UNCHANGED <<active, placed>>

\* A busy answer, and one to a URL that is too long, cost a token and take no place.
TurnedAway(r, v) ==
  /\ Level(v) >= 1
  /\ Charge(v, 1)
  /\ stage' = [stage EXCEPT ![r] = "done"]
  /\ \/ active >= MaxActive /\ answer' = [answer EXCEPT ![r] = 503]
     \/ active < MaxActive /\ answer' = [answer EXCEPT ![r] = 414]
  /\ UNCHANGED <<active, placed>>

Admitted(r, v) ==
  /\ Level(v) >= 1
  /\ active < MaxActive
  /\ Charge(v, 1)
  /\ active' = active + 1
  /\ placed' = placed \union {r}
  /\ stage' = [stage EXCEPT ![r] = IF Body[r] = "none" THEN "quoting" ELSE "reading"]
  /\ UNCHANGED answer

Arrive(r) ==
  /\ stage[r] = "new"
  /\ LET v == VisitorOf[r] IN RateLimited(r, v) \/ TurnedAway(r, v) \/ Admitted(r, v)
  /\ UNCHANGED gone

-----------------------------------------------------------------------------
(* giving the place back *)

releaseQuote(r) ==
  /\ placed' = placed \ {r}
  /\ active' = IF r \in placed THEN active - 1 ELSE active

\* Slip: the connection gives the place back whether or not the handler has started.
releaseStarted(r) == releaseQuote(r)

\* releaseUnstarted: quoteStarted is set by the handler and never reset.
releaseUnstarted(r) == IF stage[r] \in Waiting THEN releaseQuote(r) ELSE UNCHANGED <<active, placed>>

\* The connection closes: the client left, the body took longer than requestTimeout, or the
\* answer was sent. What had not been read cannot be read any more.
Close(r) ==
  /\ stage[r] # "new" /\ answer[r] = 0
  /\ r \notin gone
  /\ gone' = gone \union {r}
  /\ releaseUnstarted(r)
  /\ stage' = IF stage[r] = "reading" THEN [stage EXCEPT ![r] = "failing"] ELSE stage
  /\ UNCHANGED <<bucketVars, answer>>

\* The body is complete, too long, or not what it should be.
BodyRead(r) ==
  /\ stage[r] = "reading"
  /\ stage' = [stage EXCEPT ![r] = IF Body[r] = "compressed" THEN "inflating" ELSE "quoting"]
  /\ UNCHANGED <<bucketVars, active, placed, answer, gone>>

BodyInflated(r) ==
  /\ stage[r] = "inflating"
  /\ stage' = [stage EXCEPT ![r] = "quoting"]
  /\ UNCHANGED <<bucketVars, active, placed, answer, gone>>

BodyFails(r) ==
  /\ stage[r] \in {"reading", "inflating"}
  /\ stage' = [stage EXCEPT ![r] = "failing"]
  /\ UNCHANGED <<bucketVars, active, placed, answer, gone>>

\* The error handler of createApp.
ErrorHandled(r) ==
  /\ stage[r] = "failing"
  /\ stage' = [stage EXCEPT ![r] = "done"]
  /\ releaseQuote(r)
  /\ UNCHANGED <<bucketVars, answer, gone>>

\* Slip: the handler answers and returns before it comes to the release.
QuoteEndsEarly(r) ==
  /\ stage[r] = "quoting"
  /\ stage' = [stage EXCEPT ![r] = "done"]
  /\ UNCHANGED <<bucketVars, active, placed, answer, gone>>

\* The finally block of handleQuote, whatever the quote came to.
QuoteEnds(r) ==
  /\ stage[r] = "quoting"
  /\ stage' = [stage EXCEPT ![r] = "done"]
  /\ releaseQuote(r)
  /\ UNCHANGED <<bucketVars, answer, gone>>

Tick ==
  /\ since' = [v \in Visitors |->
       IF v \in Range(visitors) THEN Min({Burst, since[v] + 1}) ELSE 0]
  /\ UNCHANGED <<visitors, tokens, recency, active, placed, requestVars>>

Handle(r) == BodyRead(r) \/ BodyInflated(r) \/ BodyFails(r) \/ ErrorHandled(r) \/ QuoteEnds(r)

Next == Tick \/ \E r \in Requests : Arrive(r) \/ Close(r) \/ Handle(r)

Spec == Init /\ [][Next]_vars

(***************************************************************************)
(* Quotes end by their deadline (EveryQuoteAnswered of QuoteWork,          *)
(* EveryRequestAnswered of ResponseCache). requestTimeout closes a         *)
(* connection whose body does not arrive. An error is handled as long as   *)
(* there is a connection to read the rest from; a body that was still to   *)
(* be inflated when its connection closed may never be heard of again.     *)
(***************************************************************************)
Fairness ==
  \A r \in Requests :
    /\ WF_vars(QuoteEnds(r))
    /\ WF_vars(stage[r] = "reading" /\ (Handle(r) \/ Close(r)))
    /\ WF_vars(BodyInflated(r) \/ BodyFails(r))
    /\ WF_vars(ErrorHandled(r) /\ r \notin gone)

FairSpec == Spec /\ Fairness

-----------------------------------------------------------------------------
\* The counter is the number of places held, whoever gives them back and in whatever order the
\* handler, the error handler and the connection's listeners come (protection.ts:33-38).
PlacesAccountedFor == active = Cardinality(placed)

\* protection.ts:34 "Work remains counted after disconnect until its bounded computation actually
\* finishes": no more quotes are computed than there are places. The exception are quotes whose
\* client left before they started, while a compressed body was being inflated.
StartedLate == {r \in Requests : stage[r] = "quoting" /\ r \notin placed}
QuotesWithinLimit ==
  /\ Cardinality({r \in Requests : stage[r] = "quoting"} \ StartedLate) <= MaxActive
  /\ StartedLate \subseteq gone \intersect {r \in Requests : Body[r] = "compressed"}

\* A place held by a quote is given back by its own handler only.
PlaceKeptWhileQuoting ==
  [][\A r \in placed : stage[r] = "quoting" /\ r \notin placed' => stage'[r] = "done"]_vars

\* Every place comes back, without which MaxActive lost places would refuse all quotes for good.
EveryPlaceReturned == \A r \in Requests : r \in placed ~> r \notin placed

\* Only the visitor who has been away longest is forgotten, and with it how much it has used.
LeastRecentForgotten ==
  [][\A v \in Range(recency) \ Range(recency') : v = recency[1]]_vars

\* Buckets that are filled on arrival let through what buckets filled by the tick would, and each
\* request that gets past the 429 takes a token, a 503 included (protection.ts:23-30).
Passed == {r \in Requests : stage[r] # "new" /\ answer[r] # 429}
Bucket == INSTANCE RateLimit WITH level <- [v \in Visitors |-> Level(v)], passed <- Passed
ImplementsRateLimit == Bucket!Spec
=============================================================================
