------------------------------- MODULE Reviews -------------------------------
(***************************************************************************)
(* Recurring reviews that ask the database: a seller's pricing review asks *)
(* for its sales and for competitor prices, whose answers come in the next *)
(* tick in any order (they are sorted by uuid), and prices when it has the *)
(* latter, with what it knows of the former; the government asks for its   *)
(* indicators, but never attaches the request to the event it returns.     *)
(*                                                                         *)
(* Schedule says when reviews run.  Of the figures only the tick they were *)
(* asked in is kept.  The query handler is external: it answers in the     *)
(* step that asks, or raises an exception, which ends the tick before the  *)
(* list of requests is cleared.                                            *)
(***************************************************************************)
EXTENDS Schedule

CONSTANTS
    Sellers, Government,
    QueryTTL,        \* QUERY_TTL
    MaxRouteFaults   \* bound: ticks in which the query handler raises

ASSUME ReviewsAssumption ==
    /\ Sellers \subseteq Agents /\ Government \in Agents \ Sellers
    /\ \A s \in Sellers : ActionsOf(s) = {"evaluate_pricing"}
    /\ ActionsOf(Government) = {"compute_statistics"}
    /\ Agents = Sellers \cup {Government}
    /\ QueryTTL \in Nat /\ MaxRouteFaults \in Nat

VARIABLES
    pending,    \* pending_queries of each agent
    asked,      \* the queries in the actions of this tick
    requests,   \* _current_tick_query_requests
    inbox,      \* the answers an agent has still to read
    cache,      \* the tick whose figures are in sales_cache
    pricedFor,  \* the review that last set the prices
    restsOn,    \* the tick of the figures they rest on
    reviews,    \* the pricing reviews whose queries were routed
    broken      \* the ticks in which the query handler raised

reviewVars ==
    <<pending, asked, requests, inbox, cache, pricedFor, restsOn, reviews, broken>>
vars == <<scheduleVars, reviewVars>>
-----------------------------------------------------------------------------
Never == 0

Templates == {"sales_analytics", "competitor_prices", "gov_economic_indicators"}
Query == [agent : Agents, about : Templates, issued : 1..MaxTick]

(* handle_evaluate_pricing and handle_compute_statistics emit a query for  *)
(* each of their templates, which is then pending.                         *)
Asks(x) ==
    IF x = "evaluate_pricing" THEN {"sales_analytics", "competitor_prices"}
    ELSE {"gov_economic_indicators"}

(* What of it goes into the event returned; the variant has all of it.     *)
AttachesAll(x) == Asks(x)
Attaches(x) == IF x = "evaluate_pricing" THEN Asks(x) ELSE {}

Queries(a, templates) ==
    {[agent |-> a, about |-> t, issued |-> tick] : t \in templates}

Review(a, x) ==
    /\ Runs(a, x)
    /\ pending' = [pending EXCEPT ![a] = @ \cup Queries(a, Asks(x))]
    /\ asked' = asked \cup Queries(a, Attaches(x))
    /\ UNCHANGED <<requests, inbox, cache, pricedFor, restsOn, reviews, broken>>

(* Variant of Awaited: what has expired is forgotten before the drain.     *)
AwaitedInTime(a, q) == q \in pending[a] /\ tick - q.issued <= QueryTTL
Awaited(a, q) == q \in pending[a]

(* _process_query_result, on_sales_analytics_result and                    *)
(* on_competitor_prices_result.                                            *)
ReadAnswer(a) ==
    /\ Drains(a)
    /\ \E q \in inbox[a] :
        /\ inbox' = [inbox EXCEPT ![a] = @ \ {q}]
        /\ pending' = [pending EXCEPT ![a] = @ \ {q}]
        /\ cache' = IF Awaited(a, q) /\ q.about = "sales_analytics"
                    THEN [cache EXCEPT ![a] = q.issued] ELSE cache
        /\ IF Awaited(a, q) /\ q.about = "competitor_prices"
           THEN /\ pricedFor' = [pricedFor EXCEPT ![a] = q.issued]
                /\ restsOn' = [restsOn EXCEPT ![a] = cache[a]]
           ELSE UNCHANGED <<pricedFor, restsOn>>
    /\ UNCHANGED <<asked, requests, reviews, broken>>

(* Variant of Expired: against the tick before.                            *)
ExpiredLate(q) == tick - 1 - q.issued > QueryTTL
Expired(q) == tick - q.issued > QueryTTL

(* The inbox is empty: _expire_pending_queries, then what is due is marked. *)
Prepare(a) ==
    /\ MarkDue(a) /\ inbox[a] = {}
    /\ pending' = [pending EXCEPT ![a] = {q \in @ : ~Expired(q)}]
    /\ UNCHANGED <<asked, requests, inbox, cache, pricedFor, restsOn, reviews, broken>>

Leave(a) == EndTurn(a) /\ UNCHANGED reviewVars

Answers(a, answered) == {q \in answered : q.agent = a}
Delivered(answered) == [a \in Agents |-> inbox[a] \cup Answers(a, answered)]

Reviewed ==
    [s \in Sellers |-> reviews[s] \cup {q.issued : q \in Answers(s, asked)}]

(* _emit_and_route: every request is answered and the list cleared.        *)
Route ==
    /\ EndTick
    /\ inbox' = Delivered(requests \cup asked)
    /\ requests' = {} /\ asked' = {}
    /\ reviews' = Reviewed
    /\ UNCHANGED <<pending, cache, pricedFor, restsOn, broken>>

(* Variant of KeptRequests: the list is cleared whatever happens.          *)
ClearedRequests == {}
KeptRequests == requests \cup asked

(* The query handler raises: some requests are answered, and all of them   *)
(* stay in the list and are asked again in the next tick.                  *)
RouteBreaks ==
    /\ EndTick /\ Cardinality(broken) < MaxRouteFaults
    /\ broken' = broken \cup {tick}
    /\ \E answered \in SUBSET (requests \cup asked) :
        /\ answered # requests \cup asked
        /\ inbox' = Delivered(answered)
    /\ requests' = KeptRequests /\ asked' = {}
    /\ reviews' = Reviewed
    /\ UNCHANGED <<pending, cache, pricedFor, restsOn>>

(* What the agent that raised had drained is lost, and what was asked.     *)
CutShort ==
    /\ Abort
    /\ inbox' = [a \in Agents |-> IF Now(a) THEN {} ELSE inbox[a]]
    /\ asked' = {}
    /\ UNCHANGED <<pending, requests, cache, pricedFor, restsOn, reviews, broken>>

Init ==
    /\ ScheduleInit
    /\ pending = [a \in Agents |-> {}] /\ inbox = pending
    /\ asked = {} /\ requests = {} /\ broken = {}
    /\ cache = [s \in Sellers |-> Never] /\ pricedFor = cache /\ restsOn = cache
    /\ reviews = [s \in Sellers |-> {}]

Next ==
    \/ \E a \in Agents :
        \/ ReadAnswer(a) \/ Prepare(a) \/ Leave(a)
        \/ \E x \in ActionsOf(a) : Review(a, x)
    \/ Route \/ RouteBreaks \/ CutShort

Spec == Init /\ [][Next]_vars
-----------------------------------------------------------------------------
(* Every variable has its type, and nobody waits longer than QUERY_TTL for *)
(* an answer, also not for one that was never asked for: only while a tick *)
(* in which to expire it was cut short.                                    *)
TypeOK ==
    /\ ScheduleTypeOK
    /\ pending \in [Agents -> SUBSET Query] /\ inbox \in [Agents -> SUBSET Query]
    /\ asked \subseteq Query /\ requests \subseteq Query
    /\ \A a \in Agents : \A q \in pending[a] :
        /\ q.agent = a
        /\ \A t \in (q.issued + QueryTTL + 1)..(tick - 1) : t \in cut
    /\ cache \in [Sellers -> 0..tick] /\ pricedFor \in [Sellers -> 0..tick]
    /\ restsOn \in [Sellers -> 0..tick] /\ reviews \in [Sellers -> SUBSET (1..tick)]
    /\ broken \subseteq 1..(tick - 1)

(* What the price of a review may rest on: its own sales figures or those  *)
(* of the review before; of a first review also no figures at all.         *)
Basis(s) ==
    LET before == {t \in reviews[s] : t < pricedFor[s]}
    IN  {pricedFor[s]} \cup {t \in before \cup {Never} : \A u \in before : u <= t}

(* No price rests on older figures than those.  The uuids decide which of  *)
(* a review's two answers is read first (seller.py:323), so that it need   *)
(* not be its own, which SELLER.md:131 has in the cache by then; a first   *)
(* review that reads the prices first finds the cache empty, takes nothing *)
(* sold for its sales and cuts the price (seller.py:328-333).  When        *)
(* answers come late this needs reviews further apart than the ticks that  *)
(* were broken, and no more of those than an answer is waited for.         *)
PriceIsRecent ==
    \A s \in Sellers : pricedFor[s] # Never /\ cut = {} =>
        LET gap == CycleTicks["evaluate_pricing"] + offset[<<s, "evaluate_pricing">>]
            late == Cardinality(broken)
        IN  late = 0 \/ (late < gap /\ late <= QueryTTL) => restsOn[s] \in Basis(s)
=============================================================================
