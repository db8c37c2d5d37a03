--------------------------- MODULE ReviewsProofs ---------------------------
(***************************************************************************)
(* Proofs about Reviews, for every roster, cycle, jitter and time to live: *)
(* nobody waits for an answer longer than QUERY_TTL, and no price rests on *)
(* figures older than those of the review before, if there is one.         *)
(***************************************************************************)
EXTENDS Reviews, ScheduleProofs, FiniteSetTheorems

Pricing == "evaluate_pricing"

(* The agent has still to mark what is due in this tick.                   *)
ToPrepare(a) == \A i \in DOMAIN Roster : Roster[i] = a => turn < i \/ (turn = i /\ ~firing)

(* Queries and answers are of their time: those of this tick are asked,    *)
(* those of earlier ticks have been routed.                                *)
Dated ==
    /\ pending \in [Agents -> SUBSET Query] /\ inbox \in [Agents -> SUBSET Query]
    /\ asked \subseteq Query /\ requests \subseteq Query
    /\ \A q \in asked : q.issued = tick
    /\ \A q \in requests : q.issued < tick
    /\ \A a \in Agents : \A q \in inbox[a] : q.agent = a /\ q.issued < tick
    /\ \A a \in Agents : \A q \in pending[a] :
        q.agent = a /\ q.issued <= tick /\ (ToPrepare(a) => q.issued < tick)

(* Only sellers have asked, both questions of a review, and are done.      *)
OfReviews ==
    \A q \in asked :
        /\ q.agent \in Sellers /\ ~ToPrepare(q.agent)
        /\ Queries(q.agent, Asks(Pricing)) \subseteq pending[q.agent]

(* What is pending is not expired, or a cut tick has kept it so.           *)
Expires ==
    \A a \in Agents : \A q \in pending[a] :
        /\ \A t \in (q.issued + QueryTTL + 1)..(tick - 1) : t \in cut
        /\ ToPrepare(a) \/ tick - q.issued <= QueryTTL

(* The figures a seller keeps are of earlier ticks.                        *)
Figures ==
    /\ cache \in [Sellers -> Nat] /\ pricedFor \in [Sellers -> Nat]
    /\ restsOn \in [Sellers -> Nat] /\ reviews \in [Sellers -> SUBSET Nat]
    /\ \A s \in Sellers :
        /\ cache[s] < tick /\ pricedFor[s] < tick /\ restsOn[s] < tick
        /\ \A t \in reviews[s] : 1 <= t /\ t < tick
    /\ broken \subseteq 1..(tick - 1)

(* An agent runs its handlers with an empty inbox.                         *)
HasDrained == \A a \in Agents : Now(a) /\ firing => inbox[a] = {}

Gap(s) == CycleTicks[Pricing] + offset[<<s, Pricing>>]
Late == Cardinality(broken)

(* No answer was so late that it missed the next review or expired.        *)
InTime(s) == cut = {} /\ (Late = 0 \/ (Late < Gap(s) /\ Late <= QueryTTL))

(* What a seller waits for was asked in this tick, is in its inbox, or has *)
(* been held up by the query handler ever since it was asked.              *)
Awaiting ==
    cut = {} => \A s \in Sellers : \A q \in pending[s] :
        /\ q.issued <= lastFired[<<s, Pricing>>]
        /\ q.issued = tick => q \in asked
        /\ \/ q.issued = tick \/ q \in inbox[s]
           \/ q \in requests /\ q.issued..(tick - 1) \subseteq broken

(* A seller in time waits for the answers of its last review only, and its *)
(* sales figures are of that review or of the one before.                  *)
Fresh(s) ==
    /\ \A q \in pending[s] :
        /\ cache[s] <= q.issued
        /\ \A p \in pending[s] : p.issued = q.issued
        /\ \A t \in reviews[s] : t <= q.issued
        /\ q.about = "sales_analytics" =>
            cache[s] < q.issued /\ \A t \in reviews[s] : t <= cache[s] \/ t >= q.issued
    /\ (\A q \in pending[s] : q.about # "sales_analytics") => \A t \in reviews[s] : t <= cache[s]
    /\ restsOn[s] <= pricedFor[s]
    /\ \A t \in reviews[s] : t <= restsOn[s] \/ t >= pricedFor[s]
    /\ Now(s) /\ Pricing \in todo => pending[s] = {}

ReviewsInv ==
    /\ ScheduleInv
    /\ Dated /\ OfReviews /\ Expires /\ Figures /\ HasDrained /\ Awaiting
    /\ \A s \in Sellers : InTime(s) => Fresh(s)
-----------------------------------------------------------------------------
(* What reviews add to a tick leaves its schedule alone.                   *)
LEMMA StepSchedules == [Next]_vars => [ScheduleNext]_scheduleVars
<1> SUFFICES ASSUME [Next]_vars PROVE ScheduleNext \/ UNCHANGED scheduleVars
    OBVIOUS
<1>1. CASE \E a \in Agents : ReadAnswer(a)
    BY <1>1 DEF ReadAnswer, Drains
<1>2. CASE \E a \in Agents : Prepare(a)
    BY <1>2 DEF Prepare, ScheduleNext
<1>3. CASE \E a \in Agents : Leave(a)
    BY <1>3 DEF Leave, ScheduleNext
<1>4. CASE \E a \in Agents : \E x \in ActionsOf(a) : Review(a, x)
    BY <1>4 DEF Review, ScheduleNext
<1>5. CASE Route \/ RouteBreaks
    BY <1>5 DEF Route, RouteBreaks, ScheduleNext
<1>6. CASE CutShort
    BY <1>6 DEF CutShort, ScheduleNext
<1>7. CASE UNCHANGED vars
    BY <1>7 DEF vars
<1> QED BY <1>1, <1>2, <1>3, <1>4, <1>5, <1>6, <1>7 DEF Next

LEMMA AgentFacts ==
    /\ \A s \in Sellers : s \in Agents /\ ActionsOf(s) = {Pricing}
    /\ Government \notin Sellers /\ ActionsOf(Government) = {"compute_statistics"}
    /\ Agents = Sellers \cup {Government}
    /\ QueryTTL \in Nat /\ MaxTick \in Nat
BY ReviewsAssumption, ScheduleAssumption DEF ReviewsAssumption, ScheduleAssumption, Pricing

LEMMA ScheduleFacts ==
    ASSUME ScheduleInv
    PROVE  /\ tick \in 1..MaxTick /\ tick \in Nat /\ turn \in Nat
           /\ firing \in BOOLEAN /\ (~firing => todo = {})
           /\ \A a : Now(a) => a \in Agents /\ todo \subseteq ActionsOf(a)
BY RosterFacts, AgentFacts DEF ScheduleInv, ScheduleTypeOK, Now

(* Where the turn is, for one agent.                                       *)
LEMMA NowToPrepare ==
    ASSUME NEW a, Now(a) PROVE ToPrepare(a) <=> ~firing
BY RosterFacts DEF Now, ToPrepare

LEMMA NobodyToPrepare ==
    ASSUME turn = Len(Roster) + 1 PROVE \A a \in Agents : ~ToPrepare(a)
BY RosterFacts DEF ToPrepare

LEMMA MarkedIsPrepared ==
    ASSUME NEW a, MarkDue(a)
    PROVE  /\ ~ToPrepare(a)' /\ ToPrepare(a)
           /\ \A b : ToPrepare(b)' => ToPrepare(b) /\ b # a
BY RosterFacts DEF MarkDue, Now, ToPrepare

LEMMA LeftIsPrepared ==
    ASSUME ScheduleInv, NEW a, EndTurn(a)
    PROVE  \A b : ToPrepare(b)' <=> ToPrepare(b)
<1>1. turn \in DOMAIN Roster /\ firing /\ turn' = turn + 1 /\ ~firing' /\ turn \in Nat
    BY ScheduleFacts DEF EndTurn, Now
<1>2. \A i \in DOMAIN Roster : (turn < i <=> turn' < i \/ turn' = i)
    BY <1>1, RosterFacts
<1> QED BY <1>1, <1>2 DEF ToPrepare
LEMMA TicksBetween ==
    ASSUME NEW m \in Nat, NEW n \in Nat
    PROVE  /\ IsFiniteSet(m..(n - 1))
           /\ m < n => Cardinality(m..(n - 1)) = n - m
<1>1. m \in Int /\ n - 1 \in Int
    OBVIOUS
<1>2. /\ IsFiniteSet(m..(n - 1))
      /\ Cardinality(m..(n - 1)) = IF m > n - 1 THEN 0 ELSE (n - 1) - m + 1
    BY <1>1, FS_Interval
<1>3. m < n => ~(m > n - 1) /\ (n - 1) - m + 1 = n - m
    OBVIOUS
<1> QED BY <1>2, <1>3
-----------------------------------------------------------------------------
(* An agent reads an answer.                                               *)
LEMMA ReadAnswerInv ==
    ASSUME ReviewsInv, NEW a \in Agents, ReadAnswer(a) PROVE ReviewsInv'
<1>1. PICK q \in inbox[a] :
        /\ inbox' = [inbox EXCEPT ![a] = @ \ {q}]
        /\ pending' = [pending EXCEPT ![a] = @ \ {q}]
        /\ cache' = IF Awaited(a, q) /\ q.about = "sales_analytics"
                    THEN [cache EXCEPT ![a] = q.issued] ELSE cache
        /\ IF Awaited(a, q) /\ q.about = "competitor_prices"
           THEN /\ pricedFor' = [pricedFor EXCEPT ![a] = q.issued]
                /\ restsOn' = [restsOn EXCEPT ![a] = cache[a]]
           ELSE UNCHANGED <<pricedFor, restsOn>>
    BY DEF ReadAnswer
<1>2. /\ Now(a) /\ ~firing /\ UNCHANGED scheduleVars
      /\ UNCHANGED <<asked, requests, reviews, broken>>
    BY DEF ReadAnswer, Drains
<1>3. /\ \A b : ToPrepare(b)' <=> ToPrepare(b)
      /\ \A b : Now(b)' <=> Now(b)
      /\ UNCHANGED <<tick, firing, cut, todo, lastFired, offset>>
    BY <1>2 DEF scheduleVars, ToPrepare, Now
<1>4. ScheduleInv'
    BY <1>2, ScheduleStepInv DEF ReviewsInv
<1>5. tick \in Nat /\ ToPrepare(a)
    BY <1>2, ScheduleFacts, NowToPrepare DEF ReviewsInv
<1>6. q \in Query /\ q.agent = a /\ q.issued < tick /\ q.issued \in Nat
    BY <1>1, ScheduleAssumption DEF ReviewsInv, Dated, Query, ScheduleAssumption
<1>7. /\ \A b \in Agents : inbox'[b] = IF b = a THEN inbox[a] \ {q} ELSE inbox[b]
      /\ \A b \in Agents : pending'[b] = IF b = a THEN pending[a] \ {q} ELSE pending[b]
      /\ inbox' \in [Agents -> SUBSET Query] /\ pending' \in [Agents -> SUBSET Query]
    BY <1>1 DEF ReviewsInv, Dated
<1>8. Dated'
    BY <1>2, <1>3, <1>7 DEF ReviewsInv, Dated
<1>9. OfReviews'
    BY <1>2, <1>3, <1>5, <1>7, AgentFacts DEF ReviewsInv, OfReviews, Queries
<1>10. Expires'
    BY <1>3, <1>7 DEF ReviewsInv, Expires
<1>11. Figures'
  <2>1. cache' \in [Sellers -> Nat] /\ \A s \in Sellers : cache'[s] < tick
    BY <1>1, <1>6 DEF ReviewsInv, Figures
  <2>2. /\ pricedFor' \in [Sellers -> Nat] /\ restsOn' \in [Sellers -> Nat]
        /\ \A s \in Sellers : pricedFor'[s] < tick /\ restsOn'[s] < tick
    <3>1. CASE UNCHANGED <<pricedFor, restsOn>>
      BY <3>1 DEF ReviewsInv, Figures
    <3>2. CASE pricedFor' = [pricedFor EXCEPT ![a] = q.issued] /\ restsOn' = [restsOn EXCEPT ![a] = cache[a]]
      BY <1>6, <3>2 DEF ReviewsInv, Figures
    <3> QED BY <1>1, <3>1, <3>2
  <2> QED BY <1>2, <1>3, <2>1, <2>2 DEF ReviewsInv, Figures
<1>12. HasDrained'
    BY <1>2, <1>3 DEF HasDrained
<1>13. Awaiting'
    BY <1>2, <1>3, <1>7, AgentFacts DEF ReviewsInv, Awaiting
<1>14. ASSUME NEW s \in Sellers, InTime(s)' PROVE Fresh(s)'
  <2>1. Fresh(s) /\ s \in Agents
    BY <1>2, <1>3, <1>14, AgentFacts DEF ReviewsInv, InTime, Late, Gap
  <2>2. /\ cache[s] \in Nat /\ pricedFor[s] \in Nat /\ restsOn[s] \in Nat
        /\ reviews[s] \subseteq Nat /\ pending[s] \subseteq Query
        /\ \A p \in pending[s] : p.issued \in Nat
    BY <2>1, ScheduleAssumption DEF ReviewsInv, Figures, Dated, Query, ScheduleAssumption
  <2>3. CASE s # a \/ ~Awaited(a, q)
    <3>1. cache'[s] = cache[s] /\ pricedFor'[s] = pricedFor[s] /\ restsOn'[s] = restsOn[s]
      BY <1>1, <2>3 DEF ReviewsInv, Figures
    <3>2. pending'[s] = pending[s]
      BY <1>7, <2>1, <2>3 DEF Awaited
    <3> QED BY <1>2, <1>3, <2>1, <3>1, <3>2 DEF Fresh
  <2>4. CASE s = a /\ Awaited(a, q)
    <3>1. /\ q \in pending[s] /\ pending'[s] = pending[s] \ {q}
          /\ todo = {} /\ todo' = {}
      BY <1>2, <1>3, <1>7, <2>1, <2>4, ScheduleFacts DEF Awaited, ReviewsInv
    <3>2. CASE q.about = "sales_analytics"
      <4>1. cache'[s] = q.issued /\ pricedFor'[s] = pricedFor[s] /\ restsOn'[s] = restsOn[s]
        BY <1>1, <2>4, <3>2 DEF ReviewsInv, Figures
      <4>2. \A p \in pending'[s] : p.issued = q.issued /\ p.about # "sales_analytics"
        <5>1. \A p \in pending[s] : p \in Query /\ p.issued = q.issued /\ p.agent = a
          BY <2>1, <2>2, <2>4, <3>1 DEF Fresh, ReviewsInv, Dated
        <5>2. \A p \in Query : p.issued = q.issued /\ p.agent = q.agent /\ p.about = q.about => p = q
          BY <1>6 DEF Query
        <5> QED BY <1>6, <3>1, <3>2, <5>1, <5>2
      <4>3. \A t \in reviews[s] : t <= q.issued
        BY <2>1, <3>1 DEF Fresh
      <4> QED BY <1>2, <1>3, <1>6, <2>1, <2>2, <3>1, <4>1, <4>2, <4>3 DEF Fresh
    <3>3. CASE q.about = "competitor_prices"
      <4>1. cache'[s] = cache[s] /\ pricedFor'[s] = q.issued /\ restsOn'[s] = cache[s]
        BY <1>1, <2>4, <3>3 DEF ReviewsInv, Figures
      <4>2. (\A p \in pending'[s] : p.about # "sales_analytics")
                => \A p \in pending[s] : p.about # "sales_analytics"
        BY <3>1, <3>3
      <4>3. \A t \in reviews[s] : t <= cache[s] \/ t >= q.issued
        <5>1. CASE \A p \in pending[s] : p.about # "sales_analytics"
          BY <2>1, <5>1 DEF Fresh
        <5>2. ASSUME NEW p \in pending[s], p.about = "sales_analytics"
              PROVE \A t \in reviews[s] : t <= cache[s] \/ t >= q.issued
          BY <2>1, <3>1, <5>2 DEF Fresh
        <5> QED BY <5>1, <5>2
      <4>4. cache[s] <= q.issued
        BY <2>1, <3>1 DEF Fresh
      <4> QED BY <1>2, <1>3, <2>1, <2>2, <3>1, <4>1, <4>2, <4>3, <4>4 DEF Fresh
    <3>4. CASE q.about \notin {"sales_analytics", "competitor_prices"}
      <4>1. cache'[s] = cache[s] /\ pricedFor'[s] = pricedFor[s] /\ restsOn'[s] = restsOn[s]
        BY <1>1, <3>4
      <4>2. (\A p \in pending'[s] : p.about # "sales_analytics")
                => \A p \in pending[s] : p.about # "sales_analytics"
        BY <3>1, <3>4
      <4> QED BY <1>2, <1>3, <2>1, <3>1, <4>1, <4>2 DEF Fresh
    <3> QED BY <3>2, <3>3, <3>4
  <2> QED BY <2>3, <2>4
<1> QED BY <1>4, <1>8, <1>9, <1>10, <1>11, <1>12, <1>13, <1>14 DEF ReviewsInv

(* It ends its drain, forgets what has expired and marks what is due.      *)
LEMMA PrepareInv ==
    ASSUME ReviewsInv, NEW a \in Agents, Prepare(a) PROVE ReviewsInv'
<1>1. /\ MarkDue(a) /\ inbox[a] = {} /\ Now(a) /\ ~firing /\ firing'
      /\ pending' = [pending EXCEPT ![a] = {q \in @ : ~Expired(q)}]
      /\ UNCHANGED <<asked, requests, inbox, cache, pricedFor, restsOn, reviews, broken>>
      /\ UNCHANGED <<tick, turn, offset, cut>>
      /\ todo' = {x \in ActionsOf(a) : Due(<<a, x>>)}
      /\ lastFired' = [k \in Recurring |-> IF k[1] = a /\ Due(k) THEN FiredNow(k) ELSE lastFired[k]]
    BY DEF Prepare, MarkDue
<1>2. ScheduleInv'
    BY <1>1, ScheduleStepInv DEF ReviewsInv, ScheduleNext
<1>3. /\ ~ToPrepare(a)' /\ ToPrepare(a)
      /\ \A b : ToPrepare(b)' => ToPrepare(b) /\ b # a
    BY <1>1, MarkedIsPrepared
<1>4. /\ tick \in Nat
      /\ \A b \in Agents : \A q \in pending[b] : q.issued \in Nat /\ (ToPrepare(b) => q.issued < tick)
    BY ScheduleFacts, ScheduleAssumption DEF ReviewsInv, Dated, Query, ScheduleAssumption
<1>5. /\ \A b \in Agents : pending'[b] = IF b = a THEN {q \in pending[a] : ~Expired(q)} ELSE pending[b]
      /\ pending' \in [Agents -> SUBSET Query]
    BY <1>1 DEF ReviewsInv, Dated
<1>6. Dated'
    BY <1>1, <1>3, <1>5 DEF ReviewsInv, Dated
<1>7. OfReviews'
    BY <1>1, <1>3, <1>5, AgentFacts DEF ReviewsInv, OfReviews, Queries
<1>8. Expires'
  <2>1. ASSUME NEW b \in Agents, NEW q \in pending'[b]
        PROVE  /\ \A t \in (q.issued + QueryTTL + 1)..(tick - 1) : t \in cut
               /\ ToPrepare(b)' \/ tick - q.issued <= QueryTTL
    <3>1. CASE b = a
      <4>1. q \in pending[a] /\ ~Expired(q) /\ q.issued \in Nat /\ QueryTTL \in Nat
        BY <1>4, <1>5, <2>1, <3>1, AgentFacts
      <4>2. tick - q.issued <= QueryTTL
        BY <1>4, <4>1 DEF Expired
      <4>3. \A t \in (q.issued + QueryTTL + 1)..(tick - 1) : FALSE
        BY <1>4, <4>1, <4>2
      <4> QED BY <4>2, <4>3
    <3>2. CASE b # a
      <4>1. ToPrepare(b) => ToPrepare(b)'
        BY <1>1, <3>2, RosterFacts DEF ToPrepare, Now
      <4> QED BY <1>5, <2>1, <3>2, <4>1 DEF ReviewsInv, Expires
    <3> QED BY <3>1, <3>2
  <2> QED BY <1>1, <2>1 DEF Expires
<1>9. Figures'
    BY <1>1 DEF ReviewsInv, Figures
<1>10. HasDrained'
    BY <1>1 DEF HasDrained, Now
<1>11. \A s \in Sellers : <<s, Pricing>> \in Recurring /\ lastFired[<<s, Pricing>>] \in Int
            /\ lastFired[<<s, Pricing>>] <= lastFired'[<<s, Pricing>>]
  <2> TAKE s \in Sellers
  <2>1. <<s, Pricing>> \in Recurring
    BY AgentFacts, KeyIsRecurring
  <2>2. /\ lastFired[<<s, Pricing>>] \in Int /\ lastFired[<<s, Pricing>>] <= tick
        /\ lastFired'[<<s, Pricing>>] \in {tick, lastFired[<<s, Pricing>>]}
    BY <1>1, <2>1 DEF ReviewsInv, ScheduleInv, ScheduleTypeOK, FiredNow
  <2> QED BY <1>4, <2>1, <2>2
<1>12. Awaiting'
  <2>1. ASSUME cut = {}, NEW s \in Sellers, NEW q \in pending'[s]
        PROVE  /\ q.issued <= lastFired'[<<s, Pricing>>]
               /\ q.issued = tick => q \in asked
               /\ \/ q.issued = tick \/ q \in inbox[s]
                  \/ q \in requests /\ q.issued..(tick - 1) \subseteq broken
    <3>1. q \in pending[s] /\ s \in Agents
      BY <1>5, <2>1, AgentFacts
    <3>2. /\ q.issued <= lastFired[<<s, Pricing>>] /\ q.issued \in Nat
          /\ q.issued = tick => q \in asked
          /\ \/ q.issued = tick \/ q \in inbox[s]
             \/ q \in requests /\ q.issued..(tick - 1) \subseteq broken
      BY <1>4, <2>1, <3>1 DEF ReviewsInv, Awaiting
    <3>3. lastFired[<<s, Pricing>>] <= lastFired'[<<s, Pricing>>] /\ lastFired[<<s, Pricing>>] \in Int
            /\ lastFired'[<<s, Pricing>>] \in Int
      BY <1>2, <1>11 DEF ScheduleInv, ScheduleTypeOK
    <3> QED BY <3>2, <3>3
  <2> QED BY <1>1, <2>1 DEF Awaiting
<1>13. ASSUME NEW s \in Sellers, InTime(s)' PROVE Fresh(s)'
  <2>1. Fresh(s) /\ InTime(s) /\ s \in Agents
    BY <1>1, <1>13, AgentFacts DEF ReviewsInv, InTime, Late, Gap
  <2>2. CASE s # a
    <3>1. pending'[s] = pending[s] /\ ~(Now(s)')
      BY <1>1, <1>5, <2>1, <2>2 DEF Now
    <3> QED BY <1>1, <2>1, <3>1 DEF Fresh
  <2>3. CASE s = a
    <3>1. ASSUME NEW q \in pending[s]
          PROVE  /\ tick - q.issued <= Late /\ Late \in Nat /\ Late # 0
                 /\ q.issued <= lastFired[<<s, Pricing>>] /\ q.issued \in Nat
      <4>1. /\ q.issued < tick /\ q.issued \in Nat /\ q.issued <= lastFired[<<s, Pricing>>]
            /\ q.issued..(tick - 1) \subseteq broken
        BY <1>1, <1>3, <1>4, <2>1, <2>3, <3>1 DEF ReviewsInv, Awaiting, InTime
      <4>2. IsFiniteSet(broken) /\ Late \in Nat
        <5>1. broken \subseteq 1..(tick - 1) /\ IsFiniteSet(1..(tick - 1))
          BY <1>4, TicksBetween DEF ReviewsInv, Figures
        <5> QED BY <5>1, FS_Subset, FS_CardinalityType DEF Late
      <4>3. Cardinality(q.issued..(tick - 1)) = tick - q.issued
        BY <1>4, <4>1, TicksBetween
      <4>4. Cardinality(q.issued..(tick - 1)) <= Late
        BY <4>1, <4>2, FS_Subset DEF Late
      <4> QED BY <1>4, <4>1, <4>2, <4>3, <4>4
    <3>2. pending'[s] = pending[s]
      <4>1. \A q \in pending[s] : ~Expired(q)
        BY <1>4, <2>1, <3>1, AgentFacts DEF InTime, Expired
      <4> QED BY <1>5, <2>1, <2>3, <4>1
    <3>3. Pricing \in todo' => pending[s] = {}
      <4>1. SUFFICES ASSUME Due(<<s, Pricing>>), NEW q \in pending[s] PROVE FALSE
        BY <1>1, <2>3
      <4>2. DueTick(<<s, Pricing>>) = lastFired[<<s, Pricing>>] + Gap(s)
        <5>1. /\ lastFired[<<s, Pricing>>] \in Int /\ offset[<<s, Pricing>>] \in Int
              /\ CycleTicks[Pricing] \in Nat
          <6>1. <<s, Pricing>> \in Recurring
            BY AgentFacts, KeyIsRecurring
          <6> QED BY <6>1, RecurringFacts DEF ReviewsInv, ScheduleInv, ScheduleTypeOK
        <5> QED BY <5>1 DEF DueTick, Gap
      <4>3. Gap(s) \in Int /\ lastFired[<<s, Pricing>>] \in Int
        <5>1. <<s, Pricing>> \in Recurring
          BY AgentFacts, KeyIsRecurring
        <5> QED BY <5>1, RecurringFacts DEF ReviewsInv, ScheduleInv, ScheduleTypeOK, Gap
      <4>4. lastFired[<<s, Pricing>>] + Gap(s) <= tick
        BY <4>1, <4>2 DEF Due
      <4>5. tick - q.issued <= Late /\ Late \in Nat /\ Late < Gap(s)
            /\ q.issued <= lastFired[<<s, Pricing>>] /\ q.issued \in Nat
        BY <2>1, <3>1 DEF InTime
      <4> QED BY <1>4, <4>3, <4>4, <4>5
    <3> QED BY <1>1, <2>1, <3>2, <3>3 DEF Fresh
  <2> QED BY <2>2, <2>3
<1> QED BY <1>2, <1>6, <1>7, <1>8, <1>9, <1>10, <1>12, <1>13 DEF ReviewsInv

(* A review is run and asks its questions.                                 *)
LEMMA ReviewInv ==
    ASSUME ReviewsInv, NEW a \in Agents, NEW x \in ActionsOf(a), Review(a, x)
    PROVE  ReviewsInv'
<1> DEFINE all == Queries(a, Asks(x))
           attached == Queries(a, Attaches(x))
<1>1. /\ Runs(a, x) /\ Now(a) /\ firing /\ x \in todo /\ todo' = todo \ {x}
      /\ pending' = [pending EXCEPT ![a] = @ \cup all] /\ asked' = asked \cup attached
      /\ UNCHANGED <<requests, inbox, cache, pricedFor, restsOn, reviews, broken>>
      /\ UNCHANGED <<tick, turn, firing, lastFired, offset, cut>>
    BY DEF Review, Runs
<1>2. ScheduleInv'
    BY <1>1, ScheduleStepInv DEF ReviewsInv, ScheduleNext
<1>3. \A b : /\ ToPrepare(b)' <=> ToPrepare(b)
             /\ Now(b)' <=> Now(b)
             /\ \A T : Queries(b, T)' = Queries(b, T)
    BY <1>1 DEF ToPrepare, Now, Queries
<1>4. ~ToPrepare(a) /\ tick \in 1..MaxTick /\ tick \in Nat /\ Roster[turn] = a
    BY <1>1, NowToPrepare, ScheduleFacts DEF ReviewsInv, Now
<1>5. /\ attached \subseteq all /\ all \subseteq Query
      /\ \A q \in all : q.agent = a /\ q.issued = tick
      /\ attached # {} => a \in Sellers /\ x = Pricing
      /\ a \in Sellers => x = Pricing /\ attached = all
  <2>1. x = Pricing => a \in Sellers
    <3>1. Pricing # "compute_statistics"
      BY DEF Pricing
    <3> QED BY <3>1, AgentFacts
  <2>2. a \in Sellers => x = Pricing
    BY AgentFacts
  <2>3. /\ Attaches(x) = IF x = Pricing THEN Asks(x) ELSE {}
        /\ Asks(x) \subseteq Templates
    BY DEF Attaches, Asks, Pricing, Templates
  <2>4. all \subseteq Query /\ \A q \in all : q.agent = a /\ q.issued = tick
    BY <1>4, <2>3 DEF Queries, Query
  <2>5. (Attaches(x) # {} => x = Pricing) /\ (attached # {} => Attaches(x) # {})
    BY <2>3 DEF Queries
  <2>6. attached \subseteq all /\ (x = Pricing => attached = all)
    BY <2>3 DEF Queries
  <2> HIDE DEF all, attached
  <2> QED BY <2>1, <2>2, <2>4, <2>5, <2>6
<1>6. /\ \A b \in Agents : pending'[b] = IF b = a THEN pending[a] \cup all ELSE pending[b]
      /\ pending' \in [Agents -> SUBSET Query]
    BY <1>1, <1>5 DEF ReviewsInv, Dated
<1>7. x = Pricing => all = Queries(a, Asks(Pricing))
    OBVIOUS
<1>8. a \in Sellers => \E q \in all : q.about = "sales_analytics"
  <2>1. SUFFICES ASSUME a \in Sellers
                 PROVE  \E q \in all : q.about = "sales_analytics"
    OBVIOUS
  <2>2. all = Queries(a, {"sales_analytics", "competitor_prices"})
    BY <1>5, <2>1 DEF Asks, Pricing
  <2>3. [agent |-> a, about |-> "sales_analytics", issued |-> tick] \in all
    BY <2>2 DEF Queries
  <2> HIDE DEF all
  <2> QED BY <2>3
<1> HIDE DEF all, attached
<1>9. Dated'
    BY <1>1, <1>3, <1>4, <1>5, <1>6 DEF ReviewsInv, Dated
<1>10. OfReviews'
  <2>1. ASSUME NEW q \in asked'
        PROVE  /\ q.agent \in Sellers /\ ~ToPrepare(q.agent)
               /\ Queries(q.agent, Asks(Pricing)) \subseteq pending'[q.agent]
    <3>1. CASE q \in asked
      <4>1. q.agent \in Sellers /\ ~ToPrepare(q.agent) /\ q.agent \in Agents
            /\ Queries(q.agent, Asks(Pricing)) \subseteq pending[q.agent]
        BY <3>1, AgentFacts DEF ReviewsInv, OfReviews
      <4> QED BY <1>6, <4>1
    <3>2. CASE q \in attached
      BY <1>4, <1>5, <1>6, <1>7, <3>2
    <3> QED BY <1>1, <2>1, <3>1, <3>2
  <2> QED BY <1>3, <2>1 DEF OfReviews
<1>11. Expires'
  <2>1. ASSUME NEW b \in Agents, NEW q \in pending'[b]
        PROVE  /\ \A t \in (q.issued + QueryTTL + 1)..(tick - 1) : t \in cut
               /\ ToPrepare(b) \/ tick - q.issued <= QueryTTL
    <3>1. CASE q \in pending[b]
      BY <3>1 DEF ReviewsInv, Expires
    <3>2. CASE q \in all
      <4>1. q.issued = tick /\ tick - tick = 0 /\ 0 <= QueryTTL
        BY <1>4, <1>5, <3>2, AgentFacts
      <4>2. \A t \in (tick + QueryTTL + 1)..(tick - 1) : FALSE
        BY <1>4, AgentFacts
      <4> QED BY <4>1, <4>2
    <3> QED BY <1>6, <2>1, <3>1, <3>2
  <2> QED BY <1>1, <1>3, <2>1 DEF Expires
<1>12. Figures'
    BY <1>1 DEF ReviewsInv, Figures
<1>13. HasDrained'
    BY <1>1, <1>3 DEF ReviewsInv, HasDrained
<1>14. lastFired[<<a, x>>] = tick
    BY <1>1, <1>4 DEF ReviewsInv, ScheduleInv, ToRunIsMarked
<1>15. Awaiting'
  <2>1. ASSUME cut = {}, NEW s \in Sellers, NEW q \in pending'[s]
        PROVE  /\ q.issued <= lastFired[<<s, Pricing>>]
               /\ q.issued = tick => q \in asked'
               /\ \/ q.issued = tick \/ q \in inbox[s]
                  \/ q \in requests /\ q.issued..(tick - 1) \subseteq broken
    <3>1. CASE q \in pending[s]
      <4>1. asked \subseteq asked'
        BY <1>1
      <4> QED BY <2>1, <3>1, <4>1 DEF ReviewsInv, Awaiting
    <3>2. CASE s = a /\ q \in all
      BY <1>1, <1>4, <1>5, <1>14, <3>2
    <3> QED BY <1>6, <2>1, <3>1, <3>2, AgentFacts
  <2> QED BY <1>1, <2>1 DEF Awaiting
<1>16. ASSUME NEW s \in Sellers, InTime(s)' PROVE Fresh(s)'
  <2>1. Fresh(s) /\ s \in Agents
    BY <1>1, <1>16, AgentFacts DEF ReviewsInv, InTime, Late, Gap
  <2>2. CASE s # a
    <3>1. pending'[s] = pending[s] /\ ~(Now(s)') /\ UNCHANGED <<cache, pricedFor, restsOn, reviews>>
      BY <1>1, <1>3, <1>6, <2>1, <2>2 DEF Now
    <3> QED BY <2>1, <3>1 DEF Fresh
  <2>3. CASE s = a
    <3>1. x = Pricing /\ pending[s] = {} /\ pending'[s] = all /\ todo' = {}
      <4>1. x = Pricing /\ Now(s) /\ todo \subseteq {Pricing}
        BY <1>1, <1>5, <2>3, ScheduleFacts, AgentFacts DEF ReviewsInv
      <4>2. pending[s] = {}
        BY <1>1, <2>1, <4>1 DEF Fresh
      <4> QED BY <1>1, <1>6, <2>1, <2>3, <4>1, <4>2
    <3>2. \A t \in reviews[s] : t <= cache[s]
      BY <2>1, <3>1 DEF Fresh
    <3>3. /\ cache[s] \in Nat /\ cache[s] < tick
          /\ \A t \in reviews[s] : t \in Nat /\ t < tick
      BY DEF ReviewsInv, Figures
    <3>4. \A q \in pending'[s] : q.issued = tick
      BY <1>5, <3>1
    <3>5. ~(\A q \in pending'[s] : q.about # "sales_analytics")
      BY <1>8, <2>3, <3>1
    <3>6. \A q \in pending'[s] :
            /\ cache[s] <= q.issued
            /\ \A p \in pending'[s] : p.issued = q.issued
            /\ \A t \in reviews[s] : t <= q.issued
            /\ cache[s] < q.issued /\ \A t \in reviews[s] : t <= cache[s] \/ t >= q.issued
      BY <1>4, <3>2, <3>3, <3>4
    <3>7. restsOn[s] <= pricedFor[s] /\ \A t \in reviews[s] : t <= restsOn[s] \/ t >= pricedFor[s]
      BY <2>1 DEF Fresh
    <3> QED BY <1>1, <3>1, <3>5, <3>6, <3>7 DEF Fresh
  <2> QED BY <2>2, <2>3
<1> QED BY <1>2, <1>9, <1>10, <1>11, <1>12, <1>13, <1>15, <1>16 DEF ReviewsInv

LEMMA LeaveInv ==
    ASSUME ReviewsInv, NEW a \in Agents, Leave(a) PROVE ReviewsInv'
<1>1. /\ EndTurn(a) /\ todo = {} /\ todo' = {} /\ firing' = FALSE
      /\ UNCHANGED <<tick, lastFired, offset, cut>>
      /\ UNCHANGED <<pending, asked, requests, inbox, cache, pricedFor, restsOn, reviews, broken>>
    BY DEF Leave, EndTurn, reviewVars
<1>2. ScheduleInv'
    BY <1>1, ScheduleStepInv DEF ReviewsInv, ScheduleNext
<1>3. \A b : ToPrepare(b)' <=> ToPrepare(b)
    BY <1>1, LeftIsPrepared DEF ReviewsInv
<1>4. Dated' /\ Expires' /\ Figures' /\ HasDrained' /\ Awaiting'
    BY <1>1, <1>3 DEF ReviewsInv, Dated, Expires, Figures, HasDrained, Awaiting
<1>5. OfReviews'
    BY <1>1, <1>3 DEF ReviewsInv, OfReviews, Queries
<1>6. ASSUME NEW s \in Sellers, InTime(s)' PROVE Fresh(s)'
  <2>1. Fresh(s)
    BY <1>1, <1>6 DEF ReviewsInv, InTime, Late, Gap
  <2> QED BY <1>1, <2>1 DEF Fresh
<1> QED BY <1>2, <1>4, <1>5, <1>6 DEF ReviewsInv

(* Some of the requests are answered; the others are asked again in the    *)
(* next tick.                                                              *)
LEMMA RoutingInv ==
    ASSUME ReviewsInv, EndTick, NEW answered \in SUBSET (requests \cup asked),
           inbox' = Delivered(answered), reviews' = Reviewed, asked' = {},
           UNCHANGED <<pending, cache, pricedFor, restsOn>>,
           requests' \subseteq requests \cup asked,
           \A q \in requests \cup asked : q \notin answered => q \in requests' /\ tick \in broken',
           broken \subseteq broken', broken' \subseteq broken \cup {tick}
    PROVE  ReviewsInv'
<1>1. /\ tick' = tick + 1 /\ turn = Len(Roster) + 1 /\ turn' = 1 /\ firing' = FALSE /\ todo' = {}
      /\ UNCHANGED <<lastFired, offset, cut>>
    BY DEF EndTick, NextTick
<1>2. ScheduleInv'
    BY ScheduleStepInv DEF ReviewsInv, ScheduleNext
<1>3. tick \in Nat /\ tick \in 1..MaxTick
    BY ScheduleFacts DEF ReviewsInv
<1>4. /\ requests \subseteq Query /\ asked \subseteq Query
      /\ \A q \in asked : q.issued = tick
      /\ \A q \in requests : q.issued < tick
    BY DEF ReviewsInv, Dated
<1>5. /\ \A b \in Agents : inbox'[b] = inbox[b] \cup {q \in answered : q.agent = b}
      /\ inbox' \in [Agents -> SUBSET Query]
    BY <1>4 DEF Delivered, Answers, ReviewsInv, Dated
<1>6. \A q \in requests \cup asked : q.issued <= tick /\ q.issued \in Nat
    BY <1>3, <1>4, ScheduleAssumption DEF Query, ScheduleAssumption
<1>7. \A b \in Agents : \A q \in pending[b] : q.agent = b /\ q.issued <= tick /\ q.issued \in Nat
    BY ScheduleAssumption DEF ReviewsInv, Dated, Query, ScheduleAssumption
<1>8. Dated'
  <2>1. \A b \in Agents : \A q \in inbox'[b] : q.agent = b /\ q.issued < tick + 1
    <3> TAKE b \in Agents
    <3> TAKE q \in inbox'[b]
    <3>1. CASE q \in inbox[b]
      <4>1. q.agent = b /\ q.issued < tick /\ q.issued \in Nat
        BY <3>1, ScheduleAssumption DEF ReviewsInv, Dated, Query, ScheduleAssumption
      <4> QED BY <1>3, <4>1
    <3>2. CASE q \in answered /\ q.agent = b
      BY <1>3, <1>6, <3>2
    <3> QED BY <1>5, <3>1, <3>2
  <2>2. \A q \in requests' : q.issued < tick + 1
    BY <1>3, <1>6
  <2>3. \A b \in Agents : \A q \in pending[b] : q.agent = b /\ q.issued <= tick + 1 /\ q.issued < tick + 1
    BY <1>3, <1>7
  <2>4. pending \in [Agents -> SUBSET Query]
    BY DEF ReviewsInv, Dated
  <2> QED BY <1>1, <1>4, <1>5, <2>1, <2>2, <2>3, <2>4 DEF Dated
<1>9. OfReviews'
    BY DEF OfReviews
<1>10. Expires'
  <2>1. ASSUME NEW b \in Agents, NEW q \in pending[b]
        PROVE  \A t \in (q.issued + QueryTTL + 1)..((tick + 1) - 1) : FALSE
    <3>1. ~ToPrepare(b)
      BY <1>1, <2>1, NobodyToPrepare
    <3>2. tick - q.issued <= QueryTTL /\ q.issued \in Nat /\ QueryTTL \in Nat
      BY <1>7, <2>1, <3>1, AgentFacts DEF ReviewsInv, Expires
    <3> QED BY <1>3, <3>2
  <2>2. \A b : ToPrepare(b)'
    BY <1>1, RosterFacts DEF ToPrepare
  <2> QED BY <1>1, <2>1, <2>2 DEF Expires
<1>11. \A s \in Sellers : /\ reviews'[s] = reviews[s] \cup {q.issued : q \in Answers(s, asked)}
                          /\ \A t \in reviews'[s] : t \in reviews[s] \/ t = tick
    BY <1>4 DEF Reviewed, Answers
<1>12. Figures'
  <2>1. \A s \in Sellers : \A t \in reviews'[s] : t \in Nat /\ 1 <= t /\ t < tick + 1
    BY <1>3, <1>11 DEF ReviewsInv, Figures
  <2>2. reviews' \in [Sellers -> SUBSET Nat]
    BY <2>1 DEF Reviewed
  <2>3. broken' \subseteq 1..((tick + 1) - 1)
    BY <1>3 DEF ReviewsInv, Figures
  <2>4. \A s \in Sellers : /\ cache[s] < tick + 1 /\ pricedFor[s] < tick + 1
                           /\ restsOn[s] < tick + 1
    BY <1>3 DEF ReviewsInv, Figures
  <2>5. /\ cache \in [Sellers -> Nat] /\ pricedFor \in [Sellers -> Nat]
        /\ restsOn \in [Sellers -> Nat]
    BY DEF ReviewsInv, Figures
  <2> QED BY <1>1, <2>1, <2>2, <2>3, <2>4, <2>5 DEF Figures
<1>13. HasDrained'
    BY <1>1 DEF HasDrained
<1>14. Awaiting'
  <2>1. ASSUME cut = {}, NEW s \in Sellers, NEW q \in pending[s]
        PROVE  /\ q.issued <= lastFired[<<s, Pricing>>] /\ q.issued # tick + 1
               /\ \/ q \in inbox'[s]
                  \/ q \in requests' /\ q.issued..((tick + 1) - 1) \subseteq broken'
    <3>1. s \in Agents /\ q.agent = s /\ q.issued <= tick /\ q.issued \in Nat
      BY <1>7, AgentFacts
    <3>2. /\ q.issued <= lastFired[<<s, Pricing>>]
          /\ q.issued = tick => q \in asked
          /\ \/ q.issued = tick \/ q \in inbox[s]
             \/ q \in requests /\ q.issued..(tick - 1) \subseteq broken
      BY <2>1 DEF ReviewsInv, Awaiting
    <3>3. CASE q \in inbox[s] \/ q \in answered
      BY <1>3, <1>5, <3>1, <3>2, <3>3
    <3>4. CASE q \notin inbox[s] /\ q \notin answered
      <4>1. q \in requests \cup asked /\ q.issued..(tick - 1) \subseteq broken
        <5>1. q.issued = tick => q.issued..(tick - 1) = {}
          BY <1>3
        <5> QED BY <3>2, <3>4, <5>1
      <4>2. q \in requests' /\ tick \in broken'
        BY <3>4, <4>1
      <4>3. \A t \in q.issued..((tick + 1) - 1) : t = tick \/ t \in q.issued..(tick - 1)
        BY <1>3, <3>1
      <4> QED BY <1>3, <3>1, <3>2, <4>1, <4>2, <4>3
    <3> QED BY <3>3, <3>4
  <2> QED BY <1>1, <2>1 DEF Awaiting
<1>15. ASSUME NEW s \in Sellers, InTime(s)' PROVE Fresh(s)'
  <2>1. InTime(s)
    <3>1. IsFiniteSet(broken')
      <4>1. broken' \subseteq 1..((tick + 1) - 1)
        BY <1>3 DEF ReviewsInv, Figures
      <4>2. IsFiniteSet(1..((tick + 1) - 1))
        <5>1. 1 \in Nat /\ tick + 1 \in Nat
          BY <1>3
        <5> QED BY <5>1, TicksBetween
      <4> QED BY <4>1, <4>2, FS_Subset
    <3>2. Late <= Late' /\ Late \in Nat /\ Late' \in Nat
      BY <3>1, FS_Subset, FS_CardinalityType DEF Late
    <3>3. Gap(s)' = Gap(s) /\ Gap(s) \in Int
      <4>1. <<s, Pricing>> \in Recurring
        BY AgentFacts, KeyIsRecurring
      <4> QED BY <1>1, <4>1, RecurringFacts DEF ReviewsInv, ScheduleInv, ScheduleTypeOK, Gap
    <3>4. cut' = {} /\ (Late' = 0 \/ (Late' < Gap(s)' /\ Late' <= QueryTTL))
      BY <1>15 DEF InTime
    <3>5. cut = {} /\ QueryTTL \in Nat
      BY <1>1, <3>4, AgentFacts
    <3>6. Late = 0 \/ (Late < Gap(s) /\ Late <= QueryTTL)
      BY <3>2, <3>3, <3>4, <3>5
    <3> QED BY <3>5, <3>6 DEF InTime
  <2>2. Fresh(s) /\ s \in Agents
    BY <2>1, AgentFacts DEF ReviewsInv
  <2>3. /\ cache[s] \in Nat /\ cache[s] < tick
        /\ pricedFor[s] \in Nat /\ pricedFor[s] < tick
        /\ restsOn[s] \in Nat /\ reviews[s] \subseteq Nat
    BY DEF ReviewsInv, Figures
  <2>4. CASE reviews'[s] = reviews[s]
    BY <1>1, <2>2, <2>4 DEF Fresh
  <2>5. CASE reviews'[s] # reviews[s]
    <3>1. PICK q \in asked : q.agent = s
      <4>1. CASE Answers(s, asked) = {}
        BY <1>11, <2>5, <4>1
      <4>2. CASE Answers(s, asked) # {}
        BY <4>2 DEF Answers
      <4> QED BY <4>1, <4>2
    <3> DEFINE mine == [agent |-> s, about |-> "sales_analytics", issued |-> tick]
    <3>2. mine \in pending[s]
      <4>1. Queries(s, Asks(Pricing)) \subseteq pending[s]
        BY <3>1 DEF ReviewsInv, OfReviews
      <4>2. mine \in Queries(s, Asks(Pricing))
        BY DEF Queries, Asks, Pricing
      <4> QED BY <4>1, <4>2
    <3>3. mine.issued = tick /\ mine.about = "sales_analytics"
      OBVIOUS
    <3> HIDE DEF mine
    <3>4. \A p \in pending[s] : p.issued = tick
      BY <2>2, <3>2, <3>3 DEF Fresh
    <3>5. \A t \in reviews'[s] : t \in Nat /\ t <= tick /\ (t <= cache[s] \/ t >= tick)
      <4>1. \A t \in reviews[s] : t <= tick /\ (t <= cache[s] \/ t >= tick)
        BY <2>2, <3>2, <3>3 DEF Fresh
      <4> QED BY <1>3, <1>11, <2>3, <4>1
    <3>6. \A t \in reviews'[s] : t <= restsOn[s] \/ t >= pricedFor[s]
      <4>1. \A t \in reviews[s] : t <= restsOn[s] \/ t >= pricedFor[s]
        BY <2>2 DEF Fresh
      <4> QED BY <1>3, <1>11, <2>3, <4>1
    <3>7. restsOn[s] <= pricedFor[s]
      BY <2>2 DEF Fresh
    <3>8. \A p \in pending[s] :
            /\ cache[s] <= p.issued /\ cache[s] < p.issued
            /\ \A r \in pending[s] : r.issued = p.issued
            /\ \A t \in reviews'[s] : t <= p.issued /\ (t <= cache[s] \/ t >= p.issued)
      BY <1>3, <2>3, <3>4, <3>5
    <3> QED BY <1>1, <3>2, <3>3, <3>6, <3>7, <3>8 DEF Fresh
  <2> QED BY <2>4, <2>5
<1> QED BY <1>2, <1>8, <1>9, <1>10, <1>12, <1>13, <1>14, <1>15 DEF ReviewsInv

LEMMA CutShortInv ==
    ASSUME ReviewsInv, CutShort PROVE ReviewsInv'
<1>1. /\ Abort /\ tick' = tick + 1 /\ turn' = 1 /\ firing' = FALSE /\ todo' = {}
      /\ cut' = cut \cup {tick}
      /\ inbox' = [a \in Agents |-> IF Now(a) THEN {} ELSE inbox[a]]
      /\ asked' = {}
      /\ UNCHANGED <<pending, requests, cache, pricedFor, restsOn, reviews, broken>>
    BY DEF CutShort, Abort, NextTick
<1>2. ScheduleInv'
    BY <1>1, ScheduleStepInv DEF ReviewsInv, ScheduleNext
<1>3. tick \in Nat /\ cut' # {}
    BY <1>1, ScheduleFacts DEF ReviewsInv
<1>4. \A q \in Query : q.issued \in Nat
    BY ScheduleAssumption DEF Query, ScheduleAssumption
<1>5. \A b \in Agents : \A q \in pending[b] : q.issued \in Nat /\ q.issued <= tick /\ q.agent = b
    BY <1>4 DEF ReviewsInv, Dated
<1>6. Dated'
  <2>1. inbox' \in [Agents -> SUBSET Query] /\ \A b \in Agents : inbox'[b] \subseteq inbox[b]
    BY <1>1 DEF ReviewsInv, Dated
  <2>2. \A b \in Agents : \A q \in inbox'[b] : q.agent = b /\ q.issued < tick + 1
    BY <1>3, <1>4, <2>1 DEF ReviewsInv, Dated
  <2>3. \A q \in requests : q.issued < tick + 1
    BY <1>3, <1>4 DEF ReviewsInv, Dated
  <2>4. \A b \in Agents : \A q \in pending[b] : q.issued <= tick + 1 /\ q.issued < tick + 1
    BY <1>3, <1>5
  <2> QED BY <1>1, <1>5, <2>1, <2>2, <2>3, <2>4 DEF ReviewsInv, Dated
<1>7. OfReviews'
    BY <1>1 DEF OfReviews
<1>8. Expires'
  <2>1. ASSUME NEW b \in Agents, NEW q \in pending[b], NEW t \in (q.issued + QueryTTL + 1)..((tick + 1) - 1)
        PROVE  t \in cut'
    <3>1. t = tick \/ t \in (q.issued + QueryTTL + 1)..(tick - 1)
      BY <1>3, <1>5, AgentFacts
    <3> QED BY <1>1, <3>1 DEF ReviewsInv, Expires
  <2>2. \A b : ToPrepare(b)'
    BY <1>1, RosterFacts DEF ToPrepare
  <2> QED BY <1>1, <2>1, <2>2 DEF Expires
<1>9. Figures'
  <2>1. \A s \in Sellers :
            /\ cache[s] < tick + 1 /\ pricedFor[s] < tick + 1 /\ restsOn[s] < tick + 1
            /\ \A t \in reviews[s] : 1 <= t /\ t < tick + 1
    BY <1>3 DEF ReviewsInv, Figures
  <2>2. broken \subseteq 1..((tick + 1) - 1)
    BY <1>3 DEF ReviewsInv, Figures
  <2> QED BY <1>1, <2>1, <2>2 DEF ReviewsInv, Figures
<1>10. HasDrained' /\ Awaiting'
    BY <1>1, <1>3 DEF HasDrained, Awaiting
<1>11. \A s \in Sellers : ~(InTime(s)')
    BY <1>3 DEF InTime
<1> QED BY <1>2, <1>6, <1>7, <1>8, <1>9, <1>10, <1>11 DEF ReviewsInv

LEMMA InitInv == Init => ReviewsInv
<1> SUFFICES ASSUME Init PROVE ReviewsInv
    OBVIOUS
<1>1. ScheduleInv /\ tick = 1 /\ firing = FALSE /\ todo = {}
    BY ScheduleInitInv DEF Init, ScheduleInit
<1>2. /\ pending = [a \in Agents |-> {}] /\ inbox = [a \in Agents |-> {}]
      /\ asked = {} /\ requests = {} /\ broken = {}
      /\ cache = [s \in Sellers |-> 0] /\ pricedFor = [s \in Sellers |-> 0]
      /\ restsOn = [s \in Sellers |-> 0] /\ reviews = [s \in Sellers |-> {}]
    BY DEF Init, Never
<1>3. Dated /\ OfReviews /\ Expires /\ HasDrained
    BY <1>1, <1>2 DEF Dated, OfReviews, Expires, HasDrained
<1>4. Figures /\ Awaiting
    BY <1>1, <1>2, AgentFacts DEF Figures, Awaiting
<1>5. \A s \in Sellers : Fresh(s)
    BY <1>1, <1>2, AgentFacts DEF Fresh
<1> QED BY <1>1, <1>3, <1>4, <1>5 DEF ReviewsInv

LEMMA StepInv == ReviewsInv /\ [Next]_vars => ReviewsInv'
<1> SUFFICES ASSUME ReviewsInv, [Next]_vars PROVE ReviewsInv'
    OBVIOUS
<1>1. ASSUME NEW a \in Agents, ReadAnswer(a) PROVE ReviewsInv'
    BY <1>1, ReadAnswerInv
<1>2. ASSUME NEW a \in Agents, Prepare(a) PROVE ReviewsInv'
    BY <1>2, PrepareInv
<1>3. ASSUME NEW a \in Agents, Leave(a) PROVE ReviewsInv'
    BY <1>3, LeaveInv
<1>4. ASSUME NEW a \in Agents, NEW x \in ActionsOf(a), Review(a, x) PROVE ReviewsInv'
    BY <1>4, ReviewInv
<1>5. CASE Route
  <2>1. /\ EndTick /\ inbox' = Delivered(requests \cup asked) /\ reviews' = Reviewed
        /\ asked' = {} /\ requests' = {} /\ broken' = broken
        /\ UNCHANGED <<pending, cache, pricedFor, restsOn>>
    BY <1>5 DEF Route
  <2> DEFINE answered == requests \cup asked
  <2>2. /\ answered \in SUBSET (requests \cup asked)
        /\ \A q \in requests \cup asked : q \in answered
    OBVIOUS
  <2>3. inbox' = Delivered(answered)
    BY <2>1
  <2> HIDE DEF answered
  <2> QED BY <2>1, <2>2, <2>3, RoutingInv
<1>6. CASE RouteBreaks
  <2>1. PICK answered \in SUBSET (requests \cup asked) : inbox' = Delivered(answered)
    BY <1>6 DEF RouteBreaks
  <2>2. /\ EndTick /\ reviews' = Reviewed /\ asked' = {}
        /\ requests' = requests \cup asked /\ broken' = broken \cup {tick}
        /\ UNCHANGED <<pending, cache, pricedFor, restsOn>>
    BY <1>6 DEF RouteBreaks, KeptRequests
  <2>3. /\ broken \subseteq broken' /\ broken' \subseteq broken \cup {tick}
        /\ requests' \subseteq requests \cup asked
        /\ \A q \in requests \cup asked : q \notin answered => q \in requests' /\ tick \in broken'
    BY <2>2
  <2> QED BY <2>1, <2>2, <2>3, RoutingInv
<1>7. CASE CutShort
    BY <1>7, CutShortInv
<1>8. CASE UNCHANGED vars
  <2>1. /\ UNCHANGED <<tick, turn, firing, todo, lastFired, offset, ran, cut>>
        /\ UNCHANGED <<pending, asked, requests, inbox, cache, pricedFor, restsOn, reviews, broken>>
    BY <1>8 DEF vars, scheduleVars, reviewVars
  <2>2. ScheduleInv'
    BY <1>8, StepSchedules, ScheduleStepInv DEF ReviewsInv
  <2>3. /\ \A b : ToPrepare(b)' <=> ToPrepare(b)
        /\ \A b : Now(b)' <=> Now(b)
        /\ \A b, T : Queries(b, T)' = Queries(b, T)
    BY <2>1 DEF ToPrepare, Now, Queries
  <2>4. Dated' /\ OfReviews' /\ Expires' /\ Figures' /\ HasDrained' /\ Awaiting'
    BY <2>1, <2>3 DEF ReviewsInv, Dated, OfReviews, Expires, Figures, HasDrained, Awaiting
  <2>5. \A s \in Sellers : InTime(s)' => Fresh(s)'
    BY <2>1, <2>3 DEF ReviewsInv, InTime, Fresh, Late, Gap
  <2> QED BY <2>2, <2>4, <2>5 DEF ReviewsInv
<1> QED BY <1>1, <1>2, <1>3, <1>4, <1>5, <1>6, <1>7, <1>8 DEF Next

LEMMA AlwaysInv == Spec => []ReviewsInv
BY InitInv, StepInv, PTL DEF Spec
-----------------------------------------------------------------------------
(* Every variable has its type, and an agent waits for an answer longer    *)
(* than QUERY_TTL only while the ticks in which to give it up were cut     *)
(* short (_expire_pending_queries).                                        *)
THEOREM TypeCorrect == Spec => []TypeOK
<1>1. ReviewsInv => TypeOK
  <2> SUFFICES ASSUME ReviewsInv PROVE TypeOK
    OBVIOUS
  <2>1. tick \in Nat /\ ScheduleTypeOK
    BY ScheduleFacts DEF ReviewsInv, ScheduleInv
  <2>2. /\ \A s \in Sellers : /\ cache[s] \in 0..tick /\ pricedFor[s] \in 0..tick
                              /\ restsOn[s] \in 0..tick /\ reviews[s] \subseteq 1..tick
        /\ broken \subseteq 1..(tick - 1)
    BY <2>1 DEF ReviewsInv, Figures
  <2>3. /\ cache \in [Sellers -> 0..tick] /\ pricedFor \in [Sellers -> 0..tick]
        /\ restsOn \in [Sellers -> 0..tick] /\ reviews \in [Sellers -> SUBSET (1..tick)]
    BY <2>2 DEF ReviewsInv, Figures
  <2>4. \A a \in Agents : \A q \in pending[a] :
            /\ q.agent = a
            /\ \A t \in (q.issued + QueryTTL + 1)..(tick - 1) : t \in cut
    BY DEF ReviewsInv, Dated, Expires
  <2> QED BY <2>1, <2>2, <2>3, <2>4 DEF ReviewsInv, Dated, TypeOK
<1> QED BY <1>1, AlwaysInv, PTL

(* Figures that were kept or used, and those on their way, are those of    *)
(* reviews whose queries were routed.                                      *)
Routed ==
    /\ \A q \in requests : q.agent \in Sellers /\ q.issued \in reviews[q.agent]
    /\ \A s \in Sellers :
        /\ \A q \in inbox[s] : q.issued \in reviews[s]
        /\ cache[s] \in reviews[s] \cup {Never} /\ restsOn[s] \in reviews[s] \cup {Never}

LEMMA RoutedInit == Init => Routed
BY AgentFacts DEF Init, Routed

LEMMA RoutedRouting ==
    ASSUME ReviewsInv, Routed, NEW answered \in SUBSET (requests \cup asked),
           inbox' = Delivered(answered), reviews' = Reviewed,
           requests' \subseteq requests \cup asked, UNCHANGED <<cache, restsOn>>
    PROVE  Routed'
<1>1. /\ \A s \in Sellers : reviews'[s] = reviews[s] \cup {q.issued : q \in Answers(s, asked)}
      /\ \A s \in Sellers : inbox'[s] = inbox[s] \cup Answers(s, answered)
    BY AgentFacts DEF Reviewed, Delivered
<1>2. ASSUME NEW q \in requests \cup asked
      PROVE  q.agent \in Sellers /\ q.issued \in reviews'[q.agent]
    BY <1>1 DEF Routed, ReviewsInv, OfReviews, Answers
<1>3. ASSUME NEW s \in Sellers, NEW q \in inbox'[s] PROVE q.issued \in reviews'[s]
  <2>1. CASE q \in inbox[s]
    BY <1>1, <2>1 DEF Routed
  <2>2. CASE q \in Answers(s, answered)
    BY <1>2, <2>2 DEF Answers
  <2> QED BY <1>1, <1>3, <2>1, <2>2
<1> QED BY <1>1, <1>2, <1>3 DEF Routed

LEMMA RoutedStep == ReviewsInv /\ Routed /\ [Next]_vars => Routed'
<1> SUFFICES ASSUME ReviewsInv, Routed, [Next]_vars PROVE Routed'
    OBVIOUS
<1>1. ASSUME NEW a \in Agents, ReadAnswer(a) PROVE Routed'
  <2>1. PICK q \in inbox[a] :
            /\ inbox' = [inbox EXCEPT ![a] = @ \ {q}]
            /\ cache' = IF Awaited(a, q) /\ q.about = "sales_analytics"
                        THEN [cache EXCEPT ![a] = q.issued] ELSE cache
            /\ \/ restsOn' = [restsOn EXCEPT ![a] = cache[a]]
               \/ restsOn' = restsOn
    BY <1>1 DEF ReadAnswer
  <2>2. UNCHANGED <<requests, reviews>>
    BY <1>1 DEF ReadAnswer
  <2>3. ASSUME NEW s \in Sellers
        PROVE  /\ inbox'[s] \subseteq inbox[s]
               /\ cache'[s] = cache[s] \/ (s = a /\ cache'[s] = q.issued)
               /\ restsOn'[s] = restsOn[s] \/ restsOn'[s] = cache[s]
    BY <2>1, AgentFacts DEF ReviewsInv, Dated, Figures
  <2> QED BY <2>1, <2>2, <2>3 DEF Routed
<1>2. CASE Route
  <2>1. /\ inbox' = Delivered(requests \cup asked) /\ reviews' = Reviewed /\ requests' = {}
        /\ UNCHANGED <<cache, restsOn>>
    BY <1>2 DEF Route
  <2> DEFINE answered == requests \cup asked
  <2>2. answered \in SUBSET (requests \cup asked) /\ inbox' = Delivered(answered)
    BY <2>1
  <2> HIDE DEF answered
  <2> QED BY <2>1, <2>2, RoutedRouting
<1>3. CASE RouteBreaks
  <2>1. PICK answered \in SUBSET (requests \cup asked) : inbox' = Delivered(answered)
    BY <1>3 DEF RouteBreaks
  <2>2. /\ reviews' = Reviewed /\ requests' = requests \cup asked
        /\ UNCHANGED <<cache, restsOn>>
    BY <1>3 DEF RouteBreaks, KeptRequests
  <2> QED BY <2>1, <2>2, RoutedRouting
<1>4. CASE CutShort
  <2>1. \A s \in Sellers : inbox'[s] \subseteq inbox[s]
    BY <1>4, AgentFacts DEF CutShort
  <2> QED BY <1>4, <2>1 DEF CutShort, Routed
<1>5. ASSUME UNCHANGED <<requests, inbox, cache, restsOn, reviews>> PROVE Routed'
    BY <1>5 DEF Routed
<1>6. CASE \E a \in Agents : Prepare(a) \/ Leave(a) \/ \E x \in ActionsOf(a) : Review(a, x)
    BY <1>5, <1>6 DEF Prepare, Leave, Review, reviewVars
<1>7. CASE UNCHANGED vars
    BY <1>5, <1>7 DEF vars, reviewVars
<1> QED BY <1>1, <1>2, <1>3, <1>4, <1>6, <1>7 DEF Next

(* As long as no answer was late enough to miss a review or to expire, a   *)
(* price rests on the sales figures of its own review or of the one before *)
(* it, whichever answer is read first (on_competitor_prices_result); only  *)
(* the price of a first review may rest on no figures.                     *)
THEOREM PricesAreRecent == Spec => []PriceIsRecent
<1>1. ReviewsInv /\ Routed => PriceIsRecent
  <2> SUFFICES ASSUME ReviewsInv, Routed, NEW s \in Sellers, cut = {},
                      Late = 0 \/ (Late < Gap(s) /\ Late <= QueryTTL)
               PROVE  restsOn[s] \in Basis(s)
    BY DEF PriceIsRecent, Late, Gap, Pricing
  <2>1. /\ restsOn[s] <= pricedFor[s]
        /\ \A t \in reviews[s] : t <= restsOn[s] \/ t >= pricedFor[s]
    BY DEF ReviewsInv, InTime, Fresh
  <2>2. restsOn[s] \in Nat /\ pricedFor[s] \in Nat /\ reviews[s] \subseteq Nat
    BY DEF ReviewsInv, Figures
  <2>3. restsOn[s] \in reviews[s] \cup {Never}
    BY DEF Routed
  <2> DEFINE before == {t \in reviews[s] : t < pricedFor[s]}
  <2>4. \A u \in before : u <= restsOn[s]
    BY <2>1, <2>2
  <2>5. restsOn[s] # pricedFor[s] => restsOn[s] \in before \cup {Never}
    BY <2>1, <2>2, <2>3
  <2> QED BY <2>4, <2>5 DEF Basis
<1> QED BY <1>1, RoutedInit, RoutedStep, AlwaysInv, InitInv, StepInv, PTL DEF Spec
=============================================================================
