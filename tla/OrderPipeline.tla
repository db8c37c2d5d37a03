--------------------------- MODULE OrderPipeline ---------------------------
(***************************************************************************)
(* One purchase, from the consumer's intent to its delivery or its         *)
(* cancellation, across the consumer, seller, transport and government     *)
(* agents and the tick engine that runs them one after the other.          *)
(*                                                                         *)
(* The engine is single-threaded.  In a tick it lets every agent, in the   *)
(* order of their ids, process its query results, then its messages, then  *)
(* its scheduled actions; only then does it route what they emitted and    *)
(* answer their queries, so everything sent in a tick is read in the next. *)
(* One step of this module is one handler call.                            *)
(***************************************************************************)
EXTENDS Integers, Sequences, FiniteSets, SequencesExt

CONSTANTS
    Consumers, Sellers,   \* registered agents of the two kinds
    Transport, Government,
    Strangers,    \* seller ids a consumer may draw that no agent has
    Roster,       \* all agents, sorted by agent id
    Requests,     \* order_request_ids, the uuids purchases will draw
    StoreId,      \* the store_order_id that hashing gives to each request
    BaseTransit,  \* base_transit_ticks
    Jitter,       \* largest value of hash(shipment_id) % 3
    MaxViews,     \* bound: products a consumer views in a tick
    HistoryGap,   \* ticks between two order-history checks of a consumer
    NoAgent       \* the buyer and the vendor of an order nobody placed

Agents == Consumers \cup Sellers \cup {Transport, Government}

ASSUME AgentsAssumption ==
    /\ IsFiniteSet(Requests) /\ StoreId \in [Requests -> Nat]
    /\ Roster \in Seq(Agents) /\ IsInjective(Roster) /\ Range(Roster) = Agents
    /\ Consumers \cap Sellers = {}
    /\ {Transport, Government} \cap (Consumers \cup Sellers) = {}
    /\ Transport # Government
    /\ Strangers \cap Agents = {}
    /\ NoAgent \notin Agents \cup Strangers

ASSUME TimingAssumption ==
    /\ BaseTransit \in Nat /\ Jitter \in Nat /\ MaxViews \in Nat
    /\ HistoryGap \in Nat \ {0}

VARIABLES
    turn,       \* position in Roster of the agent that is stepping
    inbox,      \* each agent's queue of messages, in order of arrival
    due,        \* how many of them were there when the tick began
    asked,      \* queries registered in this tick
    results,    \* query results still to be read in this tick
    wait,       \* ticks until a consumer's next order-history check
    status,     \* consumer side: pending_orders and completed_orders
    buyer,      \* consumer side: who placed the order
    vendor,     \* consumer side: the seller it was placed with
    stage,      \* seller side: pending_incoming and orders
    book,       \* seller side: keys of `orders`, in insertion order
    sold,       \* inventory: units taken from a seller's stock
    eta,        \* transport side: ticks left of an active shipment
    filed,      \* government side: gov_records about an order
    row,        \* consumer_orders as the query handler reads it
    written     \* consumer_orders with the writes of this tick

engineVars == <<turn, asked, results, wait>>
consumerVars == <<status, buyer, vendor, written>>
sellerVars == <<stage, book, sold>>
vars == <<turn, inbox, due, asked, results, wait, status, buyer, vendor, stage,
          book, sold, eta, filed, row, written>>
-----------------------------------------------------------------------------
NoShipment == -1

(* Variant of Pending: an order is given up once its cancellation is sent. *)
PendingUntilCancel == {"requested", "accepted"}

Pending == {"requested", "accepted", "cancel_requested"}
Settled == {"delivered", "cancelled"}
Statuses == {"none"} \cup Pending \cup Settled
Stages == {"none", "queued", "accepted", "paid", "delivered", "cancelled"}

MessageTypes == {"place_order", "order_accepted", "payment", "ship_request",
                 "delivery_complete", "shipment_notification", "order_report",
                 "cancel_request", "cancel_confirmed", "cancel_rejected"}

(* The order a message is about names the ids its payload carries: the     *)
(* order_request_id, or StoreId of it in the messages with transport and   *)
(* government, whose handlers here use nothing else of it.                 *)
Message == [type : MessageTypes, from : Agents, order : Requests]
Mail(type, from, order) == [type |-> type, from |-> from, order |-> order]

Templates == {"product_details", "order_history", "inventory_check"}
Query == [agent : Consumers \cup Sellers, template : Templates,
          view : 0..MaxViews, orders : SUBSET Requests]
Ask(agent, template, view, orders) ==
    [agent |-> agent, template |-> template, view |-> view, orders |-> orders]

(* The query handler: order_history lists the consumer's orders.           *)
Rows(c) == {r \in Requests : buyer[r] = c /\ row[r] = "requested"}
Answer(q) == IF q.template = "order_history"
             THEN [q EXCEPT !.orders = Rows(q.agent)] ELSE q
-----------------------------------------------------------------------------
(* The engine's share of a step.                                           *)
Now(a) == turn <= Len(Roster) /\ Roster[turn] = a

(* _drain_inbox: results first, in the order of their random query_ids.    *)
Reads(a, q) ==
    /\ Now(a) /\ q \in results /\ q.agent = a
    /\ results' = results \ {q}
    /\ UNCHANGED <<turn, due, wait, row>>

(* _drain_inbox: then the messages the tick began with.                    *)
Receives(a, type, r) ==
    /\ Now(a) /\ due[a] > 0 /\ \A q \in results : q.agent # a
    /\ Head(inbox[a]).type = type /\ Head(inbox[a]).order = r
    /\ due' = [due EXCEPT ![a] = @ - 1]
    /\ UNCHANGED <<turn, results, wait, row>>

(* Once the inbox is drained the scheduled actions run, and the agent is   *)
(* done for this tick.                                                     *)
Fires(a) ==
    /\ Now(a) /\ due[a] = 0 /\ \A q \in results : q.agent # a
    /\ turn' = turn + 1
    /\ UNCHANGED <<due, results, row>>

Popped(a) == [inbox EXCEPT ![a] = Tail(@)]

(* Variant of Post: appendleft instead of append.                          *)
PostInFront(boxes, to, m) ==
    IF to \in Agents THEN [boxes EXCEPT ![to] = <<m>> \o @] ELSE boxes

(* A message to an agent that is not registered is dropped.                *)
Post(boxes, to, m) ==
    IF to \in Agents THEN [boxes EXCEPT ![to] = Append(@, m)] ELSE boxes

(* One message of a type to the vendor of each of a set of orders.         *)
PostToVendors(type, from, orders) ==
    [a \in Agents |->
        LET mine == SetToSeq({r \in orders : vendor[r] = a})
        IN  inbox[a] \o [i \in 1..Len(mine) |-> Mail(type, from, mine[i])]]
-----------------------------------------------------------------------------
(* Consumer handlers.                                                      *)

(* The consumer may or may not buy; the seller comes from the catalog or,  *)
(* when that has none, from randint, registered or not.                    *)
OnProductDetailsResult(c) ==
    \E q \in results :
        /\ Reads(c, q) /\ q.template = "product_details"
        /\ \/ UNCHANGED <<inbox, consumerVars>>
           \/ \E r \in Requests, s \in Sellers \cup Strangers :
                /\ status[r] = "none"
                /\ status' = [status EXCEPT ![r] = "requested"]
                /\ buyer' = [buyer EXCEPT ![r] = c]
                /\ vendor' = [vendor EXCEPT ![r] = s]
                /\ written' = [written EXCEPT ![r] = "requested"]
                /\ inbox' = Post(inbox, s, Mail("place_order", c, r))
        /\ UNCHANGED <<asked, sellerVars, eta, filed>>

OnOrderAccepted(c) ==
    \E r \in Requests :
        /\ Receives(c, "order_accepted", r)
        /\ LET s == Head(inbox[c]).from
           IN  IF status[r] \in Pending
               THEN /\ status' = [status EXCEPT ![r] = "accepted"]
                    /\ written' = [written EXCEPT ![r] = "accepted"]
                    /\ inbox' = Post(Popped(c), s, Mail("payment", c, r))
               ELSE inbox' = Popped(c) /\ UNCHANGED <<status, written>>
        /\ UNCHANGED <<buyer, vendor, asked, sellerVars, eta, filed>>

OnShipmentNotification(c) ==
    \E r \in Requests :
        /\ Receives(c, "shipment_notification", r)
        /\ inbox' = Popped(c)
        /\ IF status[r] \in Pending
           THEN /\ status' = [status EXCEPT ![r] = "delivered"]
                /\ written' = [written EXCEPT ![r] = "delivered"]
           ELSE UNCHANGED <<status, written>>
        /\ UNCHANGED <<buyer, vendor, asked, sellerVars, eta, filed>>

(* Which rows are late, and which of those the consumer gives up on, is    *)
(* free; an order that is no longer pending is left alone.                 *)
OnOrderHistoryResult(c) ==
    \E q \in results :
        /\ Reads(c, q) /\ q.template = "order_history"
        /\ \E late \in SUBSET q.orders :
             LET orders == {r \in late : status[r] \in Pending}
             IN  /\ status' = [r \in Requests |->
                        IF r \in orders THEN "cancel_requested" ELSE status[r]]
                 /\ written' = [r \in Requests |->
                        IF r \in orders THEN "cancel_requested" ELSE written[r]]
                 /\ inbox' = PostToVendors("cancel_request", c, orders)
        /\ UNCHANGED <<buyer, vendor, asked, sellerVars, eta, filed>>

(* The row is written whether or not the order is still pending.           *)
OnCancelConfirmed(c) ==
    \E r \in Requests :
        /\ Receives(c, "cancel_confirmed", r)
        /\ inbox' = Popped(c)
        /\ status' = [status EXCEPT ![r] = IF @ \in Pending THEN "cancelled" ELSE @]
        /\ written' = [written EXCEPT ![r] = "cancelled"]
        /\ UNCHANGED <<buyer, vendor, asked, sellerVars, eta, filed>>

OnCancelRejected(c) ==
    \E r \in Requests :
        /\ Receives(c, "cancel_rejected", r)
        /\ inbox' = Popped(c)
        /\ status' = [status EXCEPT ![r] = IF @ \in Pending THEN "accepted" ELSE @]
        /\ written' = [written EXCEPT ![r] = "accepted"]
        /\ UNCHANGED <<buyer, vendor, asked, sellerVars, eta, filed>>

(* The scheduled history check and shopping, the products then viewed.     *)
(* Variant of HistoryChecks: no cooldown between checks.                   *)
HistoryChecksEachTick(c) == {Ask(c, "order_history", 0, {})}

HistoryChecks(c) ==
    IF wait[c] = 0 THEN {Ask(c, "order_history", 0, {})} ELSE {}

ConsumerFires(c) ==
    /\ Fires(c)
    /\ \E views \in 0..MaxViews :
         asked' = asked \cup HistoryChecks(c)
                        \cup {Ask(c, "product_details", v, {}) : v \in 1..views}
    /\ wait' = [wait EXCEPT ![c] = IF @ = 0 THEN HistoryGap ELSE @]
    /\ UNCHANGED <<inbox, consumerVars, sellerVars, eta, filed>>
-----------------------------------------------------------------------------
(* Seller handlers.                                                        *)
Known(r) == stage[r] \notin {"none", "queued"}

(* Variants, of Payable: any order the seller knows is paid; of            *)
(* Cancellable: an order can be cancelled after it was paid.               *)
PayableOnceKnown(r) == Known(r)
CancellableAfterPayment(r) == stage[r] \in {"accepted", "paid"}

Payable(r) == stage[r] = "accepted"
Cancellable(r) == stage[r] = "accepted"

OnPlaceOrder(s) ==
    \E r \in Requests :
        /\ Receives(s, "place_order", r)
        /\ inbox' = Popped(s)
        /\ stage' = [stage EXCEPT ![r] = "queued"]
        /\ asked' = asked \cup {Ask(s, "inventory_check", 0, {r})}
        /\ UNCHANGED <<consumerVars, book, sold, eta, filed>>

OnInventoryCheckResult(s) ==
    \E q \in results, r \in Requests :
        /\ Reads(s, q) /\ q.template = "inventory_check" /\ q.orders = {r}
        /\ IF stage[r] = "queued"
           THEN /\ stage' = [stage EXCEPT ![r] = "accepted"]
                /\ book' = [book EXCEPT ![s] = Append(@, r)]
                /\ sold' = [sold EXCEPT ![s] = @ + 1]
                /\ inbox' = Post(inbox, buyer[r], Mail("order_accepted", s, r))
           ELSE UNCHANGED <<inbox, sellerVars>>
        /\ UNCHANGED <<consumerVars, asked, eta, filed>>

OnPayment(s) ==
    \E r \in Requests :
        /\ Receives(s, "payment", r)
        /\ IF Payable(r)
           THEN /\ stage' = [stage EXCEPT ![r] = "paid"]
                /\ inbox' = Post(Post(Popped(s), Transport, Mail("ship_request", s, r)),
                                 Government, Mail("order_report", s, r))
           ELSE inbox' = Popped(s) /\ UNCHANGED stage
        /\ UNCHANGED <<consumerVars, asked, book, sold, eta, filed>>

(* delivery_complete carries the order_id transport keeps, in which a      *)
(* store_order_id of 0 has become None, and nothing of the request: the    *)
(* first order with that store_order_id is taken to be the one.            *)
NoId == -1
OrderId(r) == IF StoreId[r] = 0 THEN NoId ELSE StoreId[r]
(* Variant of Matches: the seller's oldest order is taken.                 *)
MatchesAny(s, r) == DOMAIN book[s]

Matches(s, r) == {i \in DOMAIN book[s] : StoreId[book[s][i]] = OrderId(r)}

OnDeliveryComplete(s) ==
    \E r \in Requests :
        /\ Receives(s, "delivery_complete", r)
        /\ IF Matches(s, r) = {}
           THEN inbox' = Popped(s) /\ UNCHANGED stage
           ELSE \E i \in Matches(s, r) :
                  /\ \A j \in Matches(s, r) : i <= j
                  /\ LET o == book[s][i]
                     IN  /\ stage' = [stage EXCEPT ![o] = "delivered"]
                         /\ inbox' = Post(Popped(s), buyer[o],
                                          Mail("shipment_notification", s, o))
        /\ UNCHANGED <<consumerVars, asked, book, sold, eta, filed>>

OnCancelRequest(s) ==
    \E r \in Requests :
        /\ Receives(s, "cancel_request", r)
        /\ LET c == Head(inbox[s]).from
               answer == IF Cancellable(r) THEN "cancel_confirmed" ELSE "cancel_rejected"
           IN  inbox' = IF Known(r) THEN Post(Popped(s), c, Mail(answer, s, r))
                                    ELSE Popped(s)
        /\ IF Cancellable(r)
           THEN /\ stage' = [stage EXCEPT ![r] = "cancelled"]
                /\ sold' = [sold EXCEPT ![s] = @ - 1]
           ELSE UNCHANGED <<stage, sold>>
        /\ UNCHANGED <<consumerVars, asked, book, eta, filed>>
-----------------------------------------------------------------------------
(* Transport and government handlers.                                      *)
OnShipRequest ==
    \E r \in Requests, ticks \in BaseTransit..(BaseTransit + Jitter) :
        /\ Receives(Transport, "ship_request", r)
        /\ inbox' = Popped(Transport)
        /\ eta' = [eta EXCEPT ![r] = ticks]
        /\ UNCHANGED <<consumerVars, asked, sellerVars, filed>>

(* handle_update_tracking runs in every tick; a shipment that has come to  *)
(* its eta is reported to the seller that asked for it and dropped.        *)
Arrived == {r \in Requests : eta[r] = 0}

UpdateTracking ==
    /\ Fires(Transport)
    /\ inbox' = PostToVendors("delivery_complete", Transport, Arrived)
    /\ eta' = [r \in Requests |-> IF r \in Arrived THEN NoShipment ELSE eta[r]]
    /\ UNCHANGED <<consumerVars, asked, wait, sellerVars, filed>>

OnOrderReport ==
    \E r \in Requests :
        /\ Receives(Government, "order_report", r)
        /\ inbox' = Popped(Government)
        /\ filed' = [filed EXCEPT ![r] = @ + 1]
        /\ UNCHANGED <<consumerVars, asked, sellerVars, eta>>

(* Sellers and the government have no scheduled action for an order.       *)
OthersFire(a) ==
    /\ Fires(a)
    /\ UNCHANGED <<inbox, asked, wait, consumerVars, sellerVars, eta, filed>>
-----------------------------------------------------------------------------
(* _emit_and_route: the messages become readable, the queries are answered *)
(* from the rows of earlier ticks, then this tick's writes reach the       *)
(* database, and the next tick begins.                                     *)
(* Variant of CountDown: the eta of no shipment counts down too.           *)
CountDownPastZero(n) == n - 1

CountDown(n) == IF n > 0 THEN n - 1 ELSE n

EndTick ==
    /\ turn > Len(Roster)
    /\ turn' = 1
    /\ due' = [a \in Agents |-> Len(inbox[a])]
    /\ results' = {Answer(q) : q \in asked}
    /\ asked' = {}
    /\ row' = written
    /\ wait' = [c \in Consumers |-> CountDown(wait[c])]
    /\ eta' = [r \in Requests |-> CountDown(eta[r])]
    /\ UNCHANGED <<inbox, consumerVars, sellerVars, filed>>

Init ==
    /\ turn = 1
    /\ inbox = [a \in Agents |-> <<>>]
    /\ due = [a \in Agents |-> 0]
    /\ asked = {} /\ results = {}
    /\ wait \in [Consumers -> 0..(HistoryGap - 1)]
    /\ status = [r \in Requests |-> "none"]
    /\ buyer = [r \in Requests |-> NoAgent]
    /\ vendor = [r \in Requests |-> NoAgent]
    /\ stage = [r \in Requests |-> "none"]
    /\ book = [s \in Sellers |-> <<>>]
    /\ sold = [s \in Sellers |-> 0]
    /\ eta = [r \in Requests |-> NoShipment]
    /\ filed = [r \in Requests |-> 0]
    /\ row = [r \in Requests |-> "none"]
    /\ written = [r \in Requests |-> "none"]

ConsumerStep(c) ==
    \/ OnProductDetailsResult(c) \/ OnOrderHistoryResult(c)
    \/ OnOrderAccepted(c) \/ OnShipmentNotification(c)
    \/ OnCancelConfirmed(c) \/ OnCancelRejected(c)
    \/ ConsumerFires(c)

SellerStep(s) ==
    \/ OnInventoryCheckResult(s)
    \/ OnPlaceOrder(s) \/ OnPayment(s)
    \/ OnDeliveryComplete(s) \/ OnCancelRequest(s)
    \/ OthersFire(s)

Next ==
    \/ \E c \in Consumers : ConsumerStep(c)
    \/ \E s \in Sellers : SellerStep(s)
    \/ OnShipRequest \/ UpdateTracking
    \/ OnOrderReport \/ OthersFire(Government)
    \/ EndTick

(* TickEngine.step is called again and again and nothing in it blocks.     *)
Spec == Init /\ [][Next]_vars /\ WF_vars(Next)
-----------------------------------------------------------------------------
(* Properties.                                                             *)
(* How many messages of a type about an order are under way.               *)
UnderWay(type, r) ==
    Cardinality(UNION {{<<a, i>> : i \in {j \in DOMAIN inbox[a] :
        inbox[a][j].type = type /\ inbox[a][j].order = r}} : a \in Agents})

(* Every variable has its type, and no queue holds less than is due.       *)
TypeOK ==
    /\ turn \in 1..(Len(Roster) + 1)
    /\ inbox \in [Agents -> Seq(Message)]
    /\ due \in [Agents -> Nat] /\ \A a \in Agents : due[a] <= Len(inbox[a])
    /\ asked \subseteq Query /\ results \subseteq Query
    /\ wait \in [Consumers -> 0..HistoryGap]
    /\ status \in [Requests -> Statuses] /\ stage \in [Requests -> Stages]
    /\ buyer \in [Requests -> Consumers \cup {NoAgent}]
    /\ vendor \in [Requests -> Sellers \cup Strangers \cup {NoAgent}]
    /\ book \in [Sellers -> Seq(Requests)] /\ sold \in [Sellers -> Int]
    /\ eta \in [Requests -> {NoShipment} \cup (0..(BaseTransit + Jitter))]
    /\ filed \in [Requests -> Nat]
    /\ row \in [Requests -> Statuses] /\ written \in [Requests -> Statuses]

(* The two parties never disagree about how an order ended: what the       *)
(* consumer moved to completed_orders is what the seller's record says     *)
(* (on_shipment_notification and on_cancel_confirmed against               *)
(* on_delivery_complete and on_cancel_request).                            *)
Agreement ==
    \A r \in Requests : status[r] \in Settled => stage[r] = status[r]

(* Goods travel exactly for the orders that were paid and are not yet      *)
(* delivered, and once: a cancelled order never ships, a paid one is never *)
(* forgotten between seller and transport, and nothing arrives twice.      *)
FreightIsConserved ==
    \A r \in Requests :
        UnderWay("ship_request", r) + UnderWay("delivery_complete", r)
            + (IF eta[r] = NoShipment THEN 0 ELSE 1)
        = IF stage[r] = "paid" THEN 1 ELSE 0

(* The stock taken from a seller is the stock its live orders hold, in     *)
(* spite of cancellations that cross acceptances and payments              *)
(* (update_inventory in on_inventory_check_result and on_cancel_request).  *)
InventoryBalances ==
    \A s \in Sellers :
        sold[s] = Cardinality({r \in Requests : /\ vendor[r] = s
                               /\ stage[r] \in {"accepted", "paid", "delivered"}})

(* The government files one record for each order that was paid for and    *)
(* none for any other (order_report in on_payment).                        *)
ReportsMatchPayments ==
    \A r \in Requests :
        filed[r] + UnderWay("order_report", r)
        = IF stage[r] \in {"paid", "delivered"} THEN 1 ELSE 0

(* The consumer_orders row never leaves "delivered" or "cancelled": late   *)
(* answers to a cancellation do not reopen a settled order                 *)
(* (on_cancel_rejected writes "accepted" unconditionally).                 *)
SettledRowIsFinal ==
    [][\A r \in Requests : row[r] \in Settled => row'[r] = row[r]]_row

(* The database follows the agent: whatever the order of the answers, the  *)
(* last write about an order is the consumer's own view of it.             *)
RowFollowsStatus == written = status

(* Liveness, for orders placed with a seller that exists. *)

(* An order the seller was paid for is delivered to the consumer.          *)
PaidIsDelivered ==
    \A r \in Requests : stage[r] = "paid" ~> status[r] = "delivered"

(* Every order ends, delivered or cancelled.                               *)
OrderSettles ==
    \A r \in Requests : (status[r] = "requested" /\ vendor[r] \in Sellers)
                            ~> status[r] \in Settled

(* The pipeline implements the contract of a purchase: each handler is one *)
(* of its steps or invisible to it, and the promises are kept in the end.  *)
Deal == [none |-> "idle", queued |-> "placed", accepted |-> "reserved",
         paid |-> "paid", delivered |-> "delivered", cancelled |-> "withdrawn"]
Contract == INSTANCE OrderContract WITH
    deal <- [r \in Requests |-> Deal[stage[r]]],
    outcome <- [r \in Requests |-> IF status[r] \in Settled THEN status[r] ELSE "open"]

(* The queues of this module are the ones the engine provides (IsBus of    *)
(* TickEngine), so that nothing here depends on an order of messages or a  *)
(* latency the engine does not keep.                                       *)
Bus == INSTANCE MessageBus WITH box <- inbox
UsesBus == Bus!BusSpec

FollowsContract ==
    Contract!ContractInit /\ [][Contract!ContractNext]_(Contract!contractVars)
ImplementsContract == Contract!ContractSpec
=============================================================================
