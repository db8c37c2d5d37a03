------------------------------ MODULE Restock ------------------------------
(***************************************************************************)
(* A seller's stock: orders take units from it, a recurring review finds   *)
(* it low and orders more, and the goods come back through the supplier,   *)
(* the transport agent and the supplier again.                             *)
(*                                                                         *)
(* The agents run on the queues of MessageBus.  Who steps first in a tick  *)
(* is left open here: an agent reads only its own state and what was sent  *)
(* before the tick.  Each seller stocks one product; the code treats the   *)
(* items of an inventory alike, one after the other.                       *)
(***************************************************************************)
EXTENDS Integers, Sequences, FiniteSets, SequencesExt

CONSTANTS
    Sellers, Suppliers, Transport,
    SupplierOf,    \* the supplier the catalog gives for a seller's product
    NoSupplier,    \* when the catalog has none
    NoSeller,      \* of a restock nobody ordered
    NoLevel,       \* no answer to read
    AnswerFields,  \* the fields of an inventory_levels answer
    Restocks,      \* restock_order_ids, the uuids restocks will draw
    Threshold,     \* stock below which a review orders (10)
    RestockQty,    \* units in a restock (50)
    OpeningStock,
    BaseTransit,   \* base_transit_ticks
    Jitter,        \* largest value of hash(shipment_id) % 3
    ReviewGap,     \* ticks between two reviews of a seller
    MaxSold        \* bound: units each seller sells

Agents == Sellers \cup Suppliers \cup {Transport}

ASSUME RestockAssumption ==
    /\ IsFiniteSet(Restocks)
    /\ Sellers \cap Suppliers = {} /\ Transport \notin Sellers \cup Suppliers
    /\ SupplierOf \in [Sellers -> Suppliers \cup {NoSupplier}]
    /\ NoSupplier \notin Agents /\ NoSeller \notin Agents /\ NoLevel \notin Int
    /\ Threshold \in Nat /\ RestockQty \in Nat /\ OpeningStock \in Nat
    /\ BaseTransit \in Nat /\ Jitter \in Nat /\ MaxSold \in [Sellers -> Nat]
    /\ ReviewGap \in Nat \ {0}

VARIABLES
    box, due,   \* the queues of MessageBus
    fired,      \* agents that have ended their turn in this tick
    wait,       \* ticks until a seller's next review
    asked,      \* sellers that queried inventory_levels in this tick
    level,      \* the answer a seller has still to read
    stock,      \* inventory, with the writes of this tick
    shown,      \* inventory as the query handler reads it
    sold,       \* units that orders have taken from it
    returned,   \* those of them that cancellations gave back
    orderer,    \* who ordered a restock
    record,     \* its status in the seller's pending_restocks
    filled,     \* restocks in the supplier's _orders
    eta,        \* ticks left of an active restock shipment
    landed,     \* how often a restock was added to the stock
    seen        \* history: how far the goods of a restock are to be seen

sellerVars ==
    <<wait, asked, level, stock, sold, returned, orderer, record, landed>>
vars == <<box, due, fired, wait, asked, level, stock, shown, sold, returned,
          orderer, record, filled, eta, landed, seen>>

INSTANCE MessageBus
-----------------------------------------------------------------------------
NoShipment == -1

(* The goods of a restock are not to be seen yet; or are in the rows the   *)
(* query handler reads; or in the answers that sellers have to read.       *)
NotSeen == 0
InRows == 1
InAnswers == 2

MessageTypes == {"restock_order", "ship_request", "delivery_complete",
                 "restock_delivered"}
Message == [type : MessageTypes, from : Agents, restock : Restocks]
Mail(type, from, r) == [type |-> type, from |-> from, restock |-> r]

(* Variant of Post: appendleft instead of append.                          *)
PostInFront(boxes, to, m) ==
    IF to \in Agents THEN [boxes EXCEPT ![to] = <<m>> \o @] ELSE boxes

Post(boxes, to, m) ==
    IF to \in Agents THEN [boxes EXCEPT ![to] = Append(@, m)] ELSE boxes

(* The seller keeps a restock under the uuid it drew; every message about  *)
(* it carries the uuid's text, and so does the supplier's _orders.  The    *)
(* two never compare equal.                                                *)
Uuid(r) == [form |-> "uuid", of |-> r]
Text(r) == [form |-> "text", of |-> r]
SellerKey(r) == Uuid(r)
SupplierKey(r) == Text(r)

(* An agent's turn: results, messages, then what it fires.                 *)
Now(a) == a \notin fired
Receives(a, type, r) ==
    /\ Now(a) /\ due[a] > 0
    /\ a \in Sellers => level[a] = NoLevel
    /\ Head(box[a]).type = type /\ Head(box[a]).restock = r
    /\ due' = [due EXCEPT ![a] = @ - 1]
    /\ UNCHANGED <<fired, shown, seen>>
Fires(a) ==
    /\ Now(a) /\ due[a] = 0
    /\ a \in Sellers => level[a] = NoLevel
    /\ fired' = fired \cup {a}
    /\ UNCHANGED <<due, shown, seen>>
Popped(a) == [box EXCEPT ![a] = Tail(@)]
-----------------------------------------------------------------------------
(* An order is accepted, whatever the stock is, or cancelled again.        *)
Sells(s) ==
    /\ Now(s) /\ sold[s] < MaxSold[s]
    /\ sold' = [sold EXCEPT ![s] = @ + 1]
    /\ stock' = [stock EXCEPT ![s] = @ - 1]
    /\ UNCHANGED <<box, due, fired, wait, asked, level, shown, returned, orderer,
                   record, filled, eta, landed, seen>>
TakesBack(s) ==
    /\ Now(s) /\ returned[s] < sold[s]
    /\ returned' = [returned EXCEPT ![s] = @ + 1]
    /\ stock' = [stock EXCEPT ![s] = @ + 1]
    /\ UNCHANGED <<box, due, fired, wait, asked, level, shown, sold, orderer,
                   record, filled, eta, landed, seen>>

(* Variant of ReviewDue: a review in every tick.                           *)
ReviewAlways(s) == TRUE
ReviewDue(s) == wait[s] = 0

(* handle_evaluate_inventory                                               *)
SellerFires(s) ==
    /\ Fires(s)
    /\ IF ReviewDue(s)
       THEN asked' = asked \cup {s} /\ wait' = [wait EXCEPT ![s] = ReviewGap]
       ELSE UNCHANGED <<asked, wait>>
    /\ UNCHANGED <<box, level, stock, sold, returned, orderer, record, filled, eta,
                   landed>>

(* Variant of Low: off by one.                                             *)
LowByTwo(n) == n < Threshold - 1
Low(n) == n < Threshold

(* data.get("inventory", []): an answer without that field lists nothing.  *)
ListsLevels == "inventory" \in AnswerFields

(* on_inventory_levels_result: what has been ordered before is not looked  *)
(* at.  When the uuids of the model are used up nothing is ordered.        *)
OnInventoryLevels(s) ==
    /\ Now(s) /\ level[s] # NoLevel
    /\ level' = [level EXCEPT ![s] = NoLevel]
    /\ LET fresh == {r \in Restocks : orderer[r] = NoSeller}
       IN  IF ListsLevels /\ Low(level[s]) /\ SupplierOf[s] # NoSupplier /\ fresh # {}
           THEN \E r \in fresh :
                /\ orderer' = [orderer EXCEPT ![r] = s]
                /\ record' = [record EXCEPT ![r] = "ordered"]
                /\ box' = Post(box, SupplierOf[s], Mail("restock_order", s, r))
           ELSE UNCHANGED <<orderer, record, box>>
    /\ UNCHANGED <<due, fired, wait, asked, stock, shown, sold, returned, filled,
                   eta, landed, seen>>

OnRestockDelivered(s) ==
    \E r \in Restocks :
        /\ Receives(s, "restock_delivered", r)
        /\ box' = Popped(s)
        /\ stock' = [stock EXCEPT ![s] = @ + RestockQty]
        /\ landed' = [landed EXCEPT ![r] = @ + 1]
        /\ record' = [q \in Restocks |->
             IF orderer[q] = s /\ SellerKey(q) = Text(r) THEN "received" ELSE record[q]]
        /\ UNCHANGED <<wait, asked, level, sold, returned, orderer, filled, eta>>

OnRestockOrder(p) ==
    \E r \in Restocks :
        /\ Receives(p, "restock_order", r)
        /\ filled' = [filled EXCEPT ![r] = Head(box[p]).from]
        /\ box' = Post(Popped(p), Transport, Mail("ship_request", p, r))
        /\ UNCHANGED <<sellerVars, eta>>

(* _orders.get(str(restock_order_id)), and two variants: the lookup by the *)
(* uuid the seller drew; any order of the supplier.                        *)
EntryByUuid(r) == {q \in Restocks : filled[q] # NoSeller /\ SellerKey(q) = Text(r)}
AnyEntry(r) == {q \in Restocks : filled[q] # NoSeller}
Entry(r) == {q \in Restocks : filled[q] # NoSeller /\ SupplierKey(q) = Text(r)}

(* The order is not removed from _orders: a second delivery would be       *)
(* forwarded like the first.                                               *)
OnDeliveryComplete(p) ==
    \E r \in Restocks :
        /\ Receives(p, "delivery_complete", r)
        /\ IF Entry(r) = {} THEN box' = Popped(p)
           ELSE \E q \in Entry(r) :
                box' = Post(Popped(p), filled[q], Mail("restock_delivered", p, q))
        /\ UNCHANGED <<sellerVars, filled, eta>>

OnShipRequest ==
    \E r \in Restocks, ticks \in BaseTransit..(BaseTransit + Jitter) :
        /\ Receives(Transport, "ship_request", r)
        /\ box' = Popped(Transport)
        /\ eta' = [eta EXCEPT ![r] = ticks]
        /\ UNCHANGED <<sellerVars, filled>>

(* A shipment delivered is dropped; in the variant it is not.              *)
KeptInList(n) == n
Kept(n) == IF n = 0 THEN NoShipment ELSE n

(* The shipments that have come to their eta, reported to the supplier     *)
(* that asked for them, who is the one the seller orders from.             *)
UpdateTracking ==
    /\ Fires(Transport)
    /\ box' = [a \in Agents |->
            LET mine == SetToSeq({r \in Restocks :
                            eta[r] = 0 /\ SupplierOf[orderer[r]] = a})
            IN  box[a] \o [i \in DOMAIN mine |->
                            Mail("delivery_complete", Transport, mine[i])]]
    /\ eta' = [r \in Restocks |-> Kept(eta[r])]
    /\ UNCHANGED <<sellerVars, filled>>

(* handle_produce_goods reports figures and changes nothing.               *)
ProduceGoods(p) == Fires(p) /\ UNCHANGED <<box, sellerVars, filled, eta>>
-----------------------------------------------------------------------------
(* Variant of CountDown: the eta of no shipment counts down too.           *)
CountDownPastZero(n) == n - 1
CountDown(n) == IF n > 0 THEN n - 1 ELSE n

(* Goods that were stocked in a tick are in the rows once it has ended, and *)
(* in the answers once the next has.                                       *)
SeenNext(r) ==
    IF landed[r] = 0 THEN NotSeen
    ELSE IF seen[r] = NotSeen THEN InRows ELSE InAnswers

(* Queries are answered from the rows of earlier ticks, then the writes of *)
(* this tick reach the database.                                           *)
EndTick ==
    /\ fired = Agents /\ NewTick
    /\ fired' = {}
    /\ asked' = {}
    /\ level' = [s \in Sellers |-> IF s \in asked THEN shown[s] ELSE NoLevel]
    /\ shown' = stock /\ seen' = [r \in Restocks |-> SeenNext(r)]
    /\ wait' = [s \in Sellers |-> CountDown(wait[s])]
    /\ eta' = [r \in Restocks |-> CountDown(eta[r])]
    /\ UNCHANGED <<stock, sold, returned, orderer, record, filled, landed>>

Init ==
    /\ BusInit
    /\ fired = {} /\ asked = {}
    /\ wait \in [Sellers -> 0..(ReviewGap - 1)]
    /\ level = [s \in Sellers |-> NoLevel]
    /\ stock = [s \in Sellers |-> OpeningStock] /\ shown = stock
    /\ sold = [s \in Sellers |-> 0] /\ returned = sold
    /\ orderer = [r \in Restocks |-> NoSeller]
    /\ record = [r \in Restocks |-> "none"]
    /\ filled = [r \in Restocks |-> NoSeller]
    /\ eta = [r \in Restocks |-> NoShipment]
    /\ landed = [r \in Restocks |-> 0]
    /\ seen = [r \in Restocks |-> NotSeen]

SellerStep(s) ==
    \/ OnInventoryLevels(s) \/ Sells(s) \/ TakesBack(s)
    \/ OnRestockDelivered(s) \/ SellerFires(s)
SupplierStep(p) == OnRestockOrder(p) \/ OnDeliveryComplete(p) \/ ProduceGoods(p)

Turns ==
    \/ \E s \in Sellers : SellerStep(s)
    \/ \E p \in Suppliers : SupplierStep(p)
    \/ OnShipRequest \/ UpdateTracking
Next == Turns \/ EndTick

(* The engine goes on and steps every agent in every tick.                 *)
Spec == Init /\ [][Next]_vars /\ WF_vars(Next)
-----------------------------------------------------------------------------
UnderWay(type, r) ==
    Cardinality(UNION {{<<a, i>> : i \in {j \in DOMAIN box[a] :
        box[a][j].type = type /\ box[a][j].restock = r}} : a \in Agents})

(* Every variable has its type.                                            *)
TypeOK ==
    /\ box \in [Agents -> Seq(Message)] /\ due \in [Agents -> Nat]
    /\ fired \subseteq Agents /\ asked \subseteq Sellers
    /\ wait \in [Sellers -> 0..ReviewGap]
    /\ \A s \in Sellers : level[s] = NoLevel \/ level[s] \in Int
    /\ stock \in [Sellers -> Int] /\ shown \in [Sellers -> Int]
    /\ \A s \in Sellers : sold[s] \in 0..MaxSold[s] /\ returned[s] \in 0..sold[s]
    /\ orderer \in [Restocks -> Sellers \cup {NoSeller}]
    /\ record \in [Restocks -> {"none", "ordered", "received"}]
    /\ filled \in [Restocks -> Sellers \cup {NoSeller}]
    /\ eta \in [Restocks -> {NoShipment} \cup 0..(BaseTransit + Jitter)]
    /\ landed \in [Restocks -> Nat]
    /\ seen \in [Restocks -> {NotSeen, InRows, InAnswers}]

(* A restock that was ordered is in exactly one place, from the order to   *)
(* the seller's stock: never lost between the agents, never twice.         *)
GoodsAreSomewhere ==
    \A r \in Restocks :
        UnderWay("restock_order", r) + UnderWay("ship_request", r)
            + UnderWay("delivery_complete", r) + UnderWay("restock_delivered", r)
            + (IF eta[r] = NoShipment THEN 0 ELSE 1) + landed[r]
        = IF orderer[r] = NoSeller THEN 0 ELSE 1

(* The stock of a seller is what it opened with and what its own restocks  *)
(* brought, less what was sold and not returned: no restock lands at       *)
(* another seller.                                                         *)
StockBalances ==
    \A s \in Sellers :
        stock[s] = OpeningStock - sold[s] + returned[s] + RestockQty *
            Cardinality({r \in Restocks : orderer[r] = s /\ landed[r] > 0})

(* The level a seller decides on has the goods of every restock it ordered *)
(* before, so that nothing is ordered twice.  Nothing in                   *)
(* on_inventory_levels_result sees to it, which looks at no earlier        *)
(* restock, and a restock that has landed is not in an answer that was     *)
(* asked for in the same tick: it takes reviews far enough apart.          *)
LevelCountsRestocks ==
    \A s \in Sellers, r \in Restocks :
        level[s] # NoLevel /\ orderer[r] = s => seen[r] = InAnswers

(* The seller's books say received for the restocks it has stocked.        *)
ReceivedIsRecorded ==
    \A r \in Restocks : landed[r] > 0 => record[r] = "received"

(* A restock that was ordered is stocked in the end.                       *)
RestockArrives ==
    \A r \in Restocks : orderer[r] # NoSeller ~> landed[r] > 0

(* A seller with a supplier does not stay low while it can order.          *)
LowStockRecovers ==
    \A s \in Sellers : (stock[s] < Threshold /\ SupplierOf[s] # NoSupplier) ~>
        stock[s] >= Threshold \/ (\A r \in Restocks : orderer[r] # NoSeller)

(* The queues are used as the engine lets agents use them.                 *)
UsesBus == BusSpec
=============================================================================
