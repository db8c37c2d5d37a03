# Verification of BizSim

BizSim simulates an economy of agents. A single-threaded tick engine
(`src/bizsim/engine.py`) steps consumers, sellers, suppliers, a transport and a
government agent one after the other; they talk through inboxes, ask a database
questions that are answered one tick later, and emit actions that a Go
translator turns into SQL. This directory holds TLA+ models of the parts whose
correctness depends on the order of things, the TLC runs that check them and
TLAPS proofs about them.

## Inventory

| Component | State | Operations | Hard because |
|---|---|---|---|
| Tick engine `bizsim/engine.py` | `current_tick`, agents, the queries of the tick, action log | `step`: sort inboxes, step every agent, route messages, answer queries | messages cross; an exception leaves a tick half done |
| Agent base `bizsim/agents/base.py` | `inbox`, `pending_queries`, `_last_fired` | drain, dispatch to `on_*`, expire queries, fire `handle_*` | answers late, twice or never; results in random order |
| Consumer `agents/consumer.py` | `pending_orders`, `completed_orders`, cart | browse, view, buy, pay, check history, cancel | cancels on data that is a tick old; answers cross |
| Seller `agents/seller.py` | `pending_incoming`, `orders`, `pending_restocks`, `sales_cache` | accept, ship when paid, confirm delivery, cancel, restock, price | two identifiers per order; payment against cancellation |
| Supplier `agents/supplier.py` | `_orders` | fulfil and forward restocks, produce | ids change type between agents |
| Transport `agents/transport.py` | `active_shipments`, `_pending_events` | accept, track, deliver | deliveries exist only through a schedule |
| Government `agents/government.py` | none of its own | file reports, compute statistics | a query that is never sent |
| Community `society/community.py` | influence graph, activation queue, trends | enqueue, cascade, decay, boost, strengthen | order of decay and boost; caps |
| Markets, schema, market factory | static data | lookups | nothing: read-only |
| Domain, events, channels | immutable records | SQL keyword guard | nothing |
| Sandbox, runner | one global flag | install an import guard | not used by the engine |
| Schedule `scheduling.yaml` | data | names `handle_*` methods | two names have no method |
| Go catalog `pkg/catalog` | operations, `validated` | load, validate, expand | the flag outlives later loads |
| Go handler, executor, reducers | none | execute patterns, reduce rows | statements of one event are not atomic |
| Operation catalogs `operations/*.yaml` | data | | parameter names must match the agents' |
| Social facade, media, `main.go` | none | | empty |

How they interact. `TickEngine.step` calls `agent.step(tick)` for each agent in
the order of the ids. An agent reads its query results, then its messages, then
fires its scheduled actions; each handler changes the agent's own state and
returns actions carrying messages, queries and database writes. After the last
agent has stepped the engine appends the messages to the recipients' inboxes and
the answers of the query handler to the askers'. So nothing sent in a tick is
seen before the next one, and all races of this system are races of messages
across ticks: a cancellation sent while an acceptance is on its way, a payment
sent on an acceptance that a cancellation has overtaken, a second cancellation
sent on a row that was read before the first was written.

What makes each component correct:

* engine: one tick of latency, order by sender, no message lost or read twice;
* agent base: no query waits for ever, no result is used after its time;
* consumer and seller: they end an order in the same way, stock is neither lost
  nor sold twice, an order that was paid arrives, every order ends;
* transport: goods are under way exactly for the orders that were paid;
* government: one report for each order paid;
* seller's stock and supplier: a restock that was ordered is stocked once, by the
  seller that ordered it; a low stock recovers; nothing is ordered twice;
* schedule: a recurring action runs once in each of its cycles, at a fixed
  distance, unless an exception takes its turn away;
* transport's reports: each milestone once, in the order of the way; the delivery
  at the eta, and the recipient told of it;
* reviews: nobody waits for ever for an answer, prices rest on recent figures;
* community: a cascade reaches each consumer once and within the hop limit, trends
  and weights keep their limits, and a trend fades unless it is fed;
* translator: an operation takes effect as a whole or not at all, the report is
  true, and a request panics for known causes only.

The hazards behind these are listed with their lines in `PROJECT.json`.

## Modules

| Module | What it is | Code |
|---|---|---|
| `OrderPipeline` | consumers, sellers, transport, government and the engine's tick around one kind of business: a purchase | `agents/*.py` |
| `OrderContract` | abstract: what a purchase promises, one record per request, no messages | |
| `TickEngine` | the engine and `BaseAgent.step` with handlers left open | `engine.py`, `agents/base.py` |
| `MessageBus` | abstract: what the engine promises about messages | |
| `Restock` | inventory review, restocks, supplier and their transport, on the queues of `MessageBus` | `seller.py`, `supplier.py`, `transport.py` |
| `Schedule` | when recurring actions run, with jitter and exceptions | `base.py`, `scheduling.yaml` |
| `Countdown` | abstract: an action with a gap that never changes | |
| `Tracking` | what transport reports of a shipment; extends `Schedule` | `transport.py` |
| `Reviews` | the pricing review, the government's review and the query list; extends `Schedule` | `seller.py`, `government.py`, `engine.py` |
| `Community` | influence cascades and trends | `society/community.py` |
| `Translator` | catalog, validation and execution of requests | `go-translator/pkg` |
| `OrderPipelineProofs`, `TickEngineProofs`, `RestockProofs`, `ScheduleProofs`, `TrackingProofs`, `ReviewsProofs`, `CommunityProofs`, `TranslatorProofs` | theorems about these modules | |
| `MCOrderPipeline`, `MCTickEngine`, `MCRestock`, `MCTracking`, `MCReviews`, `MCCommunity`, `MCTranslator` | small instances for TLC | |

They are layered. Until an exception `TickEngine` implements `MessageBus`
(`IsBus`); the queues of `OrderPipeline` and of `Restock` are a `MessageBus`
(`UsesBus`); `OrderPipeline` implements `OrderContract` (`FollowsContract`, with
liveness `ImplementsContract`). Until an exception `Schedule` implements
`Countdown` (`IsCountdown`), which is the `wait` counter with which
`OrderPipeline` and `Restock` abstract their reviews. `Tracking` and `Reviews` join
their own state to the actions of `Schedule` (`Drains`, `Runs`, `MarkDue`,
`EndTurn`, `EndTick`, `Abort`), so what is said of `Schedule` holds of them too.

### OrderPipeline

One step is one handler call, complete with every message and write it makes;
`Fires(a)` ends agent `a`'s turn and `EndTick` is `_emit_and_route` together with
the start of the next tick. How the state corresponds to the code:

| Variable | Code |
|---|---|
| `turn` | the loop over sorted agent ids; `Roster` is that order |
| `inbox`, `due` | each agent's deque, and the part of it that was there when the tick began. A message is appended at once and becomes due at the end of the tick, which is what routing after the loop amounts to, since the loop goes by ascending ids and routing sorts by sender |
| `asked`, `results` | queries of this tick; answers to those of the last |
| `wait` | ticks until the next `handle_order_history_check` |
| `status`, `buyer`, `vendor` | `pending_orders` and `completed_orders` |
| `stage`, `book`, `sold` | `pending_incoming`, `orders` (and its insertion order), the sum of the `update_inventory` writes |
| `eta` | `eta_tick` of the active shipment minus the current tick |
| `filed` | `insert_gov_record` writes about an order |
| `row`, `written` | the `consumer_orders` row as the query handler reads it, and with the writes of this tick: a query is answered before the writes of its tick are applied, as in the repository's integration test |

What is abstracted: products, prices and quantities (an order is one unit);
what makes a consumer buy or give up an order (free choice, so every probability
and every `is_late` is covered); order ids, except where they matter. `StoreId`
is the hash `store_order_id`, and may collide or be 0. A message names the
request it is about; for messages with transport and government this stands for
the `store_order_id` they carry, and the handlers here use it only through
`StoreId`. The consumer may name a seller that no agent has (`Strangers`), as
`randint(1, 10)` does when the catalog lists none; what is sent there is lost. The
seller's tests whether it has a transport and a government peer (`seller.py:146`,
`seller.py:164`) are left out: the model has both, and ids that are true.

`handle_update_tracking` runs in every tick, as `scheduling.yaml` says; shipments
arriving in one tick are reported in arbitrary order. Only products viewed and
history checks can be queried more than once in a tick, bounded by `MaxViews`.

### TickEngine

Agents have numeric ids and handlers may send to any other agent or unknown id and
query anything. No handler of the repository sends to its own agent, so `Emits` does
not either.
Answers may come in the step that asked, between later steps, again, or never. An
exception in a handler (`Fault`) leaves `step`: what the tick emitted and what the
agent had drained is lost. A sort is stated by what it returns: `Ranked(S, R)` is the
list of a finite set `S` in the order `R`, and `Sorted(items, I)` what stands at the
positions `I`, in the order of the sort key and, as Python's sort is stable, of the
positions among equals. `Emits` bounds a handler to one message (two for the
scheduled actions) and one query; more of either arise from several handlers in
the same tick.

### Restock

| Variable | Code |
|---|---|
| `box`, `due`, `fired` | the inboxes, as in `MessageBus`, and who has ended its turn in this tick |
| `wait`, `asked`, `level` | the schedule of `handle_evaluate_inventory`, its query, and the answer `on_inventory_levels_result` has still to read |
| `stock`, `shown` | the inventory row with the writes of this tick, and as the query handler reads it |
| `orderer`, `record` | the entry of a restock in `pending_restocks` and its status |
| `filled` | the supplier's `_orders` |
| `eta`, `landed` | the active shipment of a restock; how often it reached the stock |
| `seen` | history, not in the code: whether the goods of a restock are in the rows the query handler reads, or in the answers read now |

A seller has one product, since the code goes through the items of an inventory
one by one. The order in which agents step within a tick is left open, as no
agent sees what another does in the same tick. The one conversion that matters
is modelled by what it does: a seller keeps a restock under a `UUID` (`Uuid`),
messages carry its text (`Text`), and a lookup of one among the other finds
nothing, which is harmless at the supplier, who keeps the text, and not at the
seller. `SupplierOf` names a supplier that is an agent, or none: a supplier in the
catalog that nobody is would lose each order at `engine.py:110`, and
`RestockAssumption` rules it out. The supplier's test for a transport peer
(`supplier.py:49`) is left out, as the model has one. `Sells` and `TakesBack` stand for the `update_inventory` writes of an order
accepted and cancelled; `on_inventory_check_result` accepts whatever the stock is,
so it may fall below zero. `MaxSold` and the set `Restocks` bound how much is sold
and ordered. `AnswerFields` are the fields of the answer to `inventory_levels`,
whose handler reads the field `inventory`: with the test suite's query handler it
is there, with the answer the Go reducer builds it is not, and the list is empty
(`ListsLevels`). A review that finds no uuid left orders nothing, and
`LowStockRecovers` excepts that case.

### Schedule

| Variable | Code |
|---|---|
| `tick`, `turn` | `current_tick`, the loop over sorted agents; past the end in `_emit_and_route` |
| `lastFired`, `offset` | `_last_fired`, and the jitter drawn once in `_init_schedule` |
| `firing`, `todo` | the list `_fire_scheduled_actions` has collected, and what of it is still to be called |
| `ran` | the tick in which a handler was really called; the code keeps no such record, the properties need one |
| `cut` | ticks that an exception left half done |

`MarkDue` marks everything that is due before the first handler runs, as the code
does. `Abort` is an exception anywhere in the loop, also in the community hook after
the last agent; the engine is then stepped again with the next tick, as its callers
do. Two actions of `scheduling.yaml` name methods that do not exist; they are marked
and `Runs` is then an empty call. `MaxTick` and `MaxAborts` bound the ticks and the
exceptions.

### Tracking

| Variable | Code |
|---|---|
| `status`, `start`, `eta`, `reached` | an entry of `active_shipments` with its `milestones_reached`; it is deleted on delivery, here its `status` says so |
| `held` | shipments whose pick-up event waits in `_pending_events` |
| `out` | tracking events in the actions of this tick |
| `log` | what `action_log` holds of them: what the engine has routed |
| `doneAt` | the tick in which `_complete_delivery` ran |

A report is its share of the way. The code compares floats,
`elapsed / total >= 0.25`, 0.5 and 0.75, which are exact in binary, so the
comparison in whole numbers is the same. Shipments do not interact: the loop looks
at one after the other, and one of them shows everything.

### Reviews

| Variable | Code |
|---|---|
| `pending`, `inbox` | `pending_queries`, and the query results an agent has still to read, in no order since they are sorted by uuid |
| `asked`, `requests` | the queries in the actions of this tick, and `_current_tick_query_requests` |
| `cache`, `pricedFor`, `restsOn` | of `sales_cache` the tick its figures were asked in; for the prices the review that set them and the tick of the figures they rest on |
| `reviews`, `broken` | reviews whose queries were routed, ticks in which the query handler raised; kept for the properties |

Figures and prices are left out: only their age matters. The query handler is
external; it answers in the step that asks, or raises after having answered some
requests (`RouteBreaks`), which leaves all of them in the list to be asked again.
The government registers its query as pending and attaches it to nothing
(`Attaches`), as `government.py:51` does.

### Community

| Variable | Code |
|---|---|
| `queue`, `seeds` | `_activation_queue`, and the activations of one call of `run_propagation` by topic, cut off at `max_activations_per_tick` |
| `left`, `active`, `front`, `hops`, `tree` | the locals of `run_propagation` and `_propagate_topic`: topics to do, consumers activated, seeds of the hop, hops made, winning edges |
| `weight`, `trend` | the edge weights and each consumer's `trend_multiplier` |
| `quiet` | history, not in the code: the calls of `run_propagation` since a topic last reached a consumer, counted as far as a trend can be above neutral |

Weights and trends are whole steps. A random draw against a weight is a choice; the
draws of a hop are one step, which may let any set of edges win that has one winner
per target and includes a target every draw wins. Decay is a function that lowers
every trend above neutral, since all the code relies on is that it does. The
reading of the configuration and the emitted batch event are left out, and
`topic_weights`, which nothing fills, is empty. `Edges` is the ring `_initialize_graph`
builds, for any number of consumers and any degree; no other graph is looked at.

### Translator

| Variable | Code |
|---|---|
| `ops`, `events`, `validated` | the `Catalog` |
| `checked` | the operations the last successful `Validate` looked at; kept for the properties |
| `executor`, `loads` | whether `NewExecutor` has returned one; bound |
| `at`, `stage` | the operation of a request that is next, or failed; statements executed in its transaction |
| `rows`, `outcome` | statements that have taken effect, what the request has come to |

An SQL text is the set of parameters it names; rows and values are left out. Every
call of the database may fail, and a failed commit or single write may have taken
effect. Requests run one at a time or at once: no request looks at another's state,
so the steps of several are interleaved. A nil function and a nil map are panics
(`Read`, `Begin`). The reducer keys `Validate` is given (`CheckedReducers`) and those
the executor was made with (`Reducers`) are two arguments that nothing in the code
compares, and so are they here.

## Runs

| Run | Question | Instance |
|---|---|---|
| `pipeline` | do all parties' ledgers agree, does every order end, is the contract kept | 1 consumer, 1 seller, 1 unknown seller, 2 requests, transit 1 to 3 ticks, history every 2 ticks |
| `pipeline_crowd` | the same safety, whoever steps first; are the queues a bus | 2 consumers, 2 sellers, ids of the kinds mixed, 2 requests, transit 0 or 1, history every 3 ticks |
| `pipeline_collision` | what if two requests hash to one `store_order_id` | violation of `PaidIsDelivered` |
| `engine` | is an inbox read in order, is a query waited for too long, is the engine a bus | 3 agents, 1 unknown id, 1 query, 2 messages a tick, 3 ticks, time to live 1, 1 aborted tick |
| `restock` | do goods get lost, doubled or to the wrong seller; does the level a review decides on count all restocks ordered; does a low stock recover | 2 sellers that open with 1 and sell 1, 1 supplier, 2 restocks, threshold 1, transit 0 or 1, reviews 7 ticks apart |
| `restock_unmarked` | is a stocked restock recorded as received | violation of `ReceivedIsRecorded` |
| `restock_translated` | does a low stock recover when the translator answers | violation of `LowStockRecovers` |
| `tracking` | do actions keep their schedule; are reports sound, in order, and is the delivery told | transport and an agent with two actions, 1 shipment, transit 0 to 6 ticks, 8 ticks, 2 of them aborted |
| `reviews` | does waiting end, do prices rest on recent figures | 1 seller (cycle 3, jitter 2), the government (cycle 2), time to live 2, 10 ticks, 1 aborted, 2 with a failing query handler |
| `community` | is a cascade a forest within its limits, is influence earned, does a trend fade | ring of 6, degree 3, 2 hops, 2 topics, 3 activations of which 2 are taken, one sharer outside the graph, 2 consumers present |
| `translator` | is what a request reports true, what can make it panic | 4 files of which `Validate` refuses one, 6 requests, failing database, a reducer only `Validate` knows and one only the executor has |
| `translator_params` | do agents give the parameters the SQL names | violation of `ParametersSuffice`, files as in `operations/`, database that never fails |

Why the bounds are enough. Orders interact only through the seller's lookup by
`store_order_id`, the shared queues and the stock, so two requests show every
pairwise interference; two consumers and two sellers show every order of turns
between the parties. A transit of 0 to 3 ticks lets a delivery fall before, with
and after any answer to a cancellation, which travels two ticks. A history gap of
2 is the smallest with which a cancellation is answered before the next; the
shipped configuration asks for 50. In `TickEngine` nothing looks back further than
the time to live, and three agents suffice for two senders to one recipient.

In `Restock` two sellers with one supplier show every exchange of goods between
sellers, and two restocks of one seller every overlap of them. The path of a
restock is fixed but for its transit: with a transit of at most 1, seven ticks
between reviews are enough for the goods of the first to be in the level the next
one decides on, six are not: the goods then land in the tick in which the next review
asks, and are not yet in the rows its answer is made of. By default a transit takes 10
to 12 ticks, so 18 ticks would do, and the shipped schedule puts reviews at least 45
apart.

In `Tracking` a way of 6 ticks is the first on which all marks fall on different
ticks with room between them, shorter ones let several fall together, and two
aborted ticks are enough to jump over two marks. `Reviews` needs offsets that make
two reviews come 1 to 5 ticks apart: from 3 on the age of the figures is bounded
even when the query handler fails, at 2 it is not. In `Community` a cascade of two hops
in a ring of six meets itself from both sides; `Decay` takes one step, so that a
boost of two lasts over a tick. `Translator` has a request for every kind of
operation, in files that can be loaded before and after `Validate` in any order.

`TickEngine`, `Tracking` and `Reviews` stop at `MaxTick`, `Translator` when all
requests have ended and the loads are used up: their runs do not check deadlock.
`OrderPipeline`, `Restock` and `Community` never stop and their runs do.

Fairness is `WF_vars(Next)` for `OrderPipeline` and `Restock`: somebody calls `step`
again and again and nothing in it blocks. No fairness is assumed of any single
handler; each is reached because the loop reaches every agent. Deliveries come
because tracking is scheduled in every tick; `RestockArrives` and
`LowStockRecovers` rest on the same and on recurring reviews. `OrderSettles` needs
no luck of the consumer either: an order a registered seller has received is
accepted, paid and delivered unless cancelled. `Community` assumes no fairness:
nothing in `src/bizsim` calls `run_propagation` or `enqueue_activation`, since the engine only
hands each action to an optional hook (`engine.py:86-89`). What it promises is
stated call by call instead, in `TrendsFade`: a call that does not carry a topic to a
consumer takes a step off the most the trend can be.

What the violations show is stated with its lines under "findings" in
`PROJECT.json`. Further observations made with these models at other bounds, which
no run repeats:

* a `store_order_id` of 0 is falsy, and its delivery matches no order (`transport.py:34`);
* with a history check in every tick a late rejection reopens a cancelled row
  (`consumer.py:364`);
* a result is used one tick after its time to live, as the inbox is drained before
  queries expire (`base.py:66`);
* an exception delays the messages of that tick's other recipients, which are read
  in the tick after;
* reviews as far apart as the longest transit and five ticks, or less, order the same
  goods twice, although `SELLER.md:301` says "Consider pending restocks already in
  transit".

Where the documents and the code differ without a run that shows it:

* `COMMUNITY.md` boosts before it decays and rewires the ring, `community.py` decays
  first and has no rewiring; it multiplies by a satisfaction the code carries and never
  uses; and `COMMUNITY.md:8` has it run "once per tick", which nothing here does.
* `SELLER.md:131` and `SELLER.md:172-181` update the sales cache before prices are set.
  In `seller.py:323-333` the two answers of a review are read in the order of their
  uuids: if the competitors' prices come first, they are set on the sales of the review
  before, and in a first review on no sales at all, which count as 0 and lower
  the price by 5 %. `PriceIsRecent` says what still holds.
* `GOVERNMENT.md:33-35` emits a query, receives its result and inserts the statistics;
  `government.py:51-57` attaches the query to no action, so it is never sent and no
  statistics are inserted.
* `GO_TRANSLATOR.md:60` says `Validate` checks that "Every query-mode operation has a
  registered reducer", and `GO_TRANSLATOR.md:281` that an executor "cannot be constructed
  with an unvalidated catalog". `Validate` checks the keys it is given, which need not be
  the executor's (`catalog.go:89`, `executor.go:30`), and files may be loaded after it.
  `PanicsHaveCause` says what still holds.
* `QUERIES.md` and the consumer (`consumer.py:284`) call the list in an `order_history`
  answer `orders`, the reducer `items`; no operation in the Go catalog answers
  `competitor_prices`; `scheduling.yaml` lists `query_order_history` and
  `query_fulfillment_status`, for which there are no handlers.

## Proofs

All results hold for every value of the constants that satisfies the modules'
named assumptions.

`OrderPipelineProofs`, for any finite set of requests and any agents, roster,
transit times and history gap:

* `TypeCorrect`: `Spec => []TypeOK`.
* `PartiesAgree`: if no two requests share a `store_order_id` and none has 0
  (`IdsAreUsable`), `Spec => []Agreement`. `pipeline_collision` shows why the
  assumption is needed.
* `Refinement`: under the same assumption `Spec => FollowsContract`.

The invariant is `IInv`: the types, at most one `place_order` of a request
(`PlacedOnce`), and for each request `Sound(r)`, which ties what is under way to
both parties' records: a payment or a shipment notification is under way, or a
shipment active, only when the seller's record allows it; a confirmation of a
cancellation only when the seller has cancelled. `Agreement` alone is not
inductive, because a confirmation or a notification still in a queue decides what
the consumer will record later. `PlacedOnce` is needed because a second
`place_order` would put a settled order back into the queue. The lemmas on
`Post`, `Popped` and `PostToVendors` say what each does to the messages under
way; `ConsumerSound`, `SellerSound` and `OtherSound` have one step per action.
The refinement takes from `IInv` that no handler moves an order along an edge the
contract does not have.

Under the same assumption: `StockIsAccountedFor`
(`InventoryBalances`), `FreightStaysConserved` (`FreightIsConserved`) and
`ReportsStayMatched` (`ReportsMatchPayments`). The first needs `AInv`: a message or
an answer for a seller about an order is only ever at the seller the order names,
and that seller has the order in its book from the acceptance on. Otherwise a
cancellation could give stock back to a seller that never gave it. The other two
count messages. Lemmas about `Post`, `PostToVendors` and reading say that posting
adds one to one count and leaves the others alone, and that reading takes one away;
with `AInv` a delivery is matched to the order it is about, and `CInv` carries the
counts through every action.

`RowsFollow` (`RowFollowsStatus`) and `SettledRowsStay`
(`SettledRowIsFinal`), when also `HistoryGap >= 2` (`ChecksAreApart`); `scheduling.yaml`
has a cycle of about 50 ticks. With a check in every tick both fail: TLC finds an order that is asked about twice, and whose second
request is rejected after the first was confirmed. That the unconditional writes of
`on_cancel_confirmed` and `on_cancel_rejected` do no harm is a matter of time, so the
invariant tells the messages a tick began with (`IsOld`) from those it has added
(`IsNew`). `Timed` bounds how far the goods of an order can be while a cancellation of
it is considered, sent, read, rejected and the rejection read: each stage of the
cancellation takes a tick, and so does each stage of the delivery, which starts later
because the row that caused the request was written before the payment. `Once` says
that at most one request or rejection is under way and none after the seller has
cancelled; it rests on `ChecksOK`, that a consumer has one history check in flight.

`OrdersUseBus` (`UsesBus`) needs no assumption: each action reads at most the
first due message of one inbox and appends at the ends of others, so it is `Works` of
one agent or `NewTick`. It is the other half of `EngineIsBus` below: what the engine
promises is what the order model takes for granted.

`TickEngineProofs`, for any agents, handlers, times to live and query handler:
`EngineTypes`, `InboxesAreReadInOrder` (`ReadInOrder`), `WaitingIsBounded`
(`PendingIsBounded`) and `EngineIsBus` (`IsBus`). The first lemmas are about lists:
`RankedIs` and `RankedIsOnly` say that a finite set has exactly one list in a
strict total order, and that it is `Ranked`; `SortedIs`, `AtIs` and `AtConcat` carry
this to what stands at chosen positions. With them two lists are equal because
both are in the same order, which is how `OutIsSorted` shows that
the sort in `_emit_and_route` changes nothing: the loop goes by ascending ids. The
invariant `EngineInv` says beside the types that an agent whose turn is over has read
everything (`HasRead`), that what was emitted is of this tick
and rises by sender (`Outbox`), that inside a tick every inbox is in the order of the
sorts (`InboxesRise`), that until an exception the messages in it are so also between
ticks (`MessagesRise`), and that the ticks a query is overdue are ticks an exception cut short
(`Waits`, with one tick granted to those whose turn is to come). `MessagesRise` is what makes the sort at
the start of a tick invisible to the bus.

`RestockProofs`: `RestockTypeCorrect`, `StockAlwaysBalances`,
`RestocksStayInGoodHands`, `GoodsAreNeverLost` (`GoodsAreSomewhere`),
`NothingIsOrderedTwice` (`LevelCountsRestocks`) and `RestockUsesBus` (`UsesBus`). `StockBalances` counts restocks that have landed, which
stays right only if none lands twice or at a stranger, so the invariant follows a
restock through the boxes: at most one message is about it (`OneEach`), it is with
the agent that must act on it (`Right`), and a message, an active shipment and a
landing exclude each other (`Placed`). `NothingIsLost` is the converse, that an ordered
restock can be found in one of these places; the two give the count.

`NothingIsOrderedTwice` assumes `GapIsLong`: reviews at least the longest transit and
six ticks apart. These are the tick to the supplier, the one to transport, the one back,
the one to the seller, the one until the goods are in the rows that queries read, and
the one between question and answer. On a shorter gap TLC finds a level without the goods
of a restock, as nothing in `on_inventory_levels_result` looks at `pending_restocks`; it
is the times that keep restocks apart. `InTime` bounds how long the goods can still take
from each message (`MailInTime`), from the road (`EtaInTime`) and from the stock into an
answer (`SeenInTime`) against the ticks until the seller reads its next levels, and
`Clocks` ties that wait to the review. `scheduling.yaml` gives reviews a cycle of 60 and a
jitter of 15, at least 45 ticks, and a transit takes 12 at most, so 18 would do; the
repository's integration test sets a cycle of 10 and a base transit of 2, at most 4 with
the jitter, which just satisfies it.

`ScheduleProofs`: `RunsOnSchedule` (`OnSchedule`) and `ScheduleCountsDown`
(`IsCountdown`). The invariant adds to the types that no mark lies in the future,
that everything due is marked for an agent whose turn is over or whose handlers
run, and that what is still to run carries the mark of this tick. Its step lemmas
are stated about `[ScheduleNext]_scheduleVars`, so a module that extends `Schedule`
gets them by showing that its steps are such steps.

`TrackingProofs` does this first (`TracksOnSchedule`, `TrackingCountsDown`), then
proves the types, `StoryIsSound`, `StoryInOrder` and `DeliveryIsTold`, the last with
`PickUpIsTold` for the other end of the way. The invariants say that whatever was told of a shipment is remembered (`StoryInv`), that
a delivery falls into transport's turn and is told once and on time
(`DeliveryInv`), and, without an exception, that exactly the marks passed at the
last update are remembered (`OrderInv`); the arithmetic is that a way of three
ticks or more passes at most one mark a tick.

`ReviewsProofs` adds to the invariant of `ScheduleProofs` that queries and answers are
of their time (`Dated`, `OfReviews`), that what is still pending is expired only
in cut ticks (`Expires`), where an answer waited for can be (`Awaiting`), and that the
figures a seller has are of its last review or the one before (`Fresh`), all of reviews
that were routed (`Routed`), so that what a price rests on is in `Basis`. It proves
`TypeCorrect` (`TypeOK`, with the bound on waiting) and `PricesAreRecent`
(`PriceIsRecent`). The property grants no exception that cuts a tick
short, and of a failing query handler fewer ticks than lie between two reviews and no more than
an answer is waited for: otherwise the sales figures of one review come
after the competitors' prices of the next, or expire while the prices arrive.

`TranslatorProofs`: types, `OutcomeIsTrue` and `PanicsHaveCause`, with the
invariant `TranslatorInv`, which says job by job which operations are passed and
what the one under way has done. The two sets of reducer keys are unrelated.

`CommunityProofs`, for any ring: types, `NobodyIsWonTwice`, `InfluenceIsEarned`,
`TrendsAlwaysFade` (`TrendsFade`) and `CascadesAreForests` (`CascadeIsForest`). The
assumption on `Decay` is what the code's subtraction and its test on neutral give. `CascadeIsForest` compares a cascade with a
recursive function; its invariant says that some sequence of sets has the
layers of the cascade (`Layers`), the last of them everybody active, and only the last
meets the front. A least counterexample shows that there is one such
sequence, which is therefore the function's.

Every safety invariant, action property and step refinement that a passing run checks is
proved. Only model-checked is liveness under fairness, which is out of the prover's
reach: `PaidIsDelivered`, `OrderSettles` and the fair part of `ImplementsContract`, `RestockArrives`,
`LowStockRecovers`; and the four violations, which are single behaviours of small
instances.

## Plan

Left to do, in this order:

1. `PriceIsRecent` with ticks cut short: how much of the schedule a single exception
   may cost before the figures are too old.
2. The shape of the answers the reducers build, against the fields each
   `on_*_result` handler reads, as `AnswerFields` does for one of them.

## Not modelled

Markets and product schemas are lookups in static data, whose results are free
choices here. The domain records and the SQL keyword guard, the sandbox, the
runner, the social facade, the media placeholder and the empty `main.go` keep no
state that steps could disturb. The text of the SQL operations is data, and so are
the rows the reducers shape. `on_disruption_report` is never sent to. The action
log is read back by nothing but tests; `Tracking` keeps the part of it that is
about shipments.
