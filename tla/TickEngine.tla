----------------------------- MODULE TickEngine -----------------------------
(***************************************************************************)
(* The tick loop (TickEngine.step) and the part of every agent that it     *)
(* drives (BaseAgent.step): one inbox for messages and query results, the  *)
(* queries an agent waits for and their time to live, the routing of what  *)
(* a tick has emitted.  What handlers do with what they read is left open: *)
(* each may send messages and issue queries.                               *)
(*                                                                         *)
(* The query handler is external: it may answer a query in the step that   *)
(* issued it, append the answer to the inbox between two later steps, even *)
(* a second time, or never answer.                                         *)
(***************************************************************************)
EXTENDS Integers, Sequences, FiniteSets, SequencesExt

CONSTANTS
    Ids,        \* agent_ids of the registered agents
    Strangers,  \* ids messages are sent to that no agent has
    Bodies,     \* what tells the messages of one sender apart
    QueryIds,   \* the uuids queries will draw; how they sort is not known
    QueryTTL,   \* QUERY_TTL
    MaxTick,    \* bound: ticks
    MaxOut,     \* bound: messages sent in a tick
    MaxFaults   \* bound: ticks aborted by an exception

ASSUME EngineAssumption ==
    /\ IsFiniteSet(Ids) /\ Ids \subseteq Int /\ Strangers \cap Ids = {}
    /\ QueryIds \subseteq Nat /\ QueryTTL \in Nat
    /\ MaxTick \in Nat /\ MaxOut \in Nat /\ MaxFaults \in Nat

VARIABLES
    tick,      \* current_tick
    turn,      \* position of the agent that steps; 0 between two ticks
    inbox,     \* each agent's deque of messages and query results
    out,       \* messages in the actions of this tick, in order
    asked,     \* queries in the actions of this tick
    pending,   \* each agent's pending_queries
    issued,    \* the queries made so far, which is what can be answered
    aborted    \* ticks an exception has cut short

vars == <<tick, turn, inbox, out, asked, pending, issued, aborted>>
-----------------------------------------------------------------------------
Message == [kind : {"message"}, from : Ids, to : Ids \cup Strangers,
            sent : 1..MaxTick, body : Bodies]
Query == [id : QueryIds, agent : Ids, issued : 1..MaxTick]
Result(q) == [kind |-> "result", query |-> q]
Item == Message \cup {Result(q) : q \in Query}

IsMessage(item) == item.kind = "message"

(* The members of a finite set S in the order that R gives them.           *)
Ranked(S, R) ==
    [k \in 1..Cardinality(S) |->
        CHOOSE x \in S : Cardinality({y \in S : <<y, x>> \in R}) = k - 1]
Less(S) == {p \in S \X S : p[1] < p[2]}

(* agent_ids = sorted(self.agents.keys())                                  *)
Order == Ranked(Ids, Less(Ids))
Now(a) == turn \in DOMAIN Order /\ Order[turn] = a

(* Variant of Earlier: the latest first.                                   *)
EarlierReversed(m, n) == m.sent > n.sent \/ (m.sent = n.sent /\ m.from > n.from)

Earlier(m, n) == m.sent < n.sent \/ (m.sent = n.sent /\ m.from < n.from)

(* Query results by query_id, then messages by (tick_sent, from_agent).    *)
Before(x, y) ==
    \/ ~IsMessage(x) /\ IsMessage(y)
    \/ ~IsMessage(x) /\ ~IsMessage(y) /\ x.query.id < y.query.id
    \/ IsMessage(x) /\ IsMessage(y) /\ Earlier(x, y)

(* What stands at the positions I, and the same after list.sort, which is  *)
(* stable.                                                                 *)
At(items, I) == [k \in 1..Cardinality(I) |-> items[Ranked(I, Less(I))[k]]]
Sorted(items, I) ==
    LET R == {p \in I \X I : \/ Before(items[p[1]], items[p[2]])
                             \/ ~Before(items[p[2]], items[p[1]]) /\ p[1] < p[2]}
    IN  [k \in 1..Cardinality(I) |-> items[Ranked(I, R)[k]]]

MessagesIn(items) == {i \in DOMAIN items : IsMessage(items[i])}
SentTo(a) == {i \in DOMAIN out : out[i].to = a}

(* Variant of Arranged: the inbox as it was filled.                        *)
AsArrived(items) == items

(* _prepare_agent_inboxes, and again _drain_inbox                          *)
Arranged(items) == Sorted(items, DOMAIN items)
-----------------------------------------------------------------------------
(* What a handler of agent a returns: up to n messages and a query, which  *)
(* joins those it still waits for.                                         *)
Emits(a, n, waiting) ==
    /\ \E ms \in SeqOf([to : (Ids \ {a}) \cup Strangers, body : Bodies], n) :
        /\ Len(out) + Len(ms) <= MaxOut
        /\ out' = out \o [i \in DOMAIN ms |->
                    [kind |-> "message", from |-> a, to |-> ms[i].to,
                     sent |-> tick, body |-> ms[i].body]]
    /\ \E ids \in {{}} \cup {{i} : i \in QueryIds \ {q.id : q \in issued}} :
        LET queries == {[id |-> i, agent |-> a, issued |-> tick] : i \in ids}
        IN  /\ asked' = asked \cup queries
            /\ issued' = issued \cup queries
            /\ pending' = [pending EXCEPT ![a] = waiting \cup queries]

(* step: the clock, then every inbox put in order.                         *)
StartTick ==
    /\ turn = 0 /\ tick < MaxTick
    /\ tick' = tick + 1 /\ turn' = 1
    /\ inbox' = [a \in Ids |-> Arranged(inbox[a])]
    /\ UNCHANGED <<out, asked, pending, issued, aborted>>

(* _process_query_result: an answer nobody waits for is discarded.         *)
HandleResult(a) ==
    /\ Now(a) /\ inbox[a] # <<>> /\ ~IsMessage(Head(inbox[a]))
    /\ inbox' = [inbox EXCEPT ![a] = Tail(@)]
    /\ LET q == Head(inbox[a]).query
       IN  IF q \in pending[a]
           THEN Emits(a, 1, pending[a] \ {q})
           ELSE UNCHANGED <<out, asked, pending, issued>>
    /\ UNCHANGED <<tick, turn, aborted>>

(* _process_message                                                        *)
HandleMessage(a) ==
    /\ Now(a) /\ inbox[a] # <<>> /\ IsMessage(Head(inbox[a]))
    /\ inbox' = [inbox EXCEPT ![a] = Tail(@)]
    /\ Emits(a, 1, pending[a])
    /\ UNCHANGED <<tick, turn, aborted>>

(* Variant of Stale: against the tick before.                              *)
StaleSinceLastTick(q) == tick - 1 - q.issued > QueryTTL

Stale(q) == tick - q.issued > QueryTTL

(* while self.inbox                                                        *)
Drained(a) == inbox[a] = <<>>

(* _expire_pending_queries, then the scheduled actions.                    *)
Finish(a) ==
    /\ Now(a) /\ Drained(a)
    /\ Emits(a, 2, {q \in pending[a] : ~Stale(q)})
    /\ turn' = turn + 1
    /\ UNCHANGED <<tick, inbox, aborted>>

(* An exception in a handler leaves step: what this tick emitted is lost,  *)
(* and so is what the agent had drained; the later agents do not step.     *)
Fault(a) ==
    /\ Now(a) /\ aborted < MaxFaults
    /\ aborted' = aborted + 1
    /\ turn' = 0 /\ out' = <<>> /\ asked' = {}
    /\ inbox' = [inbox EXCEPT ![a] = <<>>]
    /\ UNCHANGED <<tick, pending, issued>>

(* Answers go to the agent they name; the variant gives them to everyone.  *)
AnswersToAll(a, answered) == {Result(q) : q \in answered}
AnswersFor(a, answered) == {Result(q) : q \in {p \in answered : p.agent = a}}

(* _emit_and_route: messages to the registered agents, then the answers of *)
(* the query handler.  What agents raise no query for is not answered.     *)
Route ==
    /\ turn = Len(Order) + 1
    /\ \E answered \in SUBSET asked :
         inbox' = [a \in Ids |->
            inbox[a] \o Sorted(out, SentTo(a)) \o SetToSeq(AnswersFor(a, answered))]
    /\ turn' = 0 /\ out' = <<>> /\ asked' = {}
    /\ UNCHANGED <<tick, pending, issued, aborted>>

(* An answer that comes between two steps, perhaps once more.              *)
LateAnswer ==
    /\ turn = 0
    /\ \E q \in issued :
        /\ Result(q) \notin Range(inbox[q.agent])
        /\ inbox' = [inbox EXCEPT ![q.agent] = Append(@, Result(q))]
    /\ UNCHANGED <<tick, turn, out, asked, pending, issued, aborted>>

Init ==
    /\ tick = 0 /\ turn = 0
    /\ inbox = [a \in Ids |-> <<>>]
    /\ out = <<>> /\ asked = {}
    /\ pending = [a \in Ids |-> {}] /\ issued = {}
    /\ aborted = 0

AgentStep(a) == HandleResult(a) \/ HandleMessage(a) \/ Finish(a) \/ Fault(a)
Next == StartTick \/ (\E a \in Ids : AgentStep(a)) \/ Route \/ LateAnswer

Spec == Init /\ [][Next]_vars
-----------------------------------------------------------------------------
(* Every variable has its type, an inbox only what is addressed to it.     *)
TypeOK ==
    /\ tick \in 0..MaxTick /\ turn \in 0..(Len(Order) + 1)
    /\ inbox \in [Ids -> Seq(Item)] /\ out \in Seq(Message)
    /\ \A a \in Ids : \A x \in Range(inbox[a]) :
        a = IF IsMessage(x) THEN x.to ELSE x.query.agent
    /\ asked \subseteq issued /\ issued \subseteq Query
    /\ pending \in [Ids -> SUBSET issued] /\ aborted \in 0..MaxFaults

(* An agent reads the answers to its queries before the messages that may  *)
(* depend on them, and messages in the order of their ticks and senders,   *)
(* also what an aborted tick has left over (the sorts in                   *)
(* _prepare_agent_inboxes and _drain_inbox).                               *)
ReadInOrder ==
    turn > 0 => \A a \in Ids : \A i, j \in DOMAIN inbox[a] :
        LET m == inbox[a][i]
            n == inbox[a][j]
        IN  i < j /\ IsMessage(m) =>
                /\ IsMessage(n) /\ m.sent <= n.sent
                /\ m.sent = n.sent => m.from <= n.from

(* No agent waits for an answer longer than QUERY_TTL, except while its    *)
(* turn to expire the query is still to come or was cut off by the ticks   *)
(* that were aborted (_expire_pending_queries).                            *)
PendingIsBounded ==
    \A a \in Ids : \A q \in pending[a] :
        tick - q.issued <= QueryTTL + aborted + (IF turn > 0 THEN 1 ELSE 0)

(* Until an exception, the engine is the message bus that the order and    *)
(* restock models run on: each message sent to a registered agent is read  *)
(* in the next tick, once, in the order of the senders' ids and of each    *)
(* sender's calls, and none is lost.                                       *)
Bus == INSTANCE MessageBus WITH
    Agents <- Ids,
    box <- [a \in Ids |-> At(inbox[a], MessagesIn(inbox[a])) \o At(out, SentTo(a))],
    due <- [a \in Ids |-> IF turn \in DOMAIN Order /\ Order[turn] <= a
                          THEN Cardinality(MessagesIn(inbox[a])) ELSE 0]
IsBus ==
    Bus!BusInit /\ [][aborted' = 0 =>
        Bus!NewTick \/ \E a \in Ids : Bus!Works(a)]_(Bus!busVars)
=============================================================================
