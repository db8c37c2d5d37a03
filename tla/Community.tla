----------------------------- MODULE Community -----------------------------
(***************************************************************************)
(* Influence among consumers: purchases that were shared in a tick start,  *)
(* topic by topic, a cascade over the social graph; who is reached gets a  *)
(* boost on the topic, edges that carried the influence get stronger, and  *)
(* all trends fade.                                                        *)
(*                                                                         *)
(* Weights and trends are counted in whole steps.  A draw against a weight *)
(* is a choice: an edge of weight zero never wins, one of weight One wins  *)
(* always.  No topic has a weight of its own: nothing fills topic_weights. *)
(***************************************************************************)
EXTENDS Integers, Sequences, FiniteSets

CONSTANTS
    Members,         \* consumer_ids, a sequence: the nodes of the graph
    Sharers,         \* who enqueues activations; not only members may
    Present,         \* the consumers run_propagation is given
    Topics,
    AvgDegree,       \* avg_degree
    MaxHops,         \* k_max_hops
    MaxActivations,  \* max_activations_per_tick
    InitialWeights,  \* initial_edge_weight_range
    Delta,           \* edge_strengthen_delta
    MaxWeight,       \* max_edge_weight
    One,             \* the weight that always wins
    Neutral,         \* a trend_multiplier of 1.0, also when there is none
    Boost,           \* boost_increment
    TrendMax,        \* trend_max
    Decay,           \* what a trend is after a tick: less, by decay_rate
    MaxQueue         \* bound: activations in a tick

Nodes == {Members[i] : i \in DOMAIN Members}
People == Nodes \cup Sharers \cup Present

ASSUME CommunityAssumption ==
    /\ Members \in Seq(Nodes)
    /\ \A i, j \in DOMAIN Members : Members[i] = Members[j] => i = j
    /\ IsFiniteSet(Topics)
    /\ AvgDegree \in Nat /\ MaxHops \in Nat /\ MaxActivations \in Nat
    /\ MaxWeight \in Nat /\ InitialWeights \subseteq 0..MaxWeight
    /\ Delta \in Nat /\ One \in Nat \ {0} /\ MaxQueue \in Nat
    /\ Neutral \in Nat /\ Boost \in Nat \ {0}
    /\ TrendMax \in Nat /\ Neutral <= TrendMax
    /\ Decay \in [Neutral..TrendMax -> Nat]
    /\ \A v \in (Neutral + 1)..TrendMax : Decay[v] < v

VARIABLES
    queue,    \* _activation_queue
    running,  \* run_propagation is under way
    seeds,    \* topic_activations; no seeds of a topic nobody shared
    left,     \* topics whose cascade is still to come or under way
    active,   \* activated_this_topic
    front,    \* current_hop_seeds
    hops,     \* hops a topic's cascade has made
    tree,     \* successful_edges, by topic
    weight,   \* weight of each edge
    trend,    \* trend_multiplier of each consumer
    quiet     \* history: the propagations since a topic reached a consumer

vars ==
    <<queue, running, seeds, left, active, front, hops, tree, weight, trend, quiet>>
-----------------------------------------------------------------------------
(* _initialize_graph: a ring, half the degree to each side.                *)
Degree ==
    IF AvgDegree < Len(Members) THEN AvgDegree ELSE Len(Members) - 1
Ring(d) ==
    {<<Members[i], Members[((i - 1 + j) % Len(Members)) + 1]>> :
        i \in DOMAIN Members, j \in {n \in (-(d \div 2))..(d \div 2) : n # 0}}
Edges == IF Members = <<>> THEN {} ELSE {e \in Ring(Degree) : e[1] # e[2]}

Activation == [consumer : Sharers, topic : Topics]

Least(m, n) == IF m < n THEN m ELSE n

EnqueueActivation ==
    /\ ~running /\ Len(queue) < MaxQueue
    /\ \E a \in Activation : queue' = Append(queue, a)
    /\ UNCHANGED <<running, seeds, left, active, front, hops, tree, weight, trend, quiet>>

(* The queue, cut off at the cap, by topic.                                *)
SeedsOf(t) ==
    LET taken == {queue[i] : i \in {j \in DOMAIN queue : j <= MaxActivations}}
    IN  {a.consumer : a \in {b \in taken : b.topic = t}}

Drain ==
    /\ ~running /\ running' = TRUE
    /\ queue' = <<>>
    /\ seeds' = [t \in Topics |-> SeedsOf(t)]
    /\ active' = seeds' /\ front' = seeds'
    /\ left' = {t \in Topics : SeedsOf(t) # {}}
    /\ hops' = [t \in Topics |-> 0]
    /\ tree' = [t \in Topics |-> {}]
    /\ UNCHANGED <<weight, trend, quiet>>

(* Variant of Open: also to those the topic has reached already.           *)
OpenToAll(t) == {e \in Edges : e[1] \in front[t]}
Open(t) == {e \in Edges : e[1] \in front[t] /\ e[2] \notin active[t]}

Reached(won) == {e[2] : e \in won}

(* Variant of MoreHops: one hop too many.                                  *)
MoreHopsInclusive(t) == hops[t] <= MaxHops
MoreHops(t) == hops[t] < MaxHops

(* One hop.  The first edge that wins a target ends the draws for it.      *)
Spread(t) ==
    /\ running /\ t \in left /\ MoreHops(t)
    /\ \E won \in SUBSET {e \in Open(t) : weight[e] > 0} :
        /\ \A e, f \in won : e[2] = f[2] => e = f
        /\ {e[2] : e \in {f \in Open(t) : weight[f] >= One}} \subseteq Reached(won)
        /\ tree' = [tree EXCEPT ![t] = @ \cup won]
        /\ active' = [active EXCEPT ![t] = @ \cup Reached(won)]
        /\ front' = [front EXCEPT ![t] = Reached(won)]
        /\ left' = IF won = {} THEN left \ {t} ELSE left
    /\ hops' = [hops EXCEPT ![t] = @ + 1]
    /\ UNCHANGED <<queue, running, seeds, weight, trend, quiet>>

HopLimit(t) ==
    /\ running /\ t \in left /\ ~MoreHops(t)
    /\ left' = left \ {t}
    /\ UNCHANGED <<queue, running, seeds, active, front, hops, tree, weight, trend, quiet>>

(* Variant of NewlyActivated: who shared counts as activated too.          *)
ActivatedAtAll(t) == active[t]
NewlyActivated(t) == active[t] \ seeds[t]

(* _apply_decay                                                            *)
Decayed(v) ==
    IF v > Neutral /\ Decay[v] > Neutral THEN Decay[v] ELSE Neutral

(* Variant of Faded: only topics that were active fade.                    *)
FadedIfActive(c, t) == IF active[t] = {} THEN trend[c][t] ELSE Decayed(trend[c][t])
Faded(c, t) == Decayed(trend[c][t])

(* Variant of TrendAfter: the boost without the cap.                       *)
TrendUncapped(c, t) ==
    Faded(c, t) + (IF c \in NewlyActivated(t) THEN Boost ELSE 0)
TrendAfter(c, t) ==
    IF c \in NewlyActivated(t) THEN Least(Faded(c, t) + Boost, TrendMax)
    ELSE Faded(c, t)

(* Counted as far as a trend can be above neutral.                         *)
QuietAfter(c, t) ==
    IF c \in NewlyActivated(t) THEN 0 ELSE Least(quiet[c][t] + 1, TrendMax - Neutral)

(* Once for each topic the edge has won in.                                *)
Wins(e) == Cardinality({t \in Topics : e \in tree[t]})

(* Trends decay before the boosts; the winning edges get stronger.         *)
Settle ==
    /\ running /\ left = {}
    /\ running' = FALSE
    /\ trend' = [c \in Present |-> [t \in Topics |-> TrendAfter(c, t)]]
    /\ quiet' = [c \in Present |-> [t \in Topics |-> QuietAfter(c, t)]]
    /\ weight' = [e \in Edges |->
            IF Wins(e) = 0 THEN weight[e]
            ELSE Least(weight[e] + Wins(e) * Delta, MaxWeight)]
    /\ seeds' = [t \in Topics |-> {}] /\ active' = seeds'
    /\ front' = seeds' /\ tree' = seeds'
    /\ hops' = [t \in Topics |-> 0]
    /\ UNCHANGED <<queue, left>>

Init ==
    /\ queue = <<>> /\ running = FALSE
    /\ seeds = [t \in Topics |-> {}] /\ left = {}
    /\ active = seeds /\ front = seeds /\ tree = seeds
    /\ hops = [t \in Topics |-> 0]
    /\ weight \in [Edges -> InitialWeights]
    /\ trend = [c \in Present |-> [t \in Topics |-> Neutral]]
    /\ quiet = [c \in Present |-> [t \in Topics |-> 0]]

Propagate == Drain \/ (\E t \in Topics : Spread(t) \/ HopLimit(t)) \/ Settle
Next == EnqueueActivation \/ Propagate

(* No fairness: nothing in bizsim calls run_propagation, the engine only   *)
(* hands each action to an optional hook (engine.py:86-89).                *)
Spec == Init /\ [][Next]_vars
-----------------------------------------------------------------------------
(* Every variable has its type: trends and weights keep to their limits.   *)
TypeOK ==
    /\ queue \in Seq(Activation) /\ running \in BOOLEAN
    /\ seeds \in [Topics -> SUBSET Sharers] /\ left \subseteq Topics
    /\ active \in [Topics -> SUBSET People] /\ front \in [Topics -> SUBSET People]
    /\ hops \in [Topics -> 0..MaxHops] /\ tree \in [Topics -> SUBSET Edges]
    /\ weight \in [Edges -> 0..MaxWeight]
    /\ trend \in [Present -> [Topics -> Neutral..TrendMax]]
    /\ quiet \in [Present -> [Topics -> 0..(TrendMax - Neutral)]]

(* Who n winning edges of topic t lead to from those who shared.           *)
Within(t, n) ==
    LET step[k \in 0..n] ==
            IF k = 0 THEN seeds[t]
            ELSE step[k - 1] \cup {e[2] : e \in {f \in tree[t] : f[1] \in step[k - 1]}}
    IN  step[n]

(* A cascade is a forest rooted in those who shared: everyone it has       *)
(* activated is at most k_max_hops winning edges away from one of them,    *)
(* and was won once, however many edges had a chance (community.py:92).    *)
CascadeIsForest ==
    \A t \in Topics :
        /\ active[t] = Within(t, MaxHops)
        /\ \A e \in tree[t] : e[2] \notin seeds[t]
        /\ \A e, f \in tree[t] : e[2] = f[2] => e = f

(* Nobody's trend rises but by one boost at most, on a topic that another  *)
(* consumer's purchase carried to him; and an edge changes only by getting *)
(* stronger, for having carried something.                                 *)
InfluenceIsEarned ==
    [][/\ \A c \in Present, t \in Topics : trend'[c][t] > trend[c][t] =>
            /\ trend'[c][t] <= trend[c][t] + Boost
            /\ \E e \in tree[t] : e[2] = c /\ c \notin seeds[t]
       /\ \A e \in Edges : weight'[e] # weight[e] =>
            weight'[e] > weight[e] /\ \E t \in Topics : e \in tree[t]]_vars

(* A trend fades whatever else is shared: each propagation that does not   *)
(* carry the topic to the consumer again takes at least one step off the   *)
(* most it can be, and so many of them leave it neutral.                   *)
TrendsFade ==
    \A c \in Present, t \in Topics : trend[c][t] <= TrendMax - quiet[c][t]
=============================================================================
