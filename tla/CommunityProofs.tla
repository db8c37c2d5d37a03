--------------------------- MODULE CommunityProofs ---------------------------
(***************************************************************************)
(* Proofs about Community, for any ring of consumers and any number of topics, hops    *)
(* and activations, and any weights and trends.                            *)
(*                                                                         *)
(* The inductive invariant ties who is activated to the edges that won:    *)
(* a consumer is active because of sharing or because of exactly one       *)
(* winning edge.  A cascade grows in layers, one a hop, and the edges of a *)
(* hop leave the last of them.                                             *)
(***************************************************************************)
EXTENDS Community, FiniteSetTheorems, WellFoundedInduction, TLAPS

LEMMA Modulo ==
    ASSUME NEW a \in Int, NEW n \in Nat \ {0}
    PROVE  a % n \in 0..(n - 1)
OBVIOUS

LEMMA EdgesJoinNodes == \A e \in Edges : e[1] \in Nodes /\ e[2] \in Nodes
<1> SUFFICES ASSUME NEW e \in Edges PROVE e[1] \in Nodes /\ e[2] \in Nodes
    OBVIOUS
<1>1. Members # <<>> /\ e \in Ring(Degree)
    BY DEF Edges
<1>2. Members \in Seq(Nodes)
    BY CommunityAssumption DEF CommunityAssumption
<1>3. DOMAIN Members = 1..Len(Members) /\ Len(Members) \in Nat \ {0}
    BY <1>1, <1>2
<1>4. PICK i \in DOMAIN Members, j \in {n \in (-(Degree \div 2))..(Degree \div 2) : n # 0} :
        e = <<Members[i], Members[((i - 1 + j) % Len(Members)) + 1]>>
    BY <1>1 DEF Ring
<1>5. ((i - 1 + j) % Len(Members)) + 1 \in DOMAIN Members
  <2>1. i - 1 + j \in Int
    BY <1>3
  <2>2. (i - 1 + j) % Len(Members) \in 0..(Len(Members) - 1)
    BY <1>3, <2>1, Modulo
  <2> QED BY <1>3, <2>2
<1> QED BY <1>4, <1>5 DEF Nodes

LEMMA WinsFacts ==
    ASSUME NEW e
    PROVE  /\ Wins(e) \in Nat
           /\ Wins(e) # 0 => \E t \in Topics : e \in tree[t]
<1>1. IsFiniteSet(Topics)
    BY CommunityAssumption DEF CommunityAssumption
<1>2. IsFiniteSet({t \in Topics : e \in tree[t]})
    BY <1>1, FS_Subset
<1>3. Wins(e) \in Nat
    BY <1>2, FS_CardinalityType DEF Wins
<1>4. ASSUME \A t \in Topics : e \notin tree[t] PROVE Wins(e) = 0
  <2>1. {t \in Topics : e \in tree[t]} = {}
    BY <1>4
  <2> QED BY <2>1, FS_EmptySet DEF Wins
<1> QED BY <1>3, <1>4
-----------------------------------------------------------------------------
(* The inductive invariant.                                                *)
InfluenceTyped ==
    /\ weight \in [Edges -> 0..MaxWeight]
    /\ trend \in [Present -> [Topics -> Neutral..TrendMax]]
    /\ quiet \in [Present -> [Topics -> 0..(TrendMax - Neutral)]]

CascadeTyped ==
    /\ running \in BOOLEAN /\ left \subseteq Topics
    /\ seeds \in [Topics -> SUBSET Sharers]
    /\ active \in [Topics -> SUBSET People] /\ front \in [Topics -> SUBSET People]
    /\ hops \in [Topics -> 0..MaxHops] /\ tree \in [Topics -> SUBSET Edges]

(* Winners were not active before: each was won once and shared nothing.   *)
WonOnce(t) ==
    /\ active[t] = seeds[t] \cup Reached(tree[t])
    /\ \A e \in tree[t] : e[2] \notin seeds[t]
    /\ \A e, f \in tree[t] : e[2] = f[2] => e = f

CommunityInv ==
    /\ queue \in Seq(Activation) /\ CascadeTyped /\ InfluenceTyped
    /\ \A t \in Topics : WonOnce(t)

LEMMA CommunityInit == Init => CommunityInv
<1> SUFFICES ASSUME Init PROVE CommunityInv
    OBVIOUS
<1>1. /\ Neutral \in Nat /\ TrendMax \in Nat /\ Neutral <= TrendMax /\ MaxHops \in Nat
      /\ InitialWeights \subseteq 0..MaxWeight
    BY CommunityAssumption DEF CommunityAssumption
<1>2. queue \in Seq(Activation)
    BY DEF Init
<1>3. CascadeTyped
  <2>1. running \in BOOLEAN /\ left \subseteq Topics
    BY DEF Init
  <2>2. seeds = [t \in Topics |-> {}] /\ active = seeds /\ front = seeds /\ tree = seeds
    BY DEF Init
  <2>3. hops \in [Topics -> 0..MaxHops]
    BY <1>1 DEF Init
  <2> QED BY <2>1, <2>2, <2>3 DEF CascadeTyped
<1>4. InfluenceTyped
  <2>1. weight \in [Edges -> InitialWeights]
    BY DEF Init
  <2>2. trend = [c \in Present |-> [t \in Topics |-> Neutral]] /\ Neutral \in Neutral..TrendMax
    BY <1>1 DEF Init
  <2>3. /\ quiet = [c \in Present |-> [t \in Topics |-> 0]]
        /\ 0 \in 0..(TrendMax - Neutral)
    BY <1>1 DEF Init
  <2> QED BY <1>1, <2>1, <2>2, <2>3 DEF InfluenceTyped
<1>5. \A t \in Topics : WonOnce(t)
    BY DEF Init, WonOnce, Reached
<1> QED BY <1>2, <1>3, <1>4, <1>5 DEF CommunityInv

LEMMA EnqueueInv ==
    ASSUME CommunityInv, EnqueueActivation
    PROVE  CommunityInv'
<1>1. queue' \in Seq(Activation)
  <2>1. PICK a \in Activation : queue' = Append(queue, a)
    BY DEF EnqueueActivation
  <2> QED BY <2>1 DEF CommunityInv
<1>2. CascadeTyped' /\ InfluenceTyped'
    BY DEF EnqueueActivation, CommunityInv, CascadeTyped, InfluenceTyped
<1>3. \A t \in Topics : WonOnce(t)'
    BY DEF EnqueueActivation, CommunityInv, WonOnce
<1> QED BY <1>1, <1>2, <1>3 DEF CommunityInv

LEMMA DrainInv ==
    ASSUME CommunityInv, Drain
    PROVE  CommunityInv'
<1>1. ASSUME NEW t \in Topics PROVE SeedsOf(t) \subseteq Sharers
  <2>1. \A i \in DOMAIN queue : queue[i] \in Activation
    BY DEF CommunityInv
  <2>2. \A i \in DOMAIN queue : queue[i].consumer \in Sharers
    BY <2>1 DEF Activation
  <2> QED BY <2>2 DEF SeedsOf
<1>2. queue' \in Seq(Activation)
    BY DEF Drain
<1>3. CascadeTyped'
  <2>1. seeds' \in [Topics -> SUBSET Sharers] /\ seeds' \in [Topics -> SUBSET People]
    BY <1>1 DEF Drain, People
  <2>2. hops' \in [Topics -> 0..MaxHops] /\ tree' \in [Topics -> SUBSET Edges]
    BY CommunityAssumption DEF Drain, CommunityAssumption
  <2> QED BY <2>1, <2>2 DEF Drain, CascadeTyped
<1>4. InfluenceTyped'
    BY DEF Drain, CommunityInv, InfluenceTyped
<1>5. \A t \in Topics : WonOnce(t)'
    BY DEF Drain, WonOnce, Reached
<1> QED BY <1>2, <1>3, <1>4, <1>5 DEF CommunityInv

LEMMA SpreadInv ==
    ASSUME CommunityInv, NEW t \in Topics, Spread(t)
    PROVE  CommunityInv'
<1>1. PICK won \in SUBSET {e \in Open(t) : weight[e] > 0} :
        /\ \A e, f \in won : e[2] = f[2] => e = f
        /\ tree' = [tree EXCEPT ![t] = @ \cup won]
        /\ active' = [active EXCEPT ![t] = @ \cup Reached(won)]
        /\ front' = [front EXCEPT ![t] = Reached(won)]
        /\ left' = IF won = {} THEN left \ {t} ELSE left
    BY DEF Spread
<1>2. won \subseteq Edges /\ \A e \in won : e[2] \notin active[t] /\ e[2] \in People
    BY EdgesJoinNodes DEF Open, People
<1>3. UNCHANGED <<queue, running, seeds, weight, trend, quiet>>
    BY DEF Spread
<1>4. hops' \in [Topics -> 0..MaxHops]
  <2>1. MaxHops \in Nat /\ hops[t] \in 0..MaxHops /\ hops[t] < MaxHops
    BY CommunityAssumption DEF CommunityAssumption, Spread, MoreHops, CommunityInv, CascadeTyped
  <2>2. hops' = [hops EXCEPT ![t] = hops[t] + 1]
    BY DEF Spread
  <2> QED BY <2>1, <2>2 DEF CommunityInv, CascadeTyped
<1>5. CascadeTyped'
  <2>1. Reached(won) \subseteq People
    BY <1>2 DEF Reached
  <2>2. tree' \in [Topics -> SUBSET Edges]
    BY <1>1, <1>2 DEF CommunityInv, CascadeTyped
  <2>3. active' \in [Topics -> SUBSET People] /\ front' \in [Topics -> SUBSET People]
    BY <1>1, <2>1 DEF CommunityInv, CascadeTyped
  <2> QED BY <1>1, <1>3, <1>4, <2>2, <2>3 DEF CommunityInv, CascadeTyped
<1>6. ASSUME NEW u \in Topics PROVE WonOnce(u)'
  <2>1. CASE u # t
    BY <1>1, <1>3, <2>1 DEF CommunityInv, CascadeTyped, WonOnce
  <2>2. CASE u = t
    <3>1. /\ tree'[t] = tree[t] \cup won /\ active'[t] = active[t] \cup Reached(won)
          /\ seeds'[t] = seeds[t]
      BY <1>1, <1>3 DEF CommunityInv, CascadeTyped
    <3>2. Reached(tree[t] \cup won) = Reached(tree[t]) \cup Reached(won)
      BY DEF Reached
    <3>3. \A e \in tree[t] : e[2] \in active[t]
      BY DEF CommunityInv, WonOnce, Reached
    <3> QED BY <1>1, <1>2, <2>2, <3>1, <3>2, <3>3 DEF CommunityInv, WonOnce
  <2> QED BY <2>1, <2>2
<1> QED BY <1>3, <1>5, <1>6 DEF CommunityInv, InfluenceTyped

LEMMA HopLimitInv ==
    ASSUME CommunityInv, NEW t \in Topics, HopLimit(t)
    PROVE  CommunityInv'
<1>1. CascadeTyped' /\ InfluenceTyped' /\ queue' \in Seq(Activation)
    BY DEF HopLimit, CommunityInv, CascadeTyped, InfluenceTyped
<1>2. \A u \in Topics : WonOnce(u)'
    BY DEF HopLimit, CommunityInv, WonOnce
<1> QED BY <1>1, <1>2 DEF CommunityInv
-----------------------------------------------------------------------------
(* What the end of a propagation does to one trend and to one weight.      *)
LEMMA TrendStep ==
    ASSUME CommunityInv, NEW c \in Present, NEW t \in Topics
    PROVE  /\ TrendAfter(c, t) \in Neutral..TrendMax
           /\ TrendAfter(c, t) > trend[c][t] =>
                /\ TrendAfter(c, t) <= trend[c][t] + Boost
                /\ c \in NewlyActivated(t)
           /\ c \notin NewlyActivated(t) =>
                TrendAfter(c, t) = Neutral \/ TrendAfter(c, t) < trend[c][t]
<1> DEFINE v == trend[c][t]
<1>1. /\ Neutral \in Nat /\ TrendMax \in Nat /\ Neutral <= TrendMax /\ Boost \in Nat \ {0}
      /\ Decay \in [Neutral..TrendMax -> Nat]
      /\ \A u \in (Neutral + 1)..TrendMax : Decay[u] < u
    BY CommunityAssumption DEF CommunityAssumption
<1>2. v \in Neutral..TrendMax
    BY DEF CommunityInv, InfluenceTyped
<1> HIDE DEF v
<1>3. /\ Decayed(v) \in Neutral..TrendMax /\ Decayed(v) <= v
      /\ Decayed(v) = Neutral \/ Decayed(v) < v
  <2>1. CASE v > Neutral
    <3>1. v \in (Neutral + 1)..TrendMax
      BY <1>1, <1>2, <2>1
    <3>2. Decay[v] < v /\ Decay[v] \in Nat
      BY <1>1, <1>2, <3>1
    <3> QED BY <1>1, <1>2, <2>1, <3>2 DEF Decayed
  <2>2. CASE ~(v > Neutral)
    BY <1>1, <1>2, <2>2 DEF Decayed
  <2> QED BY <2>1, <2>2
<1>4. Faded(c, t) = Decayed(v)
    BY DEF Faded, v
<1>5. CASE c \in NewlyActivated(t)
  <2>1. TrendAfter(c, t) = Least(Decayed(v) + Boost, TrendMax)
    BY <1>4, <1>5 DEF TrendAfter
  <2> QED BY <1>1, <1>2, <1>3, <1>5, <2>1 DEF Least, v
<1>6. CASE c \notin NewlyActivated(t)
  <2>1. TrendAfter(c, t) = Decayed(v)
    BY <1>4, <1>6 DEF TrendAfter
  <2> QED BY <1>1, <1>2, <1>3, <1>6, <2>1 DEF v
<1> QED BY <1>5, <1>6

LEMMA QuietStep ==
    ASSUME CommunityInv, NEW c \in Present, NEW t \in Topics
    PROVE  /\ QuietAfter(c, t) \in 0..(TrendMax - Neutral)
           /\ c \notin NewlyActivated(t) => QuietAfter(c, t) <= quiet[c][t] + 1
           /\ c \in NewlyActivated(t) => QuietAfter(c, t) = 0
<1>1. /\ Neutral \in Nat /\ TrendMax \in Nat /\ Neutral <= TrendMax
      /\ quiet[c][t] \in 0..(TrendMax - Neutral)
    BY CommunityAssumption DEF CommunityAssumption, CommunityInv, InfluenceTyped
<1> QED BY <1>1 DEF QuietAfter, Least

WeightAfter(e) ==
    IF Wins(e) = 0 THEN weight[e] ELSE Least(weight[e] + Wins(e) * Delta, MaxWeight)

LEMMA WeightStep ==
    ASSUME CommunityInv, NEW e \in Edges
    PROVE  /\ WeightAfter(e) \in 0..MaxWeight
           /\ WeightAfter(e) # weight[e] =>
                WeightAfter(e) > weight[e] /\ \E t \in Topics : e \in tree[t]
<1>1. weight[e] \in 0..MaxWeight /\ MaxWeight \in Nat /\ Delta \in Nat
    BY CommunityAssumption DEF CommunityInv, InfluenceTyped, CommunityAssumption
<1>2. Wins(e) \in Nat /\ (Wins(e) # 0 => \E t \in Topics : e \in tree[t])
    BY WinsFacts
<1>3. Wins(e) * Delta \in Nat
    BY <1>1, <1>2
<1> QED BY <1>1, <1>2, <1>3 DEF WeightAfter, Least

LEMMA SettleInv ==
    ASSUME CommunityInv, Settle
    PROVE  CommunityInv'
<1>1. /\ trend' = [c \in Present |-> [t \in Topics |-> TrendAfter(c, t)]]
      /\ quiet' = [c \in Present |-> [t \in Topics |-> QuietAfter(c, t)]]
      /\ weight' = [e \in Edges |-> WeightAfter(e)]
    BY DEF Settle, WeightAfter
<1>2. InfluenceTyped'
    BY <1>1, TrendStep, QuietStep, WeightStep DEF InfluenceTyped
<1>3. CascadeTyped' /\ queue' \in Seq(Activation)
  <2>1. hops' \in [Topics -> 0..MaxHops]
    BY CommunityAssumption DEF Settle, CommunityAssumption
  <2> QED BY <2>1 DEF Settle, CommunityInv, CascadeTyped
<1>4. \A t \in Topics : WonOnce(t)'
    BY DEF Settle, WonOnce, Reached
<1> QED BY <1>2, <1>3, <1>4 DEF CommunityInv

LEMMA CommunityStep == CommunityInv /\ [Next]_vars => CommunityInv'
<1> SUFFICES ASSUME CommunityInv, [Next]_vars PROVE CommunityInv'
    OBVIOUS
<1>1. CASE UNCHANGED vars
    BY <1>1 DEF vars, CommunityInv, CascadeTyped, InfluenceTyped, WonOnce
<1> QED BY <1>1, EnqueueInv, DrainInv, SpreadInv, HopLimitInv, SettleInv
     DEF Next, Propagate

LEMMA CommunityHolds == Spec => []CommunityInv
BY CommunityInit, CommunityStep, PTL DEF Spec

(* Every variable keeps its type: whatever the cascades reach, trends and  *)
(* weights keep to their limits.                                           *)
THEOREM CommunityTypeCorrect == Spec => []TypeOK
<1>1. CommunityInv => TypeOK
    BY DEF CommunityInv, CascadeTyped, InfluenceTyped, TypeOK
<1> QED BY <1>1, CommunityHolds, PTL

(* In any ring, nobody is won twice in a topic, nor won who shared it.    *)
THEOREM NobodyIsWonTwice == Spec => [](\A t \in Topics : WonOnce(t))
<1>1. CommunityInv => \A t \in Topics : WonOnce(t)
    BY DEF CommunityInv
<1> QED BY <1>1, CommunityHolds, PTL

(* Nobody's trend rises but by one boost at most, on a topic another one's *)
(* purchase carried to him; an edge only gets stronger, for carrying.      *)
THEOREM InfluenceHasToBeEarned == Spec => InfluenceIsEarned
<1> DEFINE Earned ==
        /\ \A c \in Present, t \in Topics : trend'[c][t] > trend[c][t] =>
            /\ trend'[c][t] <= trend[c][t] + Boost
            /\ \E e \in tree[t] : e[2] = c /\ c \notin seeds[t]
        /\ \A e \in Edges : weight'[e] # weight[e] =>
            weight'[e] > weight[e] /\ \E t \in Topics : e \in tree[t]
<1>1. CommunityInv /\ [Next]_vars => [Earned]_vars
  <2> SUFFICES ASSUME CommunityInv, Next PROVE Earned
    OBVIOUS
  <2>1. CASE Settle
    <3>1. \A e \in Edges : weight'[e] = WeightAfter(e)
      BY <2>1 DEF Settle, WeightAfter
    <3>2. \A c \in Present, t \in Topics : trend'[c][t] = TrendAfter(c, t)
      BY <2>1 DEF Settle
    <3>3. \A c, t : t \in Topics /\ c \in NewlyActivated(t) =>
            \E e \in tree[t] : e[2] = c /\ c \notin seeds[t]
      BY DEF NewlyActivated, CommunityInv, WonOnce, Reached
    <3> QED BY <3>1, <3>2, <3>3, TrendStep, WeightStep
  <2>2. CASE ~Settle
    <3>1. trend' = trend /\ weight' = weight
      BY <2>2 DEF Next, Propagate, EnqueueActivation, Drain, Spread, HopLimit
    <3>2. \A c \in Present, t \in Topics : ~(trend[c][t] > trend[c][t])
      <4>1. \A c \in Present, t \in Topics : trend[c][t] \in Neutral..TrendMax
        BY DEF CommunityInv, InfluenceTyped
      <4> QED BY <4>1, CommunityAssumption DEF CommunityAssumption
    <3> QED BY <3>1, <3>2
  <2> QED BY <2>1, <2>2
<1> QED BY <1>1, CommunityHolds, PTL DEF Spec, InfluenceIsEarned

(* However often the others share, a trend fades: each propagation that    *)
(* does not carry the topic to the consumer again takes a step off the     *)
(* most his trend can be (_apply_decay).                                   *)
THEOREM TrendsAlwaysFade == Spec => []TrendsFade
<1>1. Init => TrendsFade
  <2> SUFFICES ASSUME Init, NEW c \in Present, NEW t \in Topics
               PROVE  trend[c][t] <= TrendMax - quiet[c][t]
    BY DEF TrendsFade
  <2>1. trend[c][t] = Neutral /\ quiet[c][t] = 0
    BY DEF Init
  <2> QED BY <2>1, CommunityAssumption DEF CommunityAssumption
<1>2. CommunityInv /\ TrendsFade /\ [Next]_vars => TrendsFade'
  <2> SUFFICES ASSUME CommunityInv, TrendsFade, [Next]_vars PROVE TrendsFade'
    OBVIOUS
  <2>1. CASE Settle
    <3> SUFFICES ASSUME NEW c \in Present, NEW t \in Topics
                 PROVE  trend'[c][t] <= TrendMax - quiet'[c][t]
      BY DEF TrendsFade
    <3>1. trend'[c][t] = TrendAfter(c, t) /\ quiet'[c][t] = QuietAfter(c, t)
      BY <2>1 DEF Settle
    <3>2. /\ trend[c][t] \in Neutral..TrendMax /\ quiet[c][t] \in 0..(TrendMax - Neutral)
          /\ Neutral \in Nat /\ TrendMax \in Nat /\ trend[c][t] <= TrendMax - quiet[c][t]
      BY CommunityAssumption DEF CommunityAssumption, CommunityInv, InfluenceTyped, TrendsFade
    <3>3. CASE c \in NewlyActivated(t)
      BY <3>1, <3>2, <3>3, TrendStep, QuietStep
    <3>4. CASE c \notin NewlyActivated(t)
      <4>1. /\ TrendAfter(c, t) = Neutral \/ TrendAfter(c, t) < trend[c][t]
            /\ TrendAfter(c, t) \in Neutral..TrendMax
        BY <3>4, TrendStep
      <4>2. /\ QuietAfter(c, t) <= quiet[c][t] + 1
            /\ QuietAfter(c, t) \in 0..(TrendMax - Neutral)
        BY <3>4, QuietStep
      <4> QED BY <3>1, <3>2, <4>1, <4>2
    <3> QED BY <3>3, <3>4
  <2>2. CASE ~Settle
    <3>1. trend' = trend /\ quiet' = quiet
      BY <2>2 DEF Next, Propagate, EnqueueActivation, Drain, Spread, HopLimit, vars
    <3> QED BY <3>1 DEF TrendsFade
  <2> QED BY <2>1, <2>2
<1> QED BY <1>1, <1>2, CommunityHolds, PTL DEF Spec
-----------------------------------------------------------------------------
LEMMA LeastNat ==
    ASSUME NEW T \in SUBSET Nat, T # {}
    PROVE  \E m \in T : \A n \in T : m <= n
<1>1. IsWellFoundedOn(OpToRel(<, Nat), Nat)
    BY NatLessThanWellFounded
<1>2. PICK m \in T : \A n \in T : ~(<<n, m>> \in OpToRel(<, Nat))
    BY <1>1, WFMin
<1>3. \A n \in T : ~(n < m)
    BY <1>2 DEF OpToRel
<1>4. \A n \in T : n \in Nat /\ m \in Nat /\ ~(n < m)
    BY <1>2, <1>3
<1>5. \A n \in T : m <= n
    BY <1>4
<1> QED BY <1>2, <1>5

(* W[k] is who k edges of E lead to from S: what Within computes.          *)
Out(E, V) == {e[2] : e \in {f \in E : f[1] \in V}}
Layers(S, E, n, W) == W = [k \in 0..n |-> IF k = 0 THEN S ELSE W[k - 1] \cup Out(E, W[k - 1])]

LEMMA LayersAre ==
    ASSUME NEW S, NEW E, NEW n \in Nat, NEW W
    PROVE  /\ Layers(S, E, n, W) =>
                /\ W[0] = S
                /\ \A k \in 1..n : W[k] = W[k - 1] \cup Out(E, W[k - 1])
           /\ /\ \E D : W = [k \in 0..n |-> D[k]]
              /\ W[0] = S
              /\ \A k \in 1..n : W[k] = W[k - 1] \cup Out(E, W[k - 1])
              => Layers(S, E, n, W)
<1>1. ASSUME Layers(S, E, n, W)
      PROVE  /\ W[0] = S
             /\ \A k \in 1..n : W[k] = W[k - 1] \cup Out(E, W[k - 1])
  <2>1. W = [k \in 0..n |-> IF k = 0 THEN S ELSE W[k - 1] \cup Out(E, W[k - 1])]
    BY <1>1 DEF Layers
  <2>2. \A k \in 0..n : W[k] = IF k = 0 THEN S ELSE W[k - 1] \cup Out(E, W[k - 1])
    BY <2>1
  <2>3. 0 \in 0..n /\ \A k \in 1..n : k \in 0..n /\ k # 0
    OBVIOUS
  <2> QED BY <2>2, <2>3
<1>2. ASSUME \E D : W = [k \in 0..n |-> D[k]], W[0] = S,
             \A k \in 1..n : W[k] = W[k - 1] \cup Out(E, W[k - 1])
      PROVE  Layers(S, E, n, W)
  <2> DEFINE V == [k \in 0..n |-> IF k = 0 THEN S ELSE W[k - 1] \cup Out(E, W[k - 1])]
  <2>1. \A k \in 0..n : k = 0 \/ k \in 1..n
    OBVIOUS
  <2>2. W = [k \in 0..n |-> W[k]]
    BY <1>2
  <2>3. \A k \in 0..n : W[k] = V[k]
    BY <1>2, <2>1
  <2>4. V = [k \in 0..n |-> V[k]]
    OBVIOUS
  <2> HIDE DEF V
  <2>5. W = V
    BY <2>2, <2>3, <2>4
  <2> QED BY <2>5 DEF V, Layers
<1> QED BY <1>1, <1>2

(* The equation has one solution: two that differ would differ at a least  *)
(* place first.                                                            *)
LEMMA LayersAreUnique ==
    ASSUME NEW S, NEW E, NEW n \in Nat, NEW V, NEW W, Layers(S, E, n, V), Layers(S, E, n, W)
    PROVE  \A k \in 0..n : V[k] = W[k]
<1> DEFINE T == {k \in 0..n : V[k] # W[k]}
<1>1. SUFFICES ASSUME T # {} PROVE FALSE
    OBVIOUS
<1>2. PICK m \in T : \A k \in T : m <= k
  <2>1. T \in SUBSET Nat
    OBVIOUS
  <2> HIDE DEF T
  <2> QED BY <1>1, <2>1, LeastNat
<1>3. /\ V[0] = S /\ \A k \in 1..n : V[k] = V[k - 1] \cup Out(E, V[k - 1])
      /\ W[0] = S /\ \A k \in 1..n : W[k] = W[k - 1] \cup Out(E, W[k - 1])
    BY LayersAre
<1>4. m \in 1..n
    BY <1>3
<1>5. m - 1 \in 0..n /\ ~(m <= m - 1)
    BY <1>4
<1>6. V[m - 1] = W[m - 1]
    BY <1>2, <1>5
<1>7. V[m] = W[m]
    BY <1>3, <1>4, <1>6
<1> QED BY <1>7

LEMMA WithinIs ==
    ASSUME NEW t, NEW W, Layers(seeds[t], tree[t], MaxHops, W)
    PROVE  Within(t, MaxHops) = W[MaxHops]
<1> DEFINE V == CHOOSE step : step = [k \in 0..MaxHops |-> IF k = 0 THEN seeds[t]
            ELSE step[k - 1] \cup {e[2] : e \in {f \in tree[t] : f[1] \in step[k - 1]}}]
<1>1. Within(t, MaxHops) = V[MaxHops]
    BY DEF Within
<1>2. V = CHOOSE step : Layers(seeds[t], tree[t], MaxHops, step)
    BY DEF Layers, Out
<1> HIDE DEF V
<1>3. Layers(seeds[t], tree[t], MaxHops, V)
    BY <1>2
<1>4. MaxHops \in Nat /\ MaxHops \in 0..MaxHops
    BY CommunityAssumption DEF CommunityAssumption
<1>5. \A k \in 0..MaxHops : V[k] = W[k]
    BY <1>3, <1>4, LayersAreUnique
<1> QED BY <1>1, <1>4, <1>5
-----------------------------------------------------------------------------
(* The layers of a cascade: the last one is everybody active, and only it  *)
(* meets the front.                                                        *)
LayersOf(S, E, A, F, h, W) ==
    /\ Layers(S, E, MaxHops, W)
    /\ \A k \in 0..MaxHops :
        /\ W[k] \subseteq A
        /\ k >= h => W[k] = A
        /\ k < h => W[k] \cap F = {}
    /\ F \subseteq A
Layered ==
    \A t \in Topics : \E W : LayersOf(seeds[t], tree[t], active[t], front[t], hops[t], W)

(* A topic without seeds, or that has made no hop, has one layer.          *)
LEMMA OneLayer ==
    ASSUME NEW S, NEW n \in Nat
    PROVE  Layers(S, {}, n, [k \in 0..n |-> S])
<1> DEFINE W == [k \in 0..n |-> S]
<1>1. Out({}, S) = {}
    BY DEF Out
<1>2. W[0] = S /\ \A k \in 1..n : W[k] = S /\ W[k - 1] = S
    OBVIOUS
<1>3. \E D : W = [k \in 0..n |-> D[k]]
  <2>1. W = [k \in 0..n |-> W[k]]
    OBVIOUS
  <2> QED BY <2>1
<1> HIDE DEF W
<1>4. \A k \in 1..n : W[k] = W[k - 1] \cup Out({}, W[k - 1])
    BY <1>1, <1>2
<1>5. Layers(S, {}, n, W)
    BY <1>2, <1>3, <1>4, LayersAre
<1> QED BY <1>5 DEF W

LEMMA FirstLayer ==
    ASSUME NEW S, MaxHops \in Nat
    PROVE  \E W : LayersOf(S, {}, S, S, 0, W)
<1> DEFINE W == [k \in 0..MaxHops |-> S]
<1>1. Layers(S, {}, MaxHops, W)
    BY OneLayer
<1>2. \A k \in 0..MaxHops : W[k] = S /\ ~(k < 0)
    OBVIOUS
<1> HIDE DEF W
<1>3. LayersOf(S, {}, S, S, 0, W)
    BY <1>1, <1>2 DEF LayersOf
<1> QED BY <1>3

(* A hop: the edges that won leave the last layer, and lead to a new one.  *)
LEMMA HopLayer ==
    ASSUME CommunityInv, Layered, NEW t \in Topics, Spread(t)
    PROVE  Layered'
<1>1. PICK won \in SUBSET {e \in Open(t) : weight[e] > 0} :
        /\ tree' = [tree EXCEPT ![t] = @ \cup won]
        /\ active' = [active EXCEPT ![t] = @ \cup Reached(won)]
        /\ front' = [front EXCEPT ![t] = Reached(won)]
    BY DEF Spread
<1>2. hops' = [hops EXCEPT ![t] = @ + 1] /\ seeds' = seeds
    BY DEF Spread
<1>3. ASSUME NEW u \in Topics, u # t 
      PROVE  \E W : LayersOf(seeds'[u], tree'[u], active'[u], front'[u], hops'[u], W)
  <2>1. /\ tree'[u] = tree[u] /\ active'[u] = active[u] /\ front'[u] = front[u]
        /\ hops'[u] = hops[u] /\ seeds'[u] = seeds[u]
    BY <1>1, <1>2, <1>3 DEF CommunityInv, CascadeTyped
  <2>2. \E W : LayersOf(seeds[u], tree[u], active[u], front[u], hops[u], W)
    BY DEF Layered
  <2> QED BY <2>1, <2>2
<1>4. \E W : LayersOf(seeds'[t], tree'[t], active'[t], front'[t], hops'[t], W)
  <2> DEFINE h == hops[t]
             E == tree[t]
             A == active[t]
             R == Reached(won)
  <2>1. h \in Nat /\ h < MaxHops /\ MaxHops \in Nat
    BY CommunityAssumption
       DEF CommunityAssumption, Spread, MoreHops, CommunityInv, CascadeTyped
  <2>2. /\ tree'[t] = E \cup won /\ active'[t] = A \cup R /\ front'[t] = R
        /\ hops'[t] = h + 1 /\ seeds'[t] = seeds[t]
    BY <1>1, <1>2 DEF CommunityInv, CascadeTyped
  <2>3. PICK W : LayersOf(seeds[t], E, A, front[t], h, W)
    BY DEF Layered
  <2>4. /\ W[0] = seeds[t]
        /\ \A k \in 1..MaxHops : W[k] = W[k - 1] \cup Out(E, W[k - 1])
    <3>1. Layers(seeds[t], E, MaxHops, W)
      BY <2>3 DEF LayersOf
    <3> HIDE DEF E
    <3> QED BY <2>1, <3>1, LayersAre
  <2>5. /\ \A k \in 0..MaxHops : /\ W[k] \subseteq A /\ (k >= h => W[k] = A)
                                 /\ (k < h => W[k] \cap front[t] = {})
        /\ front[t] \subseteq A
    BY <2>3 DEF LayersOf
  <2>6. \A e \in won : e[1] \in front[t] /\ e[2] \notin A
    BY DEF Open
  <2>7. \A V : Out(E, V) \subseteq A
    BY DEF CommunityInv, WonOnce, Reached, Out
  <2>8. R \cap A = {}
    BY <2>6 DEF Reached
  <2>9. \A V : Out(won, V) \subseteq R
    BY DEF Out, Reached
  <2>10. Out(won, A) = R
    BY <2>5, <2>6 DEF Out, Reached
  <2>11. \A V : V \cap front[t] = {} => Out(won, V) = {}
    BY <2>6 DEF Out
  <2>12. \A V : Out(E \cup won, V) = Out(E, V) \cup Out(won, V)
    BY DEF Out
  <2> HIDE DEF h, E, A, R
  <2> DEFINE V == [k \in 0..MaxHops |-> IF k <= h THEN W[k] ELSE A \cup R]
  <2>13. /\ \A k \in 0..MaxHops : V[k] = IF k <= h THEN W[k] ELSE A \cup R
         /\ \E D : V = [k \in 0..MaxHops |-> D[k]]
    <3>1. V = [k \in 0..MaxHops |-> V[k]]
      OBVIOUS
    <3>2. \A k \in 0..MaxHops : V[k] = IF k <= h THEN W[k] ELSE A \cup R
      OBVIOUS
    <3> HIDE DEF V
    <3> QED BY <3>1, <3>2
  <2> HIDE DEF V
  <2>14. V[0] = seeds[t]
    BY <2>1, <2>4, <2>13
  <2>15. ASSUME NEW k \in 1..MaxHops
         PROVE  V[k] = V[k - 1] \cup Out(E \cup won, V[k - 1])
    <3>1. k \in 0..MaxHops /\ k - 1 \in 0..MaxHops /\ k \in Int
      BY <2>1
    <3>2. CASE k <= h
      <4>1. V[k] = W[k] /\ V[k - 1] = W[k - 1] /\ k - 1 < h
        BY <2>1, <2>13, <3>1, <3>2
      <4>2. Out(won, W[k - 1]) = {}
        BY <2>5, <2>11, <3>1, <4>1
      <4> QED BY <2>4, <2>12, <4>1, <4>2
    <3>3. CASE k = h + 1
      <4>1. V[k] = A \cup R /\ V[k - 1] = A
        BY <2>1, <2>5, <2>13, <3>1, <3>3
      <4> QED BY <2>7, <2>10, <2>12, <4>1
    <3>4. CASE k > h + 1
      <4>1. V[k] = A \cup R /\ V[k - 1] = A \cup R
        BY <2>1, <2>13, <3>1, <3>4
      <4> QED BY <2>7, <2>9, <2>12, <4>1
    <3>5. k <= h \/ k = h + 1 \/ k > h + 1
      BY <2>1, <3>1
    <3> QED BY <3>2, <3>3, <3>4, <3>5
  <2>16. Layers(seeds[t], E \cup won, MaxHops, V)
    BY <2>1, <2>13, <2>14, <2>15, LayersAre
  <2>17. ASSUME NEW k \in 0..MaxHops
         PROVE  /\ V[k] \subseteq A \cup R
                /\ k >= h + 1 => V[k] = A \cup R
                /\ k < h + 1 => V[k] \cap R = {}
    <3>1. k <= h \/ k >= h + 1
      BY <2>1
    <3>2. CASE k <= h
      BY <2>1, <2>5, <2>8, <2>13, <3>2
    <3>3. CASE k >= h + 1
      BY <2>1, <2>13, <3>3
    <3> QED BY <3>1, <3>2, <3>3
  <2>18. LayersOf(seeds[t], E \cup won, A \cup R, R, h + 1, V)
    BY <2>16, <2>17 DEF LayersOf
  <2> QED BY <2>2, <2>18
<1> QED BY <1>3, <1>4 DEF Layered

LEMMA LayeredStep ==
    ASSUME CommunityInv, Layered, [Next]_vars
    PROVE  Layered'
<1>1. MaxHops \in Nat
    BY CommunityAssumption DEF CommunityAssumption
<1>2. ASSUME UNCHANGED <<seeds, active, front, hops, tree>> PROVE Layered'
    BY <1>2 DEF Layered
<1>3. CASE Drain \/ Settle
  <2>1. \A t \in Topics : /\ tree'[t] = {} /\ active'[t] = seeds'[t]
                          /\ front'[t] = seeds'[t] /\ hops'[t] = 0
    BY <1>3 DEF Drain, Settle
  <2> QED BY <1>1, <2>1, FirstLayer DEF Layered
<1>4. CASE EnqueueActivation \/ (\E t \in Topics : HopLimit(t))
    BY <1>2, <1>4 DEF EnqueueActivation, HopLimit
<1>5. CASE UNCHANGED vars
    BY <1>2, <1>5 DEF vars
<1> QED BY <1>3, <1>4, <1>5, HopLayer DEF Next, Propagate

LEMMA LayeredInit ==
    ASSUME Init PROVE Layered
<1>1. MaxHops \in Nat
    BY CommunityAssumption DEF CommunityAssumption
<1>2. \A t \in Topics : /\ tree[t] = {} /\ active[t] = seeds[t] /\ front[t] = seeds[t]
                        /\ hops[t] = 0
    BY DEF Init
<1> QED BY <1>1, <1>2, FirstLayer DEF Layered

(* In any ring and for any number of hops, everyone a cascade activates   *)
(* is at most k_max_hops winning edges away from somebody who shared, and  *)
(* was won once: what _propagate_topic activates is a forest.              *)
THEOREM CascadesAreForests == Spec => []CascadeIsForest
<1>1. Init => CommunityInv /\ Layered
    BY CommunityInit, LayeredInit
<1>2. CommunityInv /\ Layered /\ [Next]_vars => CommunityInv' /\ Layered'
    BY CommunityStep, LayeredStep
<1>3. CommunityInv /\ Layered => CascadeIsForest
  <2> SUFFICES ASSUME CommunityInv, Layered, NEW t \in Topics
               PROVE  /\ active[t] = Within(t, MaxHops)
                      /\ \A e \in tree[t] : e[2] \notin seeds[t]
                      /\ \A e, f \in tree[t] : e[2] = f[2] => e = f
    BY DEF CascadeIsForest
  <2>1. PICK W : LayersOf(seeds[t], tree[t], active[t], front[t], hops[t], W)
    BY DEF Layered
  <2>2. Within(t, MaxHops) = W[MaxHops]
    BY <2>1, WithinIs DEF LayersOf
  <2>3. MaxHops \in 0..MaxHops /\ MaxHops >= hops[t]
    BY CommunityAssumption DEF CommunityAssumption, CommunityInv, CascadeTyped
  <2>4. W[MaxHops] = active[t]
    BY <2>1, <2>3 DEF LayersOf
  <2> QED BY <2>2, <2>4 DEF CommunityInv, WonOnce
<1> QED BY <1>1, <1>2, <1>3, PTL DEF Spec
=============================================================================
