-------------------------- MODULE TickEngineProofs --------------------------
(***************************************************************************)
(* Proofs about the tick loop, for any agents, bounds and number of        *)
(* faults: inboxes are read in the order of the sorts, no query outlives   *)
(* QUERY_TTL but for the ticks an exception cut short, and up to the first *)
(* exception the engine is the message bus.                                *)
(*                                                                         *)
(* Ranked is shown to be the one list of a finite set in a given order;    *)
(* what sorting keeps and what concatenation does to a selection follow    *)
(* from that.                                                              *)
(***************************************************************************)
EXTENDS TickEngine, FiniteSetTheorems, FunctionTheorems, SequenceTheorems, TLAPS

-----------------------------------------------------------------------------
(* Sorting.  R puts the members of S in a row.                             *)
IsRow(R, S) ==
    /\ \A x \in S : <<x, x>> \notin R
    /\ \A x, y \in S : x # y => <<x, y>> \in R \/ <<y, x>> \in R
    /\ \A x, y, z \in S : <<x, y>> \in R /\ <<y, z>> \in R => <<x, z>> \in R

Below(x, R, S) == {y \in S : <<y, x>> \in R}

LEMMA RanksRise ==
    ASSUME NEW S, IsFiniteSet(S), NEW R, IsRow(R, S)
    PROVE  /\ \A x \in S : Cardinality(Below(x, R, S)) \in 0..(Cardinality(S) - 1)
           /\ \A x, y \in S : <<x, y>> \in R =>
                Cardinality(Below(x, R, S)) < Cardinality(Below(y, R, S))
<1>1. Cardinality(S) \in Nat
    BY FS_CardinalityType
<1>2. ASSUME NEW x \in S
      PROVE  Cardinality(Below(x, R, S)) \in 0..(Cardinality(S) - 1)
  <2>1. Below(x, R, S) \in SUBSET S /\ x \notin Below(x, R, S)
    BY DEF Below, IsRow
  <2>2. /\ IsFiniteSet(Below(x, R, S))
        /\ Cardinality(Below(x, R, S)) <= Cardinality(S)
        /\ Cardinality(S) # Cardinality(Below(x, R, S))
    BY <2>1, FS_Subset
  <2>3. Cardinality(Below(x, R, S)) \in Nat
    BY <2>2, FS_CardinalityType
  <2> QED BY <1>1, <2>2, <2>3
<1>3. ASSUME NEW x \in S, NEW y \in S, <<x, y>> \in R
      PROVE  Cardinality(Below(x, R, S)) < Cardinality(Below(y, R, S))
  <2>1. /\ Below(y, R, S) \in SUBSET S
        /\ Below(x, R, S) \in SUBSET Below(y, R, S)
        /\ x \in Below(y, R, S) /\ x \notin Below(x, R, S)
    BY <1>3 DEF Below, IsRow
  <2>2. IsFiniteSet(Below(y, R, S))
    BY <2>1, FS_Subset
  <2>3. /\ Cardinality(Below(x, R, S)) <= Cardinality(Below(y, R, S))
        /\ Cardinality(Below(y, R, S)) # Cardinality(Below(x, R, S))
    BY <2>1, <2>2, FS_Subset
  <2> QED BY <1>2, <2>3
<1> QED BY <1>2, <1>3

LEMMA RanksAreDistinct ==
    ASSUME NEW S, IsFiniteSet(S), NEW R, IsRow(R, S), NEW x \in S, NEW y \in S,
           Cardinality(Below(x, R, S)) = Cardinality(Below(y, R, S))
    PROVE  x = y
<1>1. <<x, y>> \notin R /\ <<y, x>> \notin R
    BY RanksRise
<1> QED BY <1>1 DEF IsRow

(* Ranked lists the members of S, each once, in the order of R.            *)
LEMMA RankedIs ==
    ASSUME NEW S, IsFiniteSet(S), NEW R, IsRow(R, S)
    PROVE  /\ Cardinality(S) \in Nat
           /\ Ranked(S, R) \in [1..Cardinality(S) -> S]
           /\ \A k \in 1..Cardinality(S) : Cardinality(Below(Ranked(S, R)[k], R, S)) = k - 1
           /\ \A j, k \in 1..Cardinality(S) : j < k => <<Ranked(S, R)[j], Ranked(S, R)[k]>> \in R
           /\ \A x \in S : \E k \in 1..Cardinality(S) : Ranked(S, R)[k] = x
<1> DEFINE n == Cardinality(S)
           rank == [x \in S |-> Cardinality(Below(x, R, S)) + 1]
           f == Ranked(S, R)
<1>1. n \in Nat
    BY FS_CardinalityType
<1>2. \A x \in S : rank[x] = Cardinality(Below(x, R, S)) + 1 /\ rank[x] \in 1..n
  <2>1. \A x \in S : Cardinality(Below(x, R, S)) \in 0..(n - 1)
    BY RanksRise
  <2> QED BY <1>1, <2>1
<1>3. \A x, y \in S : rank[x] = rank[y] => x = y
  <2> TAKE x \in S, y \in S
  <2>1. Cardinality(Below(x, R, S)) \in 0..(n - 1) /\ Cardinality(Below(y, R, S)) \in 0..(n - 1)
    BY RanksRise
  <2> QED BY <2>1, <1>2, <1>1, RanksAreDistinct
<1>4. rank \in Injection(S, 1..n)
  <2>1. rank \in [S -> 1..n]
    BY <1>2
  <2> QED BY <2>1, <1>3 DEF Injection, IsInjective
<1>5. IsFiniteSet(1..n) /\ Cardinality(1..n) = n
    BY <1>1, FS_Interval
<1>6. rank \in Surjection(S, 1..n)
    BY <1>4, <1>5, FS_Injection
<1>7. \A k \in 1..n : \E x \in S : rank[x] = k
    BY <1>6 DEF Surjection
<1>8. \A k \in 1..n : f[k] \in S /\ Cardinality(Below(f[k], R, S)) = k - 1
  <2> TAKE k \in 1..n
  <2>1. \E x \in S : Cardinality(Below(x, R, S)) = k - 1
    <3>1. PICK x \in S : rank[x] = k
        BY <1>7
    <3>2. Cardinality(Below(x, R, S)) \in 0..(n - 1) /\ Cardinality(Below(x, R, S)) + 1 = k
        BY <3>1, <1>2, RanksRise
    <3> QED BY <3>2, <1>1
  <2>2. f[k] = CHOOSE x \in S : Cardinality(Below(x, R, S)) = k - 1
    BY DEF Ranked, Below
  <2> HIDE DEF f
  <2> QED BY <2>1, <2>2
<1> DEFINE pick(k) == CHOOSE x \in S : Cardinality(Below(x, R, S)) = k - 1
<1>9. f = [k \in 1..n |-> pick(k)]
    BY DEF Ranked, Below
<1> HIDE DEF f, n, rank, pick
<1>10. f \in [1..n -> S]
    BY <1>8, <1>9
<1>11. ASSUME NEW j \in 1..n, NEW k \in 1..n, j < k PROVE <<f[j], f[k]>> \in R
  <2>1. Cardinality(Below(f[j], R, S)) = j - 1 /\ Cardinality(Below(f[k], R, S)) = k - 1
    BY <1>8
  <2>2. f[j] \in S /\ f[k] \in S
    BY <1>8
  <2>3. f[j] # f[k] /\ <<f[k], f[j]>> \notin R
    BY <2>1, <2>2, <1>11, <1>1, RanksRise
  <2> QED BY <2>2, <2>3 DEF IsRow
<1>12. ASSUME NEW x \in S PROVE \E k \in 1..n : f[k] = x
  <2>1. rank[x] \in 1..n /\ Cardinality(Below(x, R, S)) \in 0..(n - 1)
    BY <1>2, RanksRise DEF n
  <2>2. Cardinality(Below(f[rank[x]], R, S)) = Cardinality(Below(x, R, S))
    BY <2>1, <1>2, <1>8, <1>1
  <2>3. f[rank[x]] = x
    BY <2>1, <2>2, <1>8, RanksAreDistinct
  <2> QED BY <2>1, <2>3
<1> QED BY <1>1, <1>8, <1>10, <1>11, <1>12 DEF f, n

(* And it is the only list that does.                                      *)
Lists(f, n, S, R) ==
    /\ f \in [1..n -> S]
    /\ \A j, k \in 1..n : j < k => <<f[j], f[k]>> \in R
    /\ \A x \in S : \E k \in 1..n : f[k] = x

LEMMA RankedIsOnly ==
    ASSUME NEW S, NEW R, IsRow(R, S), NEW n \in Nat, NEW f, Lists(f, n, S, R)
    PROVE  IsFiniteSet(S) /\ n = Cardinality(S) /\ f = Ranked(S, R)
<1>0. /\ f \in [1..n -> S]
      /\ \A j, k \in 1..n : j < k => <<f[j], f[k]>> \in R
      /\ \A x \in S : \E k \in 1..n : f[k] = x
    BY DEF Lists
<1>1. \A j, k \in 1..n : f[j] = f[k] => j = k
  <2> SUFFICES ASSUME NEW j \in 1..n, NEW k \in 1..n, f[j] = f[k], j # k PROVE FALSE
    OBVIOUS
  <2>1. j < k \/ k < j
    OBVIOUS
  <2>2. f[j] \in S /\ f[k] \in S
    BY <1>0
  <2> QED BY <2>1, <2>2, <1>0 DEF IsRow
<1>2. f \in Bijection(1..n, S)
    BY <1>0, <1>1 DEF Bijection, Injection, Surjection, IsInjective
<1>3. ExistsBijection(1..n, S)
    BY <1>2 DEF ExistsBijection
<1>4. IsFiniteSet(S) /\ Cardinality(S) = n
    BY <1>3, FS_NatBijection, FS_CountingElements
<1>5. ASSUME NEW k \in 1..n PROVE f[k] = Ranked(S, R)[k]
  <2> DEFINE T == Below(f[k], R, S)
             m == k - 1
             g == [j \in 1..m |-> f[j]]
  <2>1. m \in Nat /\ \A j \in 1..m : j \in 1..n /\ j < k /\ g[j] = f[j]
    OBVIOUS
  <2>2. f[k] \in S /\ \A j \in 1..n : f[j] \in S
    BY <1>0
  <2>3. \A j \in 1..m : g[j] \in T
    BY <1>0, <2>1, <2>2 DEF Below
  <2>4. \A x \in T : \E j \in 1..m : g[j] = x
    <3> TAKE x \in T
    <3>1. x \in S /\ <<x, f[k]>> \in R
        BY DEF Below
    <3>2. PICK j \in 1..n : f[j] = x
        BY <3>1, <1>0
    <3>3. ~(k < j) /\ j # k
        BY <1>0, <3>1, <3>2, <2>2 DEF IsRow
    <3>4. j \in 1..m
        BY <3>3
    <3> QED BY <3>2, <3>4, <2>1
  <2>5. \A i, j \in 1..m : g[i] = g[j] => i = j
    BY <2>1, <1>1
  <2>6. g \in [1..m -> T]
    BY <2>3
  <2>7. g \in Bijection(1..m, T)
    BY <2>4, <2>5, <2>6 DEF Bijection, Injection, Surjection, IsInjective
  <2>8. Cardinality(T) = m
    BY <2>1, <2>7, FS_CountingElements DEF ExistsBijection
  <2>9. Ranked(S, R)[k] \in S /\ Cardinality(Below(Ranked(S, R)[k], R, S)) = k - 1
    <3>1. k \in 1..Cardinality(S)
        BY <1>4
    <3>2. /\ Ranked(S, R) \in [1..Cardinality(S) -> S]
          /\ \A i \in 1..Cardinality(S) : Cardinality(Below(Ranked(S, R)[i], R, S)) = i - 1
        BY <1>4, RankedIs
    <3> QED BY <3>1, <3>2
  <2> QED BY <2>2, <2>8, <2>9, <1>4, RanksAreDistinct
<1>6. Ranked(S, R) \in [1..n -> S]
    BY <1>4, RankedIs
<1> QED BY <1>0, <1>4, <1>5, <1>6
-----------------------------------------------------------------------------
(* What an inbox holds, and the order it is read in.                       *)
LEMMA ItemsAre ==
    ASSUME NEW x \in Item
    PROVE  /\ IsMessage(x) => x \in Message /\ x.sent \in Int /\ x.from \in Int /\ x.from \in Ids
           /\ ~IsMessage(x) => x.query \in Query /\ x.query.id \in Int /\ x = Result(x.query)
<1>1. Ids \subseteq Int /\ QueryIds \subseteq Int /\ MaxTick \in Int
    BY EngineAssumption DEF EngineAssumption
<1>2. CASE x \in Message
    BY <1>1, <1>2 DEF Message, IsMessage
<1>3. CASE x \in {Result(q) : q \in Query}
  <2>1. PICK q \in Query : x = Result(q)
    BY <1>3
  <2>2. ~IsMessage(x) /\ x.query = q
    BY <2>1 DEF Result, IsMessage
  <2>3. q.id \in QueryIds
    BY DEF Query
  <2> QED BY <2>1, <2>2, <2>3, <1>1
<1> QED BY <1>2, <1>3 DEF Item

LEMMA MessagesAreItems ==
    /\ Message \subseteq Item
    /\ \A m \in Message : IsMessage(m)
    /\ \A q \in Query : Result(q) \in Item /\ ~IsMessage(Result(q)) /\ Result(q).query = q
<1>1. \A m \in Message : IsMessage(m)
    BY DEF Message, IsMessage
<1>2. \A q \in Query : ~IsMessage(Result(q)) /\ Result(q).query = q
    BY DEF Result, IsMessage
<1> QED BY <1>1, <1>2 DEF Item

LEMMA BeforeIsAnOrder ==
    ASSUME NEW x \in Item, NEW y \in Item, NEW z \in Item
    PROVE  /\ Before(x, y) => ~Before(y, x)
           /\ ~Before(x, y) /\ ~Before(y, z) => ~Before(x, z)
<1>1. /\ IsMessage(x) => x.sent \in Int /\ x.from \in Int
      /\ ~IsMessage(x) => x.query.id \in Int
      /\ IsMessage(y) => y.sent \in Int /\ y.from \in Int
      /\ ~IsMessage(y) => y.query.id \in Int
      /\ IsMessage(z) => z.sent \in Int /\ z.from \in Int
      /\ ~IsMessage(z) => z.query.id \in Int
    BY ItemsAre
<1>2. Before(x, y) => ~Before(y, x)
    BY <1>1 DEF Before, Earlier
<1>3. ASSUME ~Before(x, y), ~Before(y, z) PROVE ~Before(x, z)
  <2>1. CASE IsMessage(x) /\ IsMessage(y) /\ IsMessage(z)
    BY <1>1, <1>3, <2>1 DEF Before, Earlier
  <2>2. CASE ~IsMessage(x) /\ ~IsMessage(y) /\ ~IsMessage(z)
    BY <1>1, <1>3, <2>2 DEF Before
  <2>3. CASE IsMessage(x) /\ ~IsMessage(z)
    BY <2>3 DEF Before
  <2> QED BY <1>3, <2>1, <2>2, <2>3 DEF Before
<1> QED BY <1>2, <1>3

(* The relation that Sorted sorts by.                                      *)
ByItem(items, I) ==
    {p \in I \X I : \/ Before(items[p[1]], items[p[2]])
                    \/ ~Before(items[p[2]], items[p[1]]) /\ p[1] < p[2]}

LEMMA ByItemIs ==
    ASSUME NEW items, NEW I, NEW i \in I, NEW j \in I
    PROVE  <<i, j>> \in ByItem(items, I) <=>
                (Before(items[i], items[j]) \/ (~Before(items[j], items[i]) /\ i < j))
<1>1. <<i, j>> \in I \X I /\ <<i, j>>[1] = i /\ <<i, j>>[2] = j
    OBVIOUS
<1> QED BY <1>1 DEF ByItem

LEMMA LessIs ==
    ASSUME NEW I, NEW i \in I, NEW j \in I
    PROVE  <<i, j>> \in Less(I) <=> i < j
<1>1. <<i, j>> \in I \X I /\ <<i, j>>[1] = i /\ <<i, j>>[2] = j
    OBVIOUS
<1> QED BY <1>1 DEF Less

LEMMA LessIsARow ==
    ASSUME NEW I \in SUBSET Int
    PROVE  IsRow(Less(I), I)
<1>1. \A i, j \in I : <<i, j>> \in Less(I) <=> i < j
    BY LessIs
<1> QED BY <1>1 DEF IsRow

LEMMA ByItemIsARow ==
    ASSUME NEW items, NEW I \in SUBSET Int, \A i \in I : items[i] \in Item
    PROVE  IsRow(ByItem(items, I), I)
<1>1. \A i, j \in I : <<i, j>> \in ByItem(items, I) <=>
        (Before(items[i], items[j]) \/ (~Before(items[j], items[i]) /\ i < j))
    BY ByItemIs
<1>2. \A i, j, k \in I :
        /\ Before(items[i], items[j]) => ~Before(items[j], items[i])
        /\ ~Before(items[i], items[j]) /\ ~Before(items[j], items[k])
             => ~Before(items[i], items[k])
  <2> TAKE i \in I, j \in I, k \in I
  <2>1. items[i] \in Item /\ items[j] \in Item /\ items[k] \in Item
    OBVIOUS
  <2> QED BY <2>1, BeforeIsAnOrder
<1>3. ASSUME NEW i \in I PROVE <<i, i>> \notin ByItem(items, I)
  <2>1. ~Before(items[i], items[i]) /\ ~(i < i)
    BY <1>2
  <2> QED BY <1>1, <2>1
<1>4. ASSUME NEW i \in I, NEW j \in I, i # j
      PROVE  <<i, j>> \in ByItem(items, I) \/ <<j, i>> \in ByItem(items, I)
  <2>1. i < j \/ j < i
    BY <1>4
  <2> QED BY <1>1, <2>1
<1>5. ASSUME NEW i \in I, NEW j \in I, NEW k \in I,
             <<i, j>> \in ByItem(items, I), <<j, k>> \in ByItem(items, I)
      PROVE  <<i, k>> \in ByItem(items, I)
  <2>1. ~Before(items[j], items[i]) /\ ~Before(items[k], items[j])
    BY <1>1, <1>2, <1>5
  <2>2. ~Before(items[k], items[i])
    BY <2>1, <1>2
  <2>3. CASE Before(items[i], items[j]) \/ Before(items[j], items[k])
    <3>1. Before(items[i], items[k])
        BY <2>1, <2>3, <1>2
    <3> QED BY <3>1, <1>1
  <2>4. CASE i < j /\ j < k
    <3>1. i < k
        BY <2>4
    <3> QED BY <3>1, <2>2, <1>1
  <2> QED BY <1>1, <1>5, <2>3, <2>4
<1> QED BY <1>3, <1>4, <1>5 DEF IsRow
-----------------------------------------------------------------------------
(* Sorted keeps the items at I, all of them, and puts them in order.       *)
LEMMA SortedIs ==
    ASSUME NEW items, NEW I \in SUBSET Int, IsFiniteSet(I), \A i \in I : items[i] \in Item
    PROVE  /\ Cardinality(I) \in Nat
           /\ Sorted(items, I) \in [1..Cardinality(I) -> Item]
           /\ Sorted(items, I) \in Seq(Item) /\ Len(Sorted(items, I)) = Cardinality(I)
           /\ \A k \in DOMAIN Sorted(items, I) : \E i \in I : Sorted(items, I)[k] = items[i]
           /\ \A j, k \in DOMAIN Sorted(items, I) :
                j < k => ~Before(Sorted(items, I)[k], Sorted(items, I)[j])
<1> DEFINE R == ByItem(items, I)
           n == Cardinality(I)
           g == Ranked(I, R)
           s == Sorted(items, I)
<1>1. IsRow(R, I)
    BY ByItemIsARow
<1> HIDE DEF R
<1>2. /\ n \in Nat /\ g \in [1..n -> I]
      /\ \A j, k \in 1..n : j < k => <<g[j], g[k]>> \in R
    BY <1>1, RankedIs
<1>3. s = [k \in 1..n |-> items[g[k]]]
    BY DEF R, Sorted, ByItem
<1> HIDE DEF g, n, s
<1>4. \A k \in 1..n : g[k] \in I /\ s[k] = items[g[k]]
    BY <1>2, <1>3
<1>5. s \in [1..n -> Item]
    BY <1>3, <1>4
<1>6. s \in Seq(Item) /\ Len(s) = n /\ DOMAIN s = 1..n
    BY <1>2, <1>5
<1>7. ASSUME NEW j \in 1..n, NEW k \in 1..n, j < k
      PROVE  ~Before(s[k], s[j])
  <2>1. g[j] \in I /\ g[k] \in I /\ <<g[j], g[k]>> \in R
    BY <1>2, <1>7
  <2>2. Before(items[g[j]], items[g[k]]) \/ ~Before(items[g[k]], items[g[j]])
    BY <2>1, ByItemIs DEF R
  <2>3. items[g[j]] \in Item /\ items[g[k]] \in Item
    BY <2>1
  <2>4. ~Before(items[g[k]], items[g[j]])
    BY <2>2, <2>3, BeforeIsAnOrder
  <2> QED BY <2>4, <1>4
<1> QED BY <1>2, <1>4, <1>5, <1>6, <1>7 DEF n, s

(* At lists what stands at I, from the left.                               *)
LEMMA AtIs ==
    ASSUME NEW X, NEW s \in Seq(X), NEW I \in SUBSET DOMAIN s
    PROVE  /\ IsFiniteSet(I) /\ Cardinality(I) \in Nat
           /\ At(s, I) \in Seq(X) /\ Len(At(s, I)) = Cardinality(I)
           /\ Ranked(I, Less(I)) \in [1..Cardinality(I) -> I]
           /\ \A k \in 1..Cardinality(I) : At(s, I)[k] = s[Ranked(I, Less(I))[k]]
           /\ \A j, k \in 1..Cardinality(I) :
                j < k => Ranked(I, Less(I))[j] < Ranked(I, Less(I))[k]
           /\ \A i \in I : \E k \in 1..Cardinality(I) : Ranked(I, Less(I))[k] = i
<1> DEFINE n == Cardinality(I)
           g == Ranked(I, Less(I))
           t == At(s, I)
<1>1. I \in SUBSET Int /\ I \in SUBSET (1..Len(s)) /\ Len(s) \in Int
    OBVIOUS
<1>2. IsFiniteSet(I) /\ IsRow(Less(I), I)
    BY <1>1, FS_Interval, FS_Subset, LessIsARow
<1>3. /\ n \in Nat /\ g \in [1..n -> I]
      /\ \A j, k \in 1..n : j < k => <<g[j], g[k]>> \in Less(I)
      /\ \A i \in I : \E k \in 1..n : g[k] = i
    BY <1>2, RankedIs
<1>4. t = [k \in 1..n |-> s[g[k]]]
    BY DEF At
<1> HIDE DEF g, n, t
<1>5. \A k \in 1..n : g[k] \in I /\ s[g[k]] \in X
    BY <1>3, <1>1
<1>6. t \in Seq(X) /\ Len(t) = n /\ \A k \in 1..n : t[k] = s[g[k]]
    BY <1>3, <1>4, <1>5
<1>7. \A j, k \in 1..n : j < k => g[j] < g[k]
    BY <1>3, <1>5, LessIs
<1> QED BY <1>2, <1>3, <1>6, <1>7 DEF n, g, t

(* Any list of the positions I from the left shows what At is.             *)
LEMMA AtIsWhat ==
    ASSUME NEW s, NEW I \in SUBSET Int, NEW n \in Nat, NEW f, Lists(f, n, I, Less(I))
    PROVE  /\ Cardinality(I) = n
           /\ At(s, I) = [k \in 1..n |-> At(s, I)[k]]
           /\ \A k \in 1..n : At(s, I)[k] = s[f[k]]
<1>1. IsRow(Less(I), I)
    BY LessIsARow
<1>2. n = Cardinality(I) /\ f = Ranked(I, Less(I))
    BY <1>1, RankedIsOnly
<1>3. At(s, I) = [k \in 1..Cardinality(I) |-> s[Ranked(I, Less(I))[k]]]
    BY DEF At
<1>4. At(s, I) = [k \in 1..n |-> s[f[k]]]
    BY <1>2, <1>3
<1> QED BY <1>2, <1>4

LEMMA ListsLess ==
    ASSUME NEW I, NEW n, NEW f \in [1..n -> I],
           \A j, k \in 1..n : j < k => f[j] < f[k],
           \A i \in I : \E k \in 1..n : f[k] = i
    PROVE  Lists(f, n, I, Less(I))
<1>1. \A j, k \in 1..n : f[j] \in I /\ f[k] \in I
    OBVIOUS
<1>2. \A j, k \in 1..n : j < k => <<f[j], f[k]>> \in Less(I)
    BY <1>1, LessIs
<1> QED BY <1>2 DEF Lists

LEMMA AtAll ==
    ASSUME NEW X, NEW s \in Seq(X)
    PROVE  At(s, DOMAIN s) = s
<1> DEFINE n == Len(s)
           f == [k \in 1..n |-> k]
           D == DOMAIN s
<1>1. n \in Nat /\ D = 1..n /\ s = [k \in 1..n |-> s[k]]
    OBVIOUS
<1>2. f \in [1..n -> D] /\ \A k \in 1..n : f[k] = k
    BY <1>1
<1>3. D \in SUBSET Int
    BY <1>1
<1> HIDE DEF f, n, D
<1>4. /\ \A j, k \in 1..n : j < k => f[j] < f[k]
      /\ \A i \in D : \E k \in 1..n : f[k] = i
    BY <1>1, <1>2
<1>5. Lists(f, n, D, Less(D))
    BY <1>2, <1>4, ListsLess
<1>6. At(s, D) = [k \in 1..n |-> At(s, D)[k]] /\ \A k \in 1..n : At(s, D)[k] = s[f[k]]
  <2>1. n \in Nat
    BY <1>1
  <2> QED BY <2>1, <1>3, <1>5, AtIsWhat
<1>7. At(s, D) = s
    BY <1>1, <1>2, <1>6
<1> QED BY <1>7 DEF D

LEMMA AtNone ==
    ASSUME NEW s
    PROVE  At(s, {}) = <<>>
<1>1. Cardinality({}) = 0
    BY FS_EmptySet
<1>2. At(s, {}) = [k \in 1..0 |-> s[Ranked({}, Less({}))[k]]]
    BY <1>1 DEF At
<1>3. \A k \in 1..0 : FALSE
    OBVIOUS
<1>4. At(s, {}) = [k \in {} |-> s[Ranked({}, Less({}))[k]]]
    BY <1>2, <1>3
<1>5. <<>> = [k \in {} |-> s[Ranked({}, Less({}))[k]]]
    OBVIOUS
<1> QED BY <1>4, <1>5

(* The positions K in s \o t are I in s and J in t.                        *)
Joins(s, t, K, I, J) ==
    /\ s \in Seq(Item) /\ I \subseteq DOMAIN s
    /\ t \in Seq(Item) /\ J \subseteq DOMAIN t
    /\ K \subseteq Int /\ I \subseteq K
    /\ \A j \in J : Len(s) + j \in K
    /\ \A i \in K : i \in I \/ \E j \in J : i = Len(s) + j

IsConcat(u, s, t) == u = s \o t

LEMMA AtConcat ==
    ASSUME NEW s, NEW t, NEW K, NEW I, NEW J, Joins(s, t, K, I, J)
    PROVE  IsConcat(At(s \o t, K), At(s, I), At(t, J))
<1>0. /\ s \in Seq(Item) /\ I \in SUBSET DOMAIN s
      /\ t \in Seq(Item) /\ J \in SUBSET DOMAIN t
    BY DEF Joins
<1> DEFINE n == Len(s)
           p == Cardinality(I)
           q == Cardinality(J)
           g == Ranked(I, Less(I))
           h == Ranked(J, Less(J))
           f == [k \in 1..(p + q) |-> IF k <= p THEN g[k] ELSE n + h[k - p]]
           u == s \o t
           v == At(s, I)
           w == At(t, J)
           z == v \o w
<1>1. /\ n \in Nat /\ I \subseteq 1..n /\ J \subseteq 1..Len(t) /\ Len(t) \in Nat
      /\ u \in Seq(Item)
      /\ \A i \in 1..n : u[i] = s[i]
      /\ \A j \in 1..Len(t) : u[n + j] = t[j]
    BY <1>0
<1>2. /\ p \in Nat /\ v \in Seq(Item) /\ Len(v) = p
      /\ g \in [1..p -> I]
      /\ \A k \in 1..p : v[k] = s[g[k]]
      /\ \A j, k \in 1..p : j < k => g[j] < g[k]
      /\ \A i \in I : \E k \in 1..p : g[k] = i
    BY <1>0, AtIs
<1>3. /\ q \in Nat /\ w \in Seq(Item) /\ Len(w) = q
      /\ h \in [1..q -> J]
      /\ \A k \in 1..q : w[k] = t[h[k]]
      /\ \A j, k \in 1..q : j < k => h[j] < h[k]
      /\ \A i \in J : \E k \in 1..q : h[k] = i
    BY <1>0, AtIs
<1>4. /\ I \subseteq K /\ \A j \in J : n + j \in K
      /\ \A i \in K : i \in I \/ \E j \in J : i = n + j
      /\ K \in SUBSET Int
    BY DEF Joins
<1> HIDE DEF n, p, q, g, h, u, v, w
<1>5. /\ \A k \in 1..p : k \in 1..(p + q) /\ f[k] = g[k] /\ g[k] \in I /\ g[k] \in 1..n
      /\ \A k \in 1..q : p + k \in 1..(p + q) /\ f[p + k] = n + h[k] /\ h[k] \in J /\ h[k] \in 1..Len(t)
      /\ \A k \in 1..(p + q) : k \in 1..p \/ (k - p \in 1..q /\ k = p + (k - p))
  <2>1. \A k \in 1..p : k \in 1..(p + q) /\ f[k] = g[k] /\ g[k] \in I /\ g[k] \in 1..n
    <3>1. \A k \in 1..p : g[k] \in I /\ g[k] \in 1..n
        BY <1>1, <1>2
    <3>2. \A k \in 1..p : k \in 1..(p + q) /\ k <= p
        BY <1>2, <1>3
    <3> QED BY <3>1, <3>2
  <2>2. \A k \in 1..q : h[k] \in J /\ h[k] \in 1..Len(t)
    BY <1>1, <1>3
  <2>3. \A k \in 1..q : p + k \in 1..(p + q) /\ ~(p + k <= p) /\ (p + k) - p = k
    BY <1>2, <1>3
  <2>4. \A k \in 1..(p + q) : k \in 1..p \/ (k - p \in 1..q /\ k = p + (k - p))
    BY <1>2, <1>3
  <2> QED BY <2>1, <2>2, <2>3, <2>4
<1> HIDE DEF f
<1>6. f \in [1..(p + q) -> K]
  <2>1. f = [k \in 1..(p + q) |-> f[k]]
    BY DEF f
  <2>2. ASSUME NEW k \in 1..(p + q) PROVE f[k] \in K
    <3>1. CASE k \in 1..p
        BY <3>1, <1>4, <1>5
    <3>2. CASE k - p \in 1..q /\ k = p + (k - p)
        BY <3>2, <1>4, <1>5
    <3> QED BY <3>1, <3>2, <1>5
  <2> QED BY <2>1, <2>2
<1>7. ASSUME NEW j \in 1..(p + q), NEW k \in 1..(p + q), j < k PROVE f[j] < f[k]
  <2>1. CASE j \in 1..p /\ k \in 1..p
    BY <2>1, <1>2, <1>5, <1>7
  <2>2. CASE j \in 1..p /\ k - p \in 1..q
    <3>1. f[j] \in 1..n /\ f[k] = n + h[k - p] /\ h[k - p] \in 1..Len(t)
        BY <2>2, <1>5, <1>2
    <3> QED BY <3>1, <1>1
  <2>3. CASE j - p \in 1..q /\ k - p \in 1..q
    <3> DEFINE b == j - p
               c == k - p
    <3>0. b \in 1..q /\ c \in 1..q /\ b < c /\ p + b = j /\ p + c = k
        BY <2>3, <1>2, <1>3, <1>7
    <3> HIDE DEF b, c
    <3>1. f[p + b] = n + h[b] /\ f[p + c] = n + h[c] /\ h[b] < h[c]
        BY <3>0, <1>5, <1>3
    <3>2. h[b] \in 1..Len(t) /\ h[c] \in 1..Len(t)
        BY <3>0, <1>5
    <3> QED BY <3>0, <3>1, <3>2, <1>1
  <2>4. ~(j - p \in 1..q /\ k \in 1..p)
    BY <1>2, <1>3, <1>7
  <2> QED BY <2>1, <2>2, <2>3, <2>4, <1>5
<1>8. ASSUME NEW i \in K PROVE \E k \in 1..(p + q) : f[k] = i
  <2>1. CASE i \in I
    BY <2>1, <1>2, <1>5
  <2>2. CASE \E j \in J : i = n + j
    <3>1. PICK j \in J : i = n + j
        BY <2>2
    <3>2. PICK k \in 1..q : h[k] = j
        BY <1>3
    <3> QED BY <3>1, <3>2, <1>5
  <2> QED BY <1>4, <2>1, <2>2
<1>9. /\ At(u, K) = [k \in 1..(p + q) |-> At(u, K)[k]]
      /\ \A k \in 1..(p + q) : At(u, K)[k] = u[f[k]]
  <2>1. p + q \in Nat
    BY <1>2, <1>3
  <2>2. Lists(f, p + q, K, Less(K))
    BY <1>6, <1>7, <1>8, ListsLess
  <2> QED BY <1>4, <2>1, <2>2, AtIsWhat
<1>10. v \in Seq(Item) /\ Len(v) = p /\ w \in Seq(Item) /\ Len(w) = q
    BY <1>2, <1>3
<1>10a. /\ z \in Seq(Item) /\ Len(z) = p + q
        /\ \A k \in 1..p : z[k] = v[k]
        /\ \A k \in 1..q : z[p + k] = w[k]
  <2>1. p \in Nat /\ q \in Nat
    BY <1>2, <1>3
  <2>2. /\ z \in Seq(Item) /\ Len(z) = p + q
        /\ \A k \in 1..(p + q) : z[k] = IF k <= p THEN v[k] ELSE w[k - p]
    BY <1>10, ConcatProperties DEF z
  <2>3. \A k \in 1..p : k \in 1..(p + q) /\ k <= p
    BY <2>1
  <2>4. \A k \in 1..q : p + k \in 1..(p + q) /\ ~(p + k <= p) /\ (p + k) - p = k
    BY <2>1
  <2> QED BY <2>2, <2>3, <2>4
<1> HIDE DEF z
<1>11. ASSUME NEW k \in 1..(p + q) PROVE u[f[k]] = z[k]
  <2>1. CASE k \in 1..p
    <3>1. f[k] = g[k] /\ g[k] \in 1..n
        BY <2>1, <1>5
    <3>2. u[g[k]] = s[g[k]] /\ z[k] = v[k] /\ v[k] = s[g[k]]
        BY <2>1, <3>1, <1>1, <1>2, <1>10a
    <3> QED BY <3>1, <3>2
  <2>2. CASE k - p \in 1..q /\ k = p + (k - p)
    <3> DEFINE l == k - p
    <3>1. l \in 1..q /\ k = p + l
        BY <2>2
    <3> HIDE DEF l
    <3>2. f[p + l] = n + h[l] /\ h[l] \in 1..Len(t) /\ w[l] = t[h[l]]
        BY <3>1, <1>5, <1>3
    <3>3. z[p + l] = w[l]
        BY <3>1, <1>10a
    <3>4. u[n + h[l]] = t[h[l]]
        BY <3>2, <1>1
    <3>5. u[f[p + l]] = z[p + l]
        BY <3>2, <3>3, <3>4
    <3> QED BY <3>1, <3>5
  <2> QED BY <2>1, <2>2, <1>5
<1>12. z = [k \in 1..(p + q) |-> z[k]]
    BY <1>10a
<1>13. At(u, K) = z
    BY <1>9, <1>11, <1>12
<1> QED BY <1>13 DEF z, u, v, w, IsConcat
-----------------------------------------------------------------------------
(* The messages of an inbox, and what of the outgoing ones goes to a.      *)
Letters(s) == At(s, MessagesIn(s))
Addressed(s, a) == {i \in DOMAIN s : s[i].to = a}
For(s, a) == At(s, Addressed(s, a))

LEMMA PositionsConcat ==
    ASSUME NEW X, NEW s \in Seq(X), NEW t \in Seq(X)
    PROVE  /\ s \o t \in Seq(X) /\ Len(s \o t) = Len(s) + Len(t)
           /\ \A i \in DOMAIN s : i \in DOMAIN (s \o t) /\ (s \o t)[i] = s[i]
           /\ \A j \in DOMAIN t : Len(s) + j \in DOMAIN (s \o t) /\ (s \o t)[Len(s) + j] = t[j]
           /\ \A i \in DOMAIN (s \o t) :
                i \in DOMAIN s \/ \E j \in DOMAIN t : i = Len(s) + j
<1> DEFINE n == Len(s)
           m == Len(t)
           u == s \o t
<1>1. n \in Nat /\ m \in Nat /\ DOMAIN s = 1..n /\ DOMAIN t = 1..m
    OBVIOUS
<1>2. /\ u \in Seq(X) /\ Len(u) = n + m
      /\ \A k \in 1..(n + m) : u[k] = IF k <= n THEN s[k] ELSE t[k - n]
    BY ConcatProperties
<1> HIDE DEF n, m, u
<1>3. DOMAIN u = 1..(n + m)
    BY <1>1, <1>2
<1>4. \A i \in 1..n : i \in 1..(n + m) /\ i <= n
    BY <1>1
<1>5. \A j \in 1..m : n + j \in 1..(n + m) /\ ~(n + j <= n) /\ (n + j) - n = j
    BY <1>1
<1>6. \A i \in 1..(n + m) : i \in 1..n \/ (i - n \in 1..m /\ i = n + (i - n))
    BY <1>1
<1>7. \A i \in 1..(n + m) : i \in 1..n \/ \E j \in 1..m : i = n + j
    BY <1>6
<1>8. /\ \A i \in 1..n : u[i] = s[i]
      /\ \A j \in 1..m : u[n + j] = t[j]
    BY <1>2, <1>4, <1>5
<1> QED BY <1>1, <1>2, <1>3, <1>4, <1>5, <1>7, <1>8 DEF n, m, u

LEMMA LettersConcat ==
    ASSUME NEW s \in Seq(Item), NEW t \in Seq(Item)
    PROVE  /\ s \o t \in Seq(Item)
           /\ Letters(s \o t) = Letters(s) \o Letters(t)
<1> DEFINE u == s \o t
           n == Len(s)
           I == MessagesIn(s)
           J == MessagesIn(t)
           K == MessagesIn(u)
<1>1. /\ u \in Seq(Item)
      /\ \A i \in DOMAIN s : i \in DOMAIN u /\ u[i] = s[i]
      /\ \A j \in DOMAIN t : n + j \in DOMAIN u /\ u[n + j] = t[j]
      /\ \A i \in DOMAIN u : i \in DOMAIN s \/ \E j \in DOMAIN t : i = n + j
    BY PositionsConcat
<1>2. I \in SUBSET DOMAIN s /\ J \in SUBSET DOMAIN t
    BY DEF MessagesIn
<1>3. K \in SUBSET Int
  <2>1. DOMAIN u \in SUBSET Int
    BY <1>1
  <2> QED BY <2>1 DEF MessagesIn
<1> HIDE DEF u, n
<1>4. I \subseteq K /\ \A j \in J : n + j \in K
    BY <1>1 DEF MessagesIn
<1>5. ASSUME NEW i \in K PROVE i \in I \/ \E j \in J : i = n + j
    BY <1>1 DEF MessagesIn
<1>6. At(u, K) = At(s, I) \o At(t, J)
  <2> HIDE DEF I, J, K
  <2>1. Joins(s, t, K, I, J)
    BY <1>2, <1>3, <1>4, <1>5 DEF Joins, n
  <2>2. IsConcat(At(s \o t, K), At(s, I), At(t, J))
    BY <2>1, AtConcat, Zenon
  <2> QED BY <2>2 DEF u, IsConcat
<1> QED BY <1>1, <1>6 DEF Letters, u

LEMMA ForConcat ==
    ASSUME NEW s \in Seq(Message), NEW t \in Seq(Message), NEW a
    PROVE  For(s \o t, a) = For(s, a) \o For(t, a)
<1> DEFINE u == s \o t
           n == Len(s)
           I == Addressed(s, a)
           J == Addressed(t, a)
           K == Addressed(u, a)
<1>0. s \in Seq(Item) /\ t \in Seq(Item)
    BY DEF Item
<1>1. /\ u \in Seq(Message)
      /\ \A i \in DOMAIN s : i \in DOMAIN u /\ u[i] = s[i]
      /\ \A j \in DOMAIN t : n + j \in DOMAIN u /\ u[n + j] = t[j]
      /\ \A i \in DOMAIN u : i \in DOMAIN s \/ \E j \in DOMAIN t : i = n + j
    BY PositionsConcat
<1>2. I \in SUBSET DOMAIN s /\ J \in SUBSET DOMAIN t
    BY DEF Addressed
<1>3. K \in SUBSET Int
  <2>1. DOMAIN u \in SUBSET Int
    BY <1>1
  <2> QED BY <2>1 DEF Addressed
<1> HIDE DEF u, n
<1>4. I \subseteq K /\ \A j \in J : n + j \in K
    BY <1>1 DEF Addressed
<1>5. ASSUME NEW i \in K PROVE i \in I \/ \E j \in J : i = n + j
    BY <1>1 DEF Addressed
<1>6. At(u, K) = At(s, I) \o At(t, J)
  <2> HIDE DEF I, J, K
  <2>1. Joins(s, t, K, I, J)
    BY <1>0, <1>2, <1>3, <1>4, <1>5 DEF Joins, n
  <2>2. IsConcat(At(s \o t, K), At(s, I), At(t, J))
    BY <2>1, AtConcat, Zenon
  <2> QED BY <2>2 DEF u, IsConcat
<1> QED BY <1>1, <1>6 DEF For, u

LEMMA LettersOfMessages ==
    ASSUME NEW s \in Seq(Item), \A i \in DOMAIN s : IsMessage(s[i])
    PROVE  Letters(s) = s
<1>1. MessagesIn(s) = DOMAIN s
    BY DEF MessagesIn
<1> QED BY <1>1, AtAll DEF Letters

LEMMA LettersOfResults ==
    ASSUME NEW s \in Seq(Item), \A i \in DOMAIN s : ~IsMessage(s[i])
    PROVE  Letters(s) = <<>>
<1>1. MessagesIn(s) = {}
    BY DEF MessagesIn
<1> QED BY <1>1, AtNone DEF Letters

(* Messages that are in order, by tick and sender, stay as they are.       *)
InOrder(s) == \A i, j \in DOMAIN s :
    i < j /\ IsMessage(s[i]) /\ IsMessage(s[j]) => ~Earlier(s[j], s[i])

LEMMA LettersAreKept ==
    ASSUME NEW s \in Seq(Item), InOrder(s)
    PROVE  Letters(Arranged(s)) = Letters(s)
<1> DEFINE D == DOMAIN s
           R == ByItem(s, D)
           n == Cardinality(D)
           g == Ranked(D, R)
           t == Arranged(s)
           I == MessagesIn(s)
           J == MessagesIn(t)
           m == Cardinality(J)
           h == Ranked(J, Less(J))
           f == [k \in 1..m |-> g[h[k]]]
<1>1. D \in SUBSET Int /\ IsFiniteSet(D) /\ \A i \in D : s[i] \in Item
  <2>1. Len(s) \in Nat /\ D = 1..Len(s)
    OBVIOUS
  <2> QED BY <2>1, FS_Interval
<1>2. IsRow(R, D)
    BY <1>1, ByItemIsARow
<1>3. /\ n \in Nat /\ g \in [1..n -> D]
      /\ \A j, k \in 1..n : j < k => <<g[j], g[k]>> \in R
      /\ \A i \in D : \E k \in 1..n : g[k] = i
  <2> HIDE DEF R
  <2> QED BY <1>1, <1>2, RankedIs
<1>4. t = [k \in 1..n |-> s[g[k]]]
    BY DEF Arranged, Sorted, ByItem
<1>5. t \in Seq(Item) /\ DOMAIN t = 1..n
  <2> HIDE DEF D, n, g
  <2>1. \A k \in 1..n : s[g[k]] \in Item
    BY <1>1, <1>3
  <2> HIDE DEF t
  <2> QED BY <1>3, <1>4, <2>1
<1>6. J \in SUBSET DOMAIN t
    BY DEF MessagesIn
<1>7. /\ m \in Nat /\ h \in [1..m -> J]
      /\ \A k \in 1..m : At(t, J)[k] = t[h[k]]
      /\ \A j, k \in 1..m : j < k => h[j] < h[k]
      /\ \A i \in J : \E k \in 1..m : h[k] = i
      /\ At(t, J) \in Seq(Item) /\ Len(At(t, J)) = m
  <2> HIDE DEF t, J
  <2> QED BY <1>5, <1>6, AtIs, ZenonT(30)
<1> HIDE DEF n, g, t, m, h
<1>8. \A k \in 1..m : h[k] \in 1..n /\ t[h[k]] = s[g[h[k]]] /\ IsMessage(t[h[k]]) /\ g[h[k]] \in D
  <2>1. \A k \in 1..m : h[k] \in J
    BY <1>7
  <2>2. \A k \in 1..m : h[k] \in 1..n /\ IsMessage(t[h[k]])
    BY <2>1, <1>5 DEF MessagesIn
  <2> HIDE DEF D, J
  <2> QED BY <2>2, <1>3, <1>4
<1>9. \A k \in 1..m : f[k] = g[h[k]] /\ f[k] \in I
    BY <1>8 DEF MessagesIn
<1>10. f \in [1..m -> I]
    BY <1>9
<1>11. ASSUME NEW j \in 1..m, NEW k \in 1..m, j < k PROVE f[j] < f[k]
  <2> DEFINE a == g[h[j]]
             b == g[h[k]]
  <2>1. h[j] < h[k] /\ h[j] \in 1..n /\ h[k] \in 1..n
    BY <1>7, <1>8, <1>11
  <2>2. <<a, b>> \in R /\ a \in D /\ b \in D
    BY <2>1, <1>3, <1>8
  <2>3. a # b
    BY <2>2, <1>2 DEF IsRow
  <2>4. IsMessage(s[a]) /\ IsMessage(s[b])
    BY <1>8
  <2>5. Before(s[a], s[b]) \/ (~Before(s[b], s[a]) /\ a < b)
    BY <2>2, ByItemIs
  <2> HIDE DEF a, b
  <2>6. ASSUME b < a PROVE FALSE
    <3>1. ~Earlier(s[a], s[b])
        BY <2>2, <2>4, <2>6 DEF InOrder
    <3>2. ~Before(s[a], s[b])
        BY <3>1, <2>4 DEF Before
    <3>3. a \in Int /\ b \in Int
        BY <2>2, <1>1
    <3> QED BY <3>2, <3>3, <2>5, <2>6
  <2>7. a \in Int /\ b \in Int
    BY <2>2, <1>1
  <2>8. a < b
    BY <2>3, <2>6, <2>7
  <2> QED BY <2>8, <1>9 DEF a, b
<1>12. ASSUME NEW i \in I PROVE \E k \in 1..m : f[k] = i
  <2>1. i \in D /\ IsMessage(s[i])
    BY DEF MessagesIn
  <2>2. PICK l \in 1..n : g[l] = i
    BY <2>1, <1>3
  <2>3. l \in DOMAIN t /\ t[l] = s[i]
    BY <2>2, <1>4
  <2>4. l \in J
    BY <2>1, <2>3 DEF MessagesIn
  <2>5. PICK k \in 1..m : h[k] = l
    BY <2>4, <1>7
  <2> QED BY <2>2, <2>5, <1>9
<1> HIDE DEF f
<1>13. I \in SUBSET Int
    BY <1>1 DEF MessagesIn
<1>14. Lists(f, m, I, Less(I))
  <2> HIDE DEF I
  <2> QED BY <1>10, <1>11, <1>12, ListsLess
<1>15. At(s, I) = [k \in 1..m |-> At(s, I)[k]] /\ \A k \in 1..m : At(s, I)[k] = s[f[k]]
  <2> HIDE DEF I
  <2> QED BY <1>7, <1>13, <1>14, AtIsWhat
<1>16. At(t, J) = [k \in 1..m |-> At(t, J)[k]]
  <2> HIDE DEF J
  <2> QED BY <1>7
<1>17. \A k \in 1..m : At(t, J)[k] = At(s, I)[k]
    BY <1>7, <1>8, <1>9, <1>15
<1>18. At(t, J) = At(s, I)
  <2> HIDE DEF I, J
  <2> QED BY <1>15, <1>16, <1>17
<1> QED BY <1>18 DEF Letters, t

LEMMA OutIsSorted ==
    ASSUME NEW ms \in Seq(Message), InOrder(ms), NEW a
    PROVE  Sorted(ms, Addressed(ms, a)) = For(ms, a)
<1> DEFINE I == Addressed(ms, a)
<1>1. I \subseteq DOMAIN ms /\ DOMAIN ms \subseteq Int
    BY DEF Addressed
<1>2. \A i \in I : ms[i] \in Message /\ ms[i] \in Item /\ IsMessage(ms[i])
    BY <1>1, MessagesAreItems
<1> HIDE DEF I
<1>3. ASSUME NEW i \in I, NEW j \in I PROVE <<i, j>> \in ByItem(ms, I) <=> <<i, j>> \in Less(I)
  <2>1. i \in Int /\ j \in Int /\ i \in DOMAIN ms /\ j \in DOMAIN ms
    BY <1>1
  <2>2. Before(ms[i], ms[j]) => ~Before(ms[j], ms[i])
    BY <1>2, BeforeIsAnOrder
  <2>3. j < i => ~Before(ms[i], ms[j])
    BY <1>2, <2>1 DEF InOrder, Before
  <2>4. i < j => ~Before(ms[j], ms[i])
    BY <1>2, <2>1 DEF InOrder, Before
  <2>5. i = j => ~Before(ms[i], ms[j])
    BY <2>2
  <2>6. Before(ms[i], ms[j]) => i < j
    BY <2>1, <2>3, <2>5
  <2>7. <<i, j>> \in ByItem(ms, I) <=>
            (Before(ms[i], ms[j]) \/ (~Before(ms[j], ms[i]) /\ i < j))
    BY ByItemIs
  <2>8. <<i, j>> \in Less(I) <=> i < j
    BY LessIs
  <2> QED BY <2>4, <2>6, <2>7, <2>8
<1>4. ByItem(ms, I) \subseteq I \X I /\ Less(I) \subseteq I \X I
    BY DEF ByItem, Less
<1>5. ByItem(ms, I) = Less(I)
  <2>1. \A p \in I \X I : \E i, j \in I : p = <<i, j>>
    OBVIOUS
  <2>2. \A p \in I \X I : p \in ByItem(ms, I) <=> p \in Less(I)
    BY <1>3, <2>1
  <2> QED BY <1>4, <2>2
<1>6. Sorted(ms, I) = [k \in 1..Cardinality(I) |-> ms[Ranked(I, ByItem(ms, I))[k]]]
    BY DEF Sorted, ByItem
<1>7. At(ms, I) = [k \in 1..Cardinality(I) |-> ms[Ranked(I, Less(I))[k]]]
    BY DEF At
<1>8. Sorted(ms, I) = At(ms, I)
    BY <1>5, <1>6, <1>7
<1> QED BY <1>8 DEF For, I
-----------------------------------------------------------------------------
LEMMA OrderIs ==
    /\ Len(Order) \in Nat /\ DOMAIN Order = 1..Len(Order)
    /\ \A k \in DOMAIN Order : Order[k] \in Ids /\ Order[k] \in Int
    /\ \A j, k \in DOMAIN Order : j < k => Order[j] < Order[k]
    /\ \A a \in Ids : \E k \in DOMAIN Order : Order[k] = a
<1> DEFINE n == Cardinality(Ids)
           f == Order
           R == Less(Ids)
<1>1. Ids \in SUBSET Int /\ IsFiniteSet(Ids)
    BY EngineAssumption DEF EngineAssumption
<1>2. IsRow(R, Ids)
    BY <1>1, LessIsARow
<1>3. f = Ranked(Ids, R)
    BY DEF Order
<1> HIDE DEF n, f, R
<1>4. /\ n \in Nat /\ f \in [1..n -> Ids]
      /\ \A j, k \in 1..n : j < k => <<f[j], f[k]>> \in R
      /\ \A a \in Ids : \E k \in 1..n : f[k] = a
    BY <1>1, <1>2, <1>3, RankedIs DEF n
<1>5. Len(f) = n /\ DOMAIN f = 1..n
  <2>1. f \in Seq(Ids) /\ Len(f) = n
    BY <1>4, LenProperties, IsASeq
  <2> QED BY <2>1, <1>4
<1>6. \A k \in 1..n : f[k] \in Ids /\ f[k] \in Int
    BY <1>1, <1>4
<1>7. \A j, k \in 1..n : j < k => f[j] < f[k]
    BY <1>4, <1>6, LessIs DEF R
<1> QED BY <1>4, <1>5, <1>6, <1>7 DEF f

LEMMA Enumeration ==
    ASSUME NEW S, IsFiniteSet(S)
    PROVE  /\ SetToSeq(S) \in Seq(S)
           /\ \A i \in DOMAIN SetToSeq(S) : SetToSeq(S)[i] \in S
<1>1. Cardinality(S) \in Nat /\ ExistsBijection(1..Cardinality(S), S)
    BY FS_CardinalityType
<1>2. \E f \in [1..Cardinality(S) -> S] : IsInjective(f)
  <2>1. PICK f \in [1..Cardinality(S) -> S] :
            \A i, j \in 1..Cardinality(S) : f[i] = f[j] => i = j
    BY <1>1 DEF ExistsBijection, Bijection, Injection, IsInjective
  <2> QED BY <2>1 DEF IsInjective
<1>3. SetToSeq(S) \in [1..Cardinality(S) -> S]
    BY <1>2 DEF SetToSeq
<1>4. SetToSeq(S) \in Seq(S)
    BY <1>1, <1>3, IsASeq
<1> QED BY <1>3, <1>4

(* What a handler of agent a leaves behind: messages and queries of its    *)
(* own, dated now.                                                         *)
Emitted(a, waiting, new, qs) ==
    /\ new \in Seq(Message)
    /\ \A i \in DOMAIN new : new[i].from = a /\ new[i].sent = tick
    /\ qs \subseteq Query /\ IsFiniteSet(qs)
    /\ \A q \in qs : q.agent = a /\ q.issued = tick
    /\ out' = out \o new
    /\ asked' = asked \cup qs /\ issued' = issued \cup qs
    /\ pending' = [pending EXCEPT ![a] = waiting \cup qs]

LEMMA EmitsIs ==
    ASSUME tick \in 1..MaxTick, NEW a \in Ids, NEW n \in Nat, NEW waiting,
           Emits(a, n, waiting)
    PROVE  \E new, qs : Emitted(a, waiting, new, qs)
<1>1. PICK ms \in SeqOf([to : (Ids \ {a}) \cup Strangers, body : Bodies], n) :
        out' = out \o [i \in DOMAIN ms |->
                    [kind |-> "message", from |-> a, to |-> ms[i].to,
                     sent |-> tick, body |-> ms[i].body]]
    BY DEF Emits
<1>2. PICK ids \in {{}} \cup {{i} : i \in QueryIds \ {q.id : q \in issued}} :
        LET queries == {[id |-> i, agent |-> a, issued |-> tick] : i \in ids}
        IN  /\ asked' = asked \cup queries
            /\ issued' = issued \cup queries
            /\ pending' = [pending EXCEPT ![a] = waiting \cup queries]
    BY DEF Emits
<1> DEFINE new == [i \in DOMAIN ms |->
                    [kind |-> "message", from |-> a, to |-> ms[i].to,
                     sent |-> tick, body |-> ms[i].body]]
           qs == {[id |-> i, agent |-> a, issued |-> tick] : i \in ids}
<1>3. PICK m \in 0..n : ms \in [1..m -> [to : (Ids \ {a}) \cup Strangers, body : Bodies]]
    BY DEF SeqOf
<1>4. new \in Seq(Message) /\ \A i \in DOMAIN new : new[i].from = a /\ new[i].sent = tick
  <2>1. \A i \in 1..m : ms[i].to \in Ids \cup Strangers /\ ms[i].body \in Bodies
    BY <1>3
  <2>2. \A i \in 1..m : new[i] \in Message /\ new[i].from = a /\ new[i].sent = tick
    BY <1>3, <2>1 DEF Message
  <2>3. new = [i \in 1..m |-> new[i]]
    BY <1>3
  <2> HIDE DEF new
  <2>4. m \in Nat /\ new \in [1..m -> Message]
    BY <2>2, <2>3
  <2>5. new \in Seq(Message)
    BY <2>4, IsASeq
  <2> QED BY <2>2, <2>4, <2>5
<1>5. qs \subseteq Query /\ IsFiniteSet(qs) /\ \A q \in qs : q.agent = a /\ q.issued = tick
  <2>1. ids \subseteq QueryIds
    BY <1>2
  <2>2. qs \subseteq Query /\ \A q \in qs : q.agent = a /\ q.issued = tick
    BY <2>1 DEF Query
  <2>3. CASE ids = {}
    BY <2>2, <2>3, FS_EmptySet
  <2>4. CASE \E i \in QueryIds : ids = {i}
    <3>1. PICK i \in QueryIds : ids = {i}
        BY <2>4
    <3>2. qs = {[id |-> i, agent |-> a, issued |-> tick]}
        BY <3>1
    <3>3. IsFiniteSet(qs)
        BY <3>2, FS_Singleton, ZenonT(30)
    <3> QED BY <2>2, <3>3
  <2> QED BY <1>2, <2>3, <2>4
<1>6. /\ out' = out \o new
      /\ asked' = asked \cup qs /\ issued' = issued \cup qs
      /\ pending' = [pending EXCEPT ![a] = waiting \cup qs]
    BY <1>1, <1>2
<1> HIDE DEF new, qs
<1>7. Emitted(a, waiting, new, qs)
    BY <1>4, <1>5, <1>6 DEF Emitted
<1> QED BY <1>7
-----------------------------------------------------------------------------
(* What an inbox of agent a may hold, and an inbox put in order.           *)
IsInbox(a, s) ==
    /\ s \in Seq(Item)
    /\ \A i \in DOMAIN s : a = IF IsMessage(s[i]) THEN s[i].to ELSE s[i].query.agent
Rising(s) == \A i, j \in DOMAIN s : i < j => ~Before(s[j], s[i])

LEMMA TailIs ==
    ASSUME NEW a, NEW s, IsInbox(a, s), s # <<>>
    PROVE  /\ Head(s) \in Item /\ IsInbox(a, Tail(s))
           /\ <<Head(s)>> \in Seq(Item) /\ s = <<Head(s)>> \o Tail(s)
           /\ a = IF IsMessage(Head(s)) THEN Head(s).to ELSE Head(s).query.agent
           /\ InOrder(s) => InOrder(Tail(s))
           /\ Rising(s) => Rising(Tail(s))
<1> DEFINE t == Tail(s)
<1>1. s \in Seq(Item)
    BY DEF IsInbox
<1>2. /\ Head(s) \in Item /\ Head(s) = s[1] /\ 1 \in DOMAIN s
      /\ t \in Seq(Item)
      /\ \A i \in DOMAIN t : i + 1 \in DOMAIN s /\ t[i] = s[i + 1] /\ i \in Int
    BY <1>1
<1>3. <<Head(s)>> \in Seq(Item) /\ s = <<Head(s)>> \o t
    BY <1>1, <1>2
<1> HIDE DEF t
<1>4. \A i, j \in DOMAIN t : i < j => i + 1 < j + 1
    BY <1>2
<1>5. InOrder(s) => InOrder(t)
    BY <1>2, <1>4 DEF InOrder
<1>6. Rising(s) => Rising(t)
    BY <1>2, <1>4 DEF Rising
<1>7. IsInbox(a, t)
    BY <1>2 DEF IsInbox
<1>8. a = IF IsMessage(Head(s)) THEN Head(s).to ELSE Head(s).query.agent
    BY <1>2 DEF IsInbox
<1> QED BY <1>2, <1>3, <1>5, <1>6, <1>7, <1>8 DEF t

LEMMA ArrangedIs ==
    ASSUME NEW a, NEW s, IsInbox(a, s)
    PROVE  IsInbox(a, Arranged(s)) /\ Rising(Arranged(s))
<1> DEFINE t == Arranged(s)
           D == DOMAIN s
<1>1. s \in Seq(Item)
    BY DEF IsInbox
<1>2. D \in SUBSET Int /\ IsFiniteSet(D) /\ \A i \in D : s[i] \in Item
  <2>1. Len(s) \in Nat /\ D = 1..Len(s)
    BY <1>1
  <2> QED BY <1>1, <2>1, FS_Interval
<1> HIDE DEF D
<1>3. /\ t \in Seq(Item)
      /\ \A k \in DOMAIN t : \E i \in D : t[k] = s[i]
      /\ \A j, k \in DOMAIN t : j < k => ~Before(t[k], t[j])
    BY <1>2, SortedIs DEF Arranged, D
<1> HIDE DEF t
<1>4. \A k \in DOMAIN t : a = IF IsMessage(t[k]) THEN t[k].to ELSE t[k].query.agent
  <2> TAKE k \in DOMAIN t
  <2>1. PICK i \in D : t[k] = s[i]
    BY <1>3
  <2> QED BY <2>1 DEF IsInbox, D
<1>5. IsInbox(a, t) /\ Rising(t)
    BY <1>3, <1>4 DEF IsInbox, Rising
<1> QED BY <1>5 DEF t

LEMMA InboxConcat ==
    ASSUME NEW a, NEW s, IsInbox(a, s), NEW t, IsInbox(a, t)
    PROVE  IsInbox(a, s \o t)
<1> DEFINE u == s \o t
<1>1. s \in Seq(Item) /\ t \in Seq(Item)
    BY DEF IsInbox
<1>2. /\ u \in Seq(Item)
      /\ \A i \in DOMAIN s : u[i] = s[i]
      /\ \A j \in DOMAIN t : u[Len(s) + j] = t[j]
      /\ \A i \in DOMAIN u : i \in DOMAIN s \/ \E j \in DOMAIN t : i = Len(s) + j
    BY <1>1, PositionsConcat
<1> HIDE DEF u
<1>3. \A i \in DOMAIN u :
        (\E j \in DOMAIN s : u[i] = s[j]) \/ (\E j \in DOMAIN t : u[i] = t[j])
    BY <1>2
<1>4. \A i \in DOMAIN u : a = IF IsMessage(u[i]) THEN u[i].to ELSE u[i].query.agent
    BY <1>3 DEF IsInbox
<1>5. IsInbox(a, u)
    BY <1>2, <1>4 DEF IsInbox
<1> QED BY <1>5 DEF u

(* Results behind messages leave their order alone.                        *)
LEMMA ResultsBehind ==
    ASSUME NEW s \in Seq(Item), InOrder(s), NEW t \in Seq(Item),
           \A i \in DOMAIN t : ~IsMessage(t[i])
    PROVE  InOrder(s \o t)
<1> DEFINE u == s \o t
<1>1. /\ \A i \in DOMAIN s : u[i] = s[i]
      /\ \A j \in DOMAIN t : u[Len(s) + j] = t[j]
      /\ \A i \in DOMAIN u : i \in DOMAIN s \/ \E j \in DOMAIN t : i = Len(s) + j
    BY PositionsConcat
<1> HIDE DEF u
<1>2. \A i \in DOMAIN u : IsMessage(u[i]) => i \in DOMAIN s /\ u[i] = s[i]
    BY <1>1
<1>3. InOrder(u)
    BY <1>2 DEF InOrder
<1> QED BY <1>3 DEF u
-----------------------------------------------------------------------------
(* The inductive invariant.  Inside a tick the clock runs and only what    *)
(* was made so far can be answered.                                        *)
Base == TypeOK /\ IsFiniteSet(issued) /\ (turn > 0 => tick > 0)

(* Who has had its turn has read everything.                               *)
HasRead == \A k \in DOMAIN Order : k < turn => inbox[Order[k]] = <<>>

(* What is on its way was sent in this tick, by those up to the turn.      *)
Outbox ==
    /\ turn = 0 => out = <<>>
    /\ \A i \in DOMAIN out :
        out[i].sent = tick /\ (turn \in DOMAIN Order => out[i].from <= Order[turn])
    /\ InOrder(out)

(* Inside a tick the inboxes are in order; until an exception the messages *)
(* are in order also between two ticks.                                    *)
InboxesRise == turn > 0 => \A a \in Ids : Rising(inbox[a])
MessagesRise == aborted = 0 => \A a \in Ids : InOrder(inbox[a])

(* The turn of a is still to come, or is now.                              *)
ToCome(a) == turn > 0 /\ \E k \in DOMAIN Order : turn <= k /\ Order[k] = a
Waits ==
    \A a \in Ids : \A q \in pending[a] :
        tick - q.issued <= QueryTTL + aborted + (IF ToCome(a) THEN 1 ELSE 0)

EngineInv == Base /\ HasRead /\ Outbox /\ InboxesRise /\ MessagesRise /\ Waits

LEMMA ConstantTypes ==
    QueryTTL \in Nat /\ MaxTick \in Nat /\ MaxFaults \in Nat /\ Ids \subseteq Int
BY EngineAssumption DEF EngineAssumption

LEMMA InboxesTyped ==
    ASSUME NEW b \in [Ids -> Seq(Item)]
    PROVE  (\A a \in Ids : IsInbox(a, b[a])) <=>
           (\A a \in Ids : \A x \in Range(b[a]) :
                a = IF IsMessage(x) THEN x.to ELSE x.query.agent)
<1>1. \A a \in Ids : b[a] \in Seq(Item)
    OBVIOUS
<1>2. \A a \in Ids : \A x : x \in Range(b[a]) <=> \E i \in DOMAIN b[a] : x = b[a][i]
    BY DEF Range
<1> QED BY <1>1, <1>2 DEF IsInbox

LEMMA TypesAre ==
    ASSUME Base
    PROVE  /\ tick \in 0..MaxTick /\ tick \in Int /\ turn \in 0..(Len(Order) + 1) /\ turn \in Int
           /\ inbox \in [Ids -> Seq(Item)] /\ \A a \in Ids : IsInbox(a, inbox[a])
           /\ out \in Seq(Message)
           /\ asked \subseteq issued /\ issued \subseteq Query /\ IsFiniteSet(issued)
           /\ pending \in [Ids -> SUBSET issued]
           /\ aborted \in 0..MaxFaults /\ aborted \in Nat
           /\ turn > 0 => tick \in 1..MaxTick
<1>1. /\ tick \in 0..MaxTick /\ turn \in 0..(Len(Order) + 1)
      /\ inbox \in [Ids -> Seq(Item)] /\ out \in Seq(Message)
      /\ asked \subseteq issued /\ issued \subseteq Query
      /\ pending \in [Ids -> SUBSET issued] /\ aborted \in 0..MaxFaults
      /\ IsFiniteSet(issued) /\ (turn > 0 => tick > 0)
    BY DEF Base, TypeOK
<1>2. \A a \in Ids : IsInbox(a, inbox[a])
    BY <1>1, InboxesTyped DEF Base, TypeOK
<1>3. tick \in Int /\ turn \in Int /\ aborted \in Nat /\ (turn > 0 => tick \in 1..MaxTick)
    BY <1>1, ConstantTypes, OrderIs
<1> QED BY <1>1, <1>2, <1>3

LEMMA EmittedTypes ==
    ASSUME Base, NEW a \in Ids, NEW waiting \in SUBSET issued, NEW new, NEW qs,
           Emitted(a, waiting, new, qs)
    PROVE  /\ out' \in Seq(Message) /\ asked' \subseteq issued' /\ issued' \subseteq Query
           /\ IsFiniteSet(issued') /\ pending' \in [Ids -> SUBSET issued']
<1>1. /\ out \in Seq(Message)
      /\ asked \subseteq issued /\ issued \subseteq Query /\ IsFiniteSet(issued)
      /\ pending \in [Ids -> SUBSET issued]
    BY TypesAre
<1>2. /\ new \in Seq(Message) /\ qs \subseteq Query /\ IsFiniteSet(qs)
      /\ out' = out \o new
      /\ asked' = asked \cup qs /\ issued' = issued \cup qs
      /\ pending' = [pending EXCEPT ![a] = waiting \cup qs]
    BY DEF Emitted
<1>3. out' \in Seq(Message)
    BY <1>1, <1>2, ConcatProperties
<1>4. IsFiniteSet(issued')
    BY <1>1, <1>2, FS_Union
<1>5. pending' \in [Ids -> SUBSET issued']
  <2>1. \A b \in Ids : pending[b] \in SUBSET (issued \cup qs)
    BY <1>1
  <2>2. waiting \cup qs \in SUBSET (issued \cup qs)
    OBVIOUS
  <2>3. pending \in [Ids -> SUBSET (issued \cup qs)]
    BY <1>1, <2>1
  <2>4. [pending EXCEPT ![a] = waiting \cup qs] \in [Ids -> SUBSET (issued \cup qs)]
    BY <2>2, <2>3
  <2> QED BY <1>2, <2>4
<1> QED BY <1>1, <1>2, <1>3, <1>4, <1>5

(* What the handlers have in common.                                       *)
Reads(a) ==
    /\ Now(a) /\ inbox[a] # <<>>
    /\ inbox' = [inbox EXCEPT ![a] = Tail(@)]
    /\ tick' = tick /\ turn' = turn /\ aborted' = aborted
    /\ \E waiting, new, qs : waiting \subseteq pending[a] /\ Emitted(a, waiting, new, qs)

LEMMA NowIs ==
    ASSUME Base, NEW a \in Ids, Now(a)
    PROVE  turn \in DOMAIN Order /\ Order[turn] = a /\ turn > 0 /\ tick \in 1..MaxTick
<1>1. turn \in DOMAIN Order /\ Order[turn] = a
    BY DEF Now
<1>2. turn > 0
    BY <1>1, OrderIs
<1> QED BY <1>1, <1>2, TypesAre

LEMMA NothingEmitted ==
    ASSUME Base, NEW a \in Ids, UNCHANGED <<out, asked, pending, issued>>
    PROVE  Emitted(a, pending[a], <<>>, {})
<1>1. out \in Seq(Message) /\ pending \in [Ids -> SUBSET issued]
    BY TypesAre
<1>2. <<>> \in Seq(Message) /\ DOMAIN <<>> = {}
    OBVIOUS
<1>3. out = out \o <<>>
    BY <1>1
<1>4. pending = [pending EXCEPT ![a] = pending[a] \cup {}]
    BY <1>1
<1>5. IsFiniteSet({})
    BY FS_EmptySet
<1>6. \A i \in DOMAIN <<>> : <<>>[i].from = a /\ <<>>[i].sent = tick
    BY <1>2
<1> QED BY <1>2, <1>3, <1>4, <1>5, <1>6 DEF Emitted

LEMMA HandlersRead ==
    ASSUME Base, NEW a \in Ids, HandleResult(a) \/ HandleMessage(a)
    PROVE  Reads(a)
<1>1. Now(a) /\ inbox[a] # <<>>
    BY DEF HandleResult, HandleMessage
<1>2. tick \in 1..MaxTick
    BY <1>1, NowIs
<1>3. CASE HandleMessage(a)
  <2>1. Emits(a, 1, pending[a])
    BY <1>3 DEF HandleMessage
  <2>2. \E new, qs : Emitted(a, pending[a], new, qs)
    BY <1>2, <2>1, EmitsIs
  <2> QED BY <1>1, <1>3, <2>2 DEF HandleMessage, Reads
<1>4. CASE HandleResult(a)
  <2> DEFINE q == Head(inbox[a]).query
  <2>1. \E waiting, new, qs : waiting \subseteq pending[a] /\ Emitted(a, waiting, new, qs)
    <3>1. CASE q \in pending[a]
      <4>1. Emits(a, 1, pending[a] \ {q})
        BY <1>4, <3>1 DEF HandleResult
      <4>2. \E new, qs : Emitted(a, pending[a] \ {q}, new, qs)
        BY <1>2, <4>1, EmitsIs
      <4> QED BY <4>2
    <3>2. CASE q \notin pending[a]
      <4>1. UNCHANGED <<out, asked, pending, issued>>
        BY <1>4, <3>2 DEF HandleResult
      <4> QED BY <4>1, NothingEmitted
    <3> QED BY <3>1, <3>2
  <2> QED BY <1>1, <1>4, <2>1 DEF HandleResult, Reads
<1> QED BY <1>3, <1>4
-----------------------------------------------------------------------------
LEMMA TypesPrimed ==
    ASSUME tick' \in 0..MaxTick, turn' \in 0..(Len(Order) + 1),
           inbox' \in [Ids -> Seq(Item)], \A a \in Ids : IsInbox(a, inbox'[a]),
           out' \in Seq(Message), asked' \subseteq issued', issued' \subseteq Query,
           IsFiniteSet(issued'), pending' \in [Ids -> SUBSET issued'],
           aborted' \in 0..MaxFaults, turn' > 0 => tick' > 0
    PROVE  Base'
<1>1. \A a \in Ids : \A x \in Range(inbox'[a]) :
        a = IF IsMessage(x) THEN x.to ELSE x.query.agent
    BY InboxesTyped
<1>2. TypeOK'
    BY <1>1 DEF TypeOK
<1> QED BY <1>2 DEF Base

(* The outgoing messages stay in order: who sends has the turn.            *)
LEMMA EmittedInOrder ==
    ASSUME Base, Outbox, NEW a \in Ids, Now(a), NEW waiting, NEW new, NEW qs,
           Emitted(a, waiting, new, qs)
    PROVE  /\ \A i \in DOMAIN out' : out'[i].sent = tick /\ out'[i].from <= a
           /\ InOrder(out')
<1>1. Order[turn] = a /\ turn \in DOMAIN Order /\ a \in Int
    BY NowIs, OrderIs
<1>2. out \in Seq(Message) /\ new \in Seq(Message) /\ out' = out \o new
    BY TypesAre DEF Emitted
<1>3. /\ \A i \in DOMAIN out : i \in DOMAIN out' /\ out'[i] = out[i]
      /\ \A j \in DOMAIN new : out'[Len(out) + j] = new[j]
      /\ \A i \in DOMAIN out' : i \in DOMAIN out \/ \E j \in DOMAIN new : i = Len(out) + j
    BY <1>2, PositionsConcat
<1>4. \A i \in DOMAIN out : out[i].sent = tick /\ out[i].from <= a
    BY <1>1 DEF Outbox
<1>5. \A i \in DOMAIN new : new[i].sent = tick /\ new[i].from = a
    BY DEF Emitted
<1>6. \A i \in DOMAIN out' :
        out'[i].sent = tick /\ out'[i].from <= a /\ (i \in DOMAIN out \/ out'[i].from = a)
    BY <1>1, <1>3, <1>4, <1>5
<1>7. out' \in Seq(Message)
    BY <1>2, ConcatProperties
<1>8. \A i \in DOMAIN out' : out'[i].from \in Int /\ out'[i].sent \in Int
  <2>1. \A i \in DOMAIN out' : out'[i] \in Message
    BY <1>7
  <2>2. \A i \in DOMAIN out' : out'[i] \in Item /\ IsMessage(out'[i])
    BY <2>1, MessagesAreItems
  <2> QED BY <2>2, ItemsAre
<1>9. DOMAIN out \subseteq 1..Len(out) /\ Len(out) \in Nat /\ DOMAIN out' \subseteq Int
    BY <1>2, <1>7
<1>10. ASSUME NEW i \in DOMAIN out', NEW j \in DOMAIN out', i < j
       PROVE  ~Earlier(out'[j], out'[i]) \/ ~IsMessage(out'[i]) \/ ~IsMessage(out'[j])
  <2>1. CASE out'[j].from = a
    <3>1. out'[i].from <= a /\ out'[i].sent = tick /\ out'[j].sent = tick
        BY <1>6
    <3> QED BY <2>1, <3>1, <1>8, <1>1 DEF Earlier
  <2>2. CASE j \in DOMAIN out
    <3>1. i \in DOMAIN out \/ \E k \in DOMAIN new : i = Len(out) + k
        BY <1>3
    <3>2. \A k \in DOMAIN new : k \in Nat
        BY <1>2
    <3>3. i \in DOMAIN out
        BY <3>1, <3>2, <1>9, <1>10, <2>2
    <3>4. out'[i] = out[i] /\ out'[j] = out[j]
        BY <3>3, <2>2, <1>3
    <3> QED BY <3>3, <3>4, <2>2, <1>10 DEF Outbox, InOrder
  <2> QED BY <1>6, <2>1, <2>2
<1>11. InOrder(out')
    BY <1>10 DEF InOrder
<1> QED BY <1>6, <1>11

(* Who waits: what was waited for already, or a query of this tick.        *)
LEMMA EmittedWaits ==
    ASSUME Base, NEW a \in Ids, NEW waiting \in SUBSET pending[a], NEW new, NEW qs,
           Emitted(a, waiting, new, qs)
    PROVE  /\ \A b \in Ids \ {a} : pending'[b] = pending[b]
           /\ \A q \in pending'[a] : q \in waiting \/ q.issued = tick
<1>1. pending \in [Ids -> SUBSET issued]
    BY TypesAre
<1>2. pending' = [pending EXCEPT ![a] = waiting \cup qs] /\ \A q \in qs : q.issued = tick
    BY DEF Emitted
<1>3. pending'[a] = waiting \cup qs /\ \A b \in Ids \ {a} : pending'[b] = pending[b]
    BY <1>1, <1>2
<1> QED BY <1>2, <1>3

LEMMA QueriesAreDated ==
    ASSUME Base, NEW a \in Ids, NEW q \in pending[a]
    PROVE  q.issued \in Int
<1>1. pending[a] \subseteq Query
    BY TypesAre
<1> QED BY <1>1, ConstantTypes DEF Query

LEMMA ReadsKeep ==
    ASSUME EngineInv, NEW a \in Ids, Reads(a)
    PROVE  EngineInv'
<1>1. PICK waiting, new, qs : waiting \subseteq pending[a] /\ Emitted(a, waiting, new, qs)
    BY DEF Reads
<1>2. /\ Now(a) /\ inbox[a] # <<>>
      /\ inbox' = [inbox EXCEPT ![a] = Tail(@)]
      /\ tick' = tick /\ turn' = turn /\ aborted' = aborted
    BY DEF Reads
<1>3. Base /\ HasRead /\ Outbox /\ InboxesRise /\ MessagesRise /\ Waits
    BY DEF EngineInv
<1>4. /\ tick \in 0..MaxTick /\ turn \in 0..(Len(Order) + 1) /\ aborted \in 0..MaxFaults
      /\ aborted \in Nat /\ tick \in Int
      /\ inbox \in [Ids -> Seq(Item)] /\ \A b \in Ids : IsInbox(b, inbox[b])
      /\ pending \in [Ids -> SUBSET issued]
    BY <1>3, TypesAre
<1>5. turn \in DOMAIN Order /\ Order[turn] = a /\ turn > 0 /\ tick > 0
    BY <1>2, <1>3, <1>4, NowIs
<1>6. /\ inbox'[a] = Tail(inbox[a]) /\ \A b \in Ids \ {a} : inbox'[b] = inbox[b]
      /\ IsInbox(a, Tail(inbox[a]))
      /\ InOrder(inbox[a]) => InOrder(Tail(inbox[a]))
      /\ Rising(inbox[a]) => Rising(Tail(inbox[a]))
    BY <1>2, <1>4, TailIs
<1>7. \A b \in Ids :
        /\ IsInbox(b, inbox'[b])
        /\ InOrder(inbox[b]) => InOrder(inbox'[b])
        /\ Rising(inbox[b]) => Rising(inbox'[b])
    BY <1>4, <1>6
<1>8. inbox' \in [Ids -> Seq(Item)]
  <2>1. Tail(inbox[a]) \in Seq(Item)
    BY <1>6 DEF IsInbox
  <2> QED BY <1>2, <1>4, <2>1
<1>9. Base'
  <2>1. waiting \in SUBSET issued
    BY <1>1, <1>4
  <2>2. /\ out' \in Seq(Message) /\ asked' \subseteq issued' /\ issued' \subseteq Query
        /\ IsFiniteSet(issued') /\ pending' \in [Ids -> SUBSET issued']
    BY <1>1, <1>3, <2>1, EmittedTypes
  <2> QED BY <1>2, <1>4, <1>5, <1>7, <1>8, <2>2, TypesPrimed
<1>10. HasRead'
  <2>1. ASSUME NEW k \in DOMAIN Order, k < turn PROVE inbox'[Order[k]] = <<>>
    <3>1. Order[k] # Order[turn] /\ Order[k] \in Ids
        BY <2>1, <1>5, OrderIs
    <3>2. inbox'[Order[k]] = inbox[Order[k]]
        BY <3>1, <1>5, <1>6
    <3> QED BY <2>1, <3>2, <1>3 DEF HasRead
  <2> QED BY <1>2, <2>1 DEF HasRead
<1>11. Outbox'
  <2>1. /\ \A i \in DOMAIN out' : out'[i].sent = tick /\ out'[i].from <= a
        /\ InOrder(out')
    BY <1>1, <1>2, <1>3, EmittedInOrder
  <2> QED BY <2>1, <1>2, <1>5 DEF Outbox
<1>12. InboxesRise' /\ MessagesRise'
    BY <1>2, <1>3, <1>7 DEF InboxesRise, MessagesRise
<1>13. Waits'
  <2>1. /\ \A b \in Ids \ {a} : pending'[b] = pending[b]
        /\ \A q \in pending'[a] : q \in pending[a] \/ q.issued = tick
    BY <1>1, <1>3, EmittedWaits
  <2>2. \A b \in Ids : \A q \in pending'[b] : q \in pending[b] \/ q.issued = tick
    BY <2>1
  <2>3. tick - tick <= QueryTTL + aborted + 0 /\ tick - tick <= QueryTTL + aborted + 1
    BY <1>4, ConstantTypes
  <2>4. \A b \in Ids : \A q \in pending'[b] :
            tick - q.issued <= QueryTTL + aborted + (IF ToCome(b) THEN 1 ELSE 0)
    BY <2>2, <2>3, <1>3 DEF Waits
  <2>5. \A b \in Ids : ToCome(b)' <=> ToCome(b)
    BY <1>2 DEF ToCome
  <2> QED BY <2>4, <2>5, <1>2 DEF Waits
<1> QED BY <1>9, <1>10, <1>11, <1>12, <1>13 DEF EngineInv

LEMMA FinishKeeps ==
    ASSUME EngineInv, NEW a \in Ids, Finish(a)
    PROVE  EngineInv'
<1> DEFINE waiting == {q \in pending[a] : ~Stale(q)}
<1>1. Base /\ HasRead /\ Outbox /\ InboxesRise /\ MessagesRise /\ Waits
    BY DEF EngineInv
<1>2. /\ Now(a) /\ inbox[a] = <<>> /\ Emits(a, 2, waiting)
      /\ turn' = turn + 1 /\ tick' = tick /\ inbox' = inbox /\ aborted' = aborted
    BY DEF Finish, Drained
<1>3. /\ tick \in 0..MaxTick /\ turn \in 0..(Len(Order) + 1) /\ aborted \in 0..MaxFaults
      /\ aborted \in Nat /\ tick \in Int /\ turn \in Int
      /\ inbox \in [Ids -> Seq(Item)] /\ \A b \in Ids : IsInbox(b, inbox[b])
      /\ pending \in [Ids -> SUBSET issued]
    BY <1>1, TypesAre
<1>4. turn \in DOMAIN Order /\ Order[turn] = a /\ turn > 0 /\ tick > 0 /\ tick \in 1..MaxTick
    BY <1>1, <1>2, NowIs
<1> HIDE DEF waiting
<1>5. PICK new, qs : Emitted(a, waiting, new, qs)
    BY <1>2, <1>4, EmitsIs
<1>6. waiting \in SUBSET pending[a]
    BY DEF waiting
<1>7. Len(Order) \in Nat /\ DOMAIN Order = 1..Len(Order)
    BY OrderIs
<1>8. Base'
  <2>1. waiting \in SUBSET issued
    BY <1>3, <1>6
  <2>2. /\ out' \in Seq(Message) /\ asked' \subseteq issued' /\ issued' \subseteq Query
        /\ IsFiniteSet(issued') /\ pending' \in [Ids -> SUBSET issued']
    BY <1>1, <1>5, <2>1, EmittedTypes
  <2>3. turn' \in 0..(Len(Order) + 1)
    BY <1>2, <1>4, <1>7
  <2> QED BY <1>2, <1>3, <1>4, <2>2, <2>3, TypesPrimed
<1>9. HasRead'
  <2>1. ASSUME NEW k \in DOMAIN Order, k < turn + 1 PROVE inbox[Order[k]] = <<>>
    <3>1. k < turn \/ k = turn
        BY <2>1, <1>3, <1>7
    <3> QED BY <3>1, <1>1, <1>2, <1>4 DEF HasRead
  <2> QED BY <1>2, <2>1 DEF HasRead
<1>10. Outbox'
  <2>1. /\ \A i \in DOMAIN out' : out'[i].sent = tick /\ out'[i].from <= a
        /\ InOrder(out')
    BY <1>1, <1>2, <1>5, EmittedInOrder
  <2>2. out' \in Seq(Message)
    BY <1>8, TypesAre DEF Base, TypeOK
  <2>3. \A i \in DOMAIN out' : out'[i].from \in Int
    <3>1. \A i \in DOMAIN out' : out'[i] \in Item /\ IsMessage(out'[i])
        BY <2>2, MessagesAreItems
    <3> QED BY <3>1, ItemsAre
  <2>4. turn + 1 \in DOMAIN Order => a < Order[turn + 1] /\ Order[turn + 1] \in Int /\ a \in Int
    BY <1>4, <1>7, OrderIs
  <2>5. \A i \in DOMAIN out' : turn + 1 \in DOMAIN Order => out'[i].from <= Order[turn + 1]
    BY <2>1, <2>3, <2>4
  <2>6. turn' # 0
    BY <1>2, <1>4
  <2> QED BY <2>1, <2>5, <2>6, <1>2 DEF Outbox
<1>11. InboxesRise' /\ MessagesRise'
    BY <1>1, <1>2, <1>4 DEF InboxesRise, MessagesRise
<1>12. Waits'
  <2>1. /\ \A b \in Ids \ {a} : pending'[b] = pending[b]
        /\ \A q \in pending'[a] : q \in waiting \/ q.issued = tick
    BY <1>1, <1>5, <1>6, EmittedWaits
  <2>2. \A b \in Ids \ {a} : ToCome(b)' <=> ToCome(b)
    <3> TAKE b \in Ids \ {a}
    <3>1. \A k \in DOMAIN Order : Order[k] = b => (turn + 1 <= k <=> turn <= k)
        BY <1>3, <1>4, <1>7
    <3> QED BY <3>1, <1>2, <1>4, <1>3 DEF ToCome
  <2>3. ASSUME NEW b \in Ids \ {a}, NEW q \in pending'[b]
        PROVE  tick - q.issued <= QueryTTL + aborted + (IF ToCome(b)' THEN 1 ELSE 0)
    <3>1. q \in pending[b] /\ b \in Ids
        BY <2>1, <2>3
    <3> QED BY <3>1, <2>2, <1>1 DEF Waits
  <2>4. ASSUME NEW q \in pending'[a]
        PROVE  tick - q.issued <= QueryTTL + aborted + (IF ToCome(a)' THEN 1 ELSE 0)
    <3>1. CASE q.issued = tick
        BY <3>1, <1>3, ConstantTypes
    <3>2. CASE q \in waiting
      <4>1. q \in pending[a] /\ ~(tick - q.issued > QueryTTL)
        BY <3>2 DEF waiting, Stale
      <4>2. q.issued \in Int
        BY <4>1, <1>1, QueriesAreDated
      <4> QED BY <4>1, <4>2, <1>3, ConstantTypes
    <3> QED BY <2>1, <3>1, <3>2
  <2> QED BY <2>3, <2>4, <1>2 DEF Waits
<1> QED BY <1>8, <1>9, <1>10, <1>11, <1>12 DEF EngineInv

LEMMA FaultKeeps ==
    ASSUME EngineInv, NEW a \in Ids, Fault(a)
    PROVE  EngineInv'
<1>1. Base /\ Waits
    BY DEF EngineInv
<1>2. /\ Now(a) /\ aborted < MaxFaults /\ aborted' = aborted + 1
      /\ turn' = 0 /\ out' = <<>> /\ asked' = {}
      /\ inbox' = [inbox EXCEPT ![a] = <<>>]
      /\ tick' = tick /\ pending' = pending /\ issued' = issued
    BY DEF Fault
<1>3. /\ tick \in 0..MaxTick /\ tick \in Int /\ turn \in 0..(Len(Order) + 1)
      /\ aborted \in 0..MaxFaults /\ aborted \in Nat
      /\ inbox \in [Ids -> Seq(Item)] /\ \A b \in Ids : IsInbox(b, inbox[b])
      /\ issued \subseteq Query /\ IsFiniteSet(issued)
      /\ pending \in [Ids -> SUBSET issued]
    BY <1>1, TypesAre
<1>4. Len(Order) \in Nat /\ DOMAIN Order = 1..Len(Order) /\ MaxFaults \in Nat
    BY OrderIs, ConstantTypes
<1>5. Base'
  <2>1. inbox' \in [Ids -> Seq(Item)] /\ \A b \in Ids : IsInbox(b, inbox'[b])
    <3>1. <<>> \in Seq(Item) /\ DOMAIN <<>> = {}
        OBVIOUS
    <3>2. IsInbox(a, <<>>)
        BY <3>1 DEF IsInbox
    <3> QED BY <1>2, <1>3, <3>1, <3>2
  <2>2. aborted' \in 0..MaxFaults /\ turn' \in 0..(Len(Order) + 1) /\ ~(turn' > 0)
    BY <1>2, <1>3, <1>4
  <2> QED BY <1>2, <1>3, <2>1, <2>2, TypesPrimed
<1>6. HasRead' /\ InboxesRise'
    BY <1>2, <1>4 DEF HasRead, InboxesRise
<1>7. Outbox'
  <2>1. DOMAIN out' = {}
    BY <1>2
  <2> QED BY <1>2, <2>1 DEF Outbox, InOrder
<1>8. MessagesRise'
    BY <1>2, <1>3 DEF MessagesRise
<1>9. Waits'
  <2>1. ASSUME NEW b \in Ids, NEW q \in pending[b]
        PROVE  tick - q.issued <= QueryTTL + (aborted + 1) + 0
    <3>1. tick - q.issued <= QueryTTL + aborted + (IF ToCome(b) THEN 1 ELSE 0)
        BY <1>1 DEF Waits
    <3>2. q.issued \in Int
        BY <1>1, QueriesAreDated
    <3> QED BY <3>1, <3>2, <1>3, ConstantTypes
  <2>2. \A b \in Ids : ~ToCome(b)'
    BY <1>2 DEF ToCome
  <2> QED BY <2>1, <2>2, <1>2 DEF Waits
<1> QED BY <1>5, <1>6, <1>7, <1>8, <1>9 DEF EngineInv

LEMMA StartKeeps ==
    ASSUME EngineInv, StartTick
    PROVE  EngineInv'
<1>1. Base /\ Outbox /\ Waits
    BY DEF EngineInv
<1>2. /\ turn = 0 /\ tick < MaxTick /\ tick' = tick + 1 /\ turn' = 1
      /\ inbox' = [a \in Ids |-> Arranged(inbox[a])]
      /\ out' = out /\ asked' = asked /\ pending' = pending /\ issued' = issued
      /\ aborted' = aborted
    BY DEF StartTick
<1>3. /\ tick \in 0..MaxTick /\ tick \in Int /\ MaxTick \in Nat
      /\ aborted \in 0..MaxFaults /\ aborted \in Nat
      /\ inbox \in [Ids -> Seq(Item)] /\ \A b \in Ids : IsInbox(b, inbox[b])
      /\ out \in Seq(Message) /\ asked \subseteq issued
      /\ issued \subseteq Query /\ IsFiniteSet(issued)
      /\ pending \in [Ids -> SUBSET issued]
    BY <1>1, TypesAre, ConstantTypes
<1>4. Len(Order) \in Nat /\ DOMAIN Order = 1..Len(Order)
    BY OrderIs
<1>5. \A b \in Ids : inbox'[b] = Arranged(inbox[b]) /\ IsInbox(b, inbox'[b]) /\ Rising(inbox'[b])
    BY <1>2, <1>3, ArrangedIs
<1>6. Base'
  <2>1. \A b \in Ids : inbox'[b] \in Seq(Item)
    BY <1>5 DEF IsInbox
  <2>2. inbox' = [b \in Ids |-> inbox'[b]]
    BY <1>2
  <2>3. inbox' \in [Ids -> Seq(Item)]
    BY <2>1, <2>2
  <2>4. tick' \in 0..MaxTick /\ turn' \in 0..(Len(Order) + 1) /\ tick' > 0
    BY <1>2, <1>3, <1>4
  <2> QED BY <1>2, <1>3, <1>5, <2>3, <2>4, TypesPrimed
<1>7. HasRead'
    BY <1>2, <1>4 DEF HasRead
<1>8. Outbox'
  <2>1. out' = <<>> /\ DOMAIN out' = {}
    BY <1>1, <1>2 DEF Outbox
  <2> QED BY <2>1 DEF Outbox, InOrder
<1>9. InboxesRise'
    BY <1>5 DEF InboxesRise
<1>10. MessagesRise'
  <2>1. ASSUME NEW b \in Ids PROVE InOrder(inbox'[b])
    <3> DEFINE t == inbox'[b]
    <3>1. Rising(t)
        BY <1>5
    <3> HIDE DEF t
    <3>2. InOrder(t)
        BY <3>1 DEF Rising, InOrder, Before
    <3> QED BY <3>2 DEF t
  <2> QED BY <2>1 DEF MessagesRise
<1>11. Waits'
  <2>1. ASSUME NEW b \in Ids, NEW q \in pending[b]
        PROVE  (tick + 1) - q.issued <= QueryTTL + aborted + 1
    <3>1. tick - q.issued <= QueryTTL + aborted + (IF ToCome(b) THEN 1 ELSE 0)
        BY <1>1 DEF Waits
    <3>2. ~ToCome(b)
        BY <1>2 DEF ToCome
    <3>3. q.issued \in Int
        BY <1>1, QueriesAreDated
    <3> QED BY <3>1, <3>2, <3>3, <1>3, ConstantTypes
  <2>2. \A b \in Ids : ToCome(b)'
    <3>1. \A k \in DOMAIN Order : 1 <= k
        BY <1>4
    <3>2. \A b \in Ids : \E k \in DOMAIN Order : Order[k] = b
        BY OrderIs
    <3> QED BY <1>2, <3>1, <3>2 DEF ToCome
  <2> QED BY <2>1, <2>2, <1>2 DEF Waits
<1> QED BY <1>6, <1>7, <1>8, <1>9, <1>10, <1>11 DEF EngineInv

LEMMA LateAnswerKeeps ==
    ASSUME EngineInv, LateAnswer
    PROVE  EngineInv'
<1>1. Base /\ Outbox /\ MessagesRise /\ Waits
    BY DEF EngineInv
<1>2. PICK q \in issued : inbox' = [inbox EXCEPT ![q.agent] = Append(@, Result(q))]
    BY DEF LateAnswer
<1>3. /\ turn = 0 /\ tick' = tick /\ turn' = turn /\ out' = out /\ asked' = asked
      /\ pending' = pending /\ issued' = issued /\ aborted' = aborted
    BY DEF LateAnswer
<1>4. /\ tick \in 0..MaxTick /\ turn \in 0..(Len(Order) + 1) /\ aborted \in 0..MaxFaults
      /\ inbox \in [Ids -> Seq(Item)] /\ \A b \in Ids : IsInbox(b, inbox[b])
      /\ out \in Seq(Message) /\ asked \subseteq issued
      /\ issued \subseteq Query /\ IsFiniteSet(issued)
      /\ pending \in [Ids -> SUBSET issued]
    BY <1>1, TypesAre
<1> DEFINE a == q.agent
           r == <<Result(q)>>
           s == inbox[a]
<1>5. a \in Ids /\ q \in Query
    BY <1>4 DEF Query
<1>6. Result(q) \in Item /\ ~IsMessage(Result(q)) /\ Result(q).query = q
    BY <1>5, MessagesAreItems
<1>7. r \in Seq(Item) /\ DOMAIN r = {1} /\ r[1] = Result(q)
    BY <1>6
<1>8. IsInbox(a, r) /\ \A i \in DOMAIN r : ~IsMessage(r[i])
  <2> HIDE DEF r
  <2> QED BY <1>6, <1>7 DEF IsInbox
<1>9. s \in Seq(Item) /\ IsInbox(a, s)
    BY <1>4, <1>5
<1>10. Append(s, Result(q)) = s \o r
    BY <1>6, <1>9
<1>11. /\ inbox'[a] = s \o r
       /\ \A b \in Ids \ {a} : inbox'[b] = inbox[b]
    BY <1>2, <1>4, <1>5, <1>10
<1> HIDE DEF r, s
<1>12. IsInbox(a, s \o r) /\ (InOrder(s) => InOrder(s \o r))
    BY <1>7, <1>8, <1>9, InboxConcat, ResultsBehind
<1>13. \A b \in Ids : IsInbox(b, inbox'[b]) /\ (InOrder(inbox[b]) => InOrder(inbox'[b]))
    BY <1>4, <1>11, <1>12 DEF s
<1>14. Base'
  <2>1. Append(s, Result(q)) \in Seq(Item)
    BY <1>6, <1>9
  <2>2. inbox' \in [Ids -> Seq(Item)]
    BY <2>1, <1>2, <1>4 DEF s
  <2> QED BY <1>3, <1>4, <1>13, <2>2, TypesPrimed
<1>15. HasRead' /\ InboxesRise' /\ Outbox'
  <2>1. HasRead' /\ InboxesRise'
    BY <1>3, OrderIs DEF HasRead, InboxesRise
  <2>2. Outbox'
    BY <1>1, <1>3 DEF Outbox
  <2> QED BY <2>1, <2>2
<1>16. MessagesRise' /\ Waits'
    BY <1>1, <1>3, <1>13 DEF MessagesRise, Waits, ToCome
<1> QED BY <1>14, <1>15, <1>16 DEF EngineInv

(* What Route adds to an inbox, which by then is empty.                    *)
LEMMA AnswersAre ==
    ASSUME Base, NEW a \in Ids, NEW answered \in SUBSET asked
    PROVE  /\ IsInbox(a, SetToSeq(AnswersFor(a, answered)))
           /\ \A i \in DOMAIN SetToSeq(AnswersFor(a, answered)) :
                ~IsMessage(SetToSeq(AnswersFor(a, answered))[i])
<1> DEFINE Q == {p \in answered : p.agent = a}
           S == AnswersFor(a, answered)
           t == SetToSeq(S)
<1>1. asked \subseteq issued /\ issued \subseteq Query /\ IsFiniteSet(issued)
    BY TypesAre
<1>2. Q \subseteq Query /\ IsFiniteSet(Q) /\ \A q \in Q : q.agent = a
    BY <1>1, FS_Subset
<1>3. S = {Result(q) : q \in Q}
    BY DEF AnswersFor
<1> HIDE DEF Q, S
<1>4. IsFiniteSet(S)
  <2> DEFINE f == [q \in Q |-> Result(q)]
  <2>1. f \in [Q -> S] /\ \A x \in S : \E q \in Q : f[q] = x
    BY <1>3
  <2> HIDE DEF f
  <2>2. f \in Surjection(Q, S)
    BY <2>1 DEF Surjection
  <2> QED BY <1>2, <2>2, FS_Surjection
<1>5. \A x \in S : x \in Item /\ ~IsMessage(x) /\ x.query.agent = a
    BY <1>2, <1>3, MessagesAreItems
<1>6. t \in Seq(S) /\ \A i \in DOMAIN t : t[i] \in S
    BY <1>4, Enumeration
<1> HIDE DEF t
<1>7. t \in Seq(Item)
    BY <1>5, <1>6
<1>8. IsInbox(a, t) /\ \A i \in DOMAIN t : ~IsMessage(t[i])
    BY <1>5, <1>6, <1>7 DEF IsInbox
<1> QED BY <1>8 DEF t, S

LEMMA DeliveredAre ==
    ASSUME Base, NEW a \in Ids
    PROVE  /\ IsInbox(a, Sorted(out, SentTo(a)))
           /\ \A i \in DOMAIN Sorted(out, SentTo(a)) : IsMessage(Sorted(out, SentTo(a))[i])
           /\ InOrder(Sorted(out, SentTo(a)))
<1> DEFINE I == SentTo(a)
           t == Sorted(out, I)
<1>1. out \in Seq(Message)
    BY TypesAre
<1>2. I \subseteq DOMAIN out /\ \A i \in I : out[i].to = a
    BY DEF SentTo
<1>3. I \in SUBSET Int /\ IsFiniteSet(I)
  <2>1. Len(out) \in Nat /\ DOMAIN out = 1..Len(out)
    BY <1>1
  <2>2. IsFiniteSet(DOMAIN out)
    BY <2>1, FS_Interval
  <2> QED BY <1>2, <2>1, <2>2, FS_Subset
<1>4. \A i \in I : out[i] \in Item /\ IsMessage(out[i])
    BY <1>1, <1>2, MessagesAreItems
<1> HIDE DEF I
<1>5. /\ t \in Seq(Item)
      /\ \A k \in DOMAIN t : \E i \in I : t[k] = out[i]
      /\ \A j, k \in DOMAIN t : j < k => ~Before(t[k], t[j])
    BY <1>3, <1>4, SortedIs
<1> HIDE DEF t
<1>6. \A k \in DOMAIN t : IsMessage(t[k]) /\ t[k].to = a
    BY <1>2, <1>4, <1>5
<1>7. IsInbox(a, t) /\ InOrder(t)
    BY <1>5, <1>6 DEF IsInbox, InOrder, Before
<1> QED BY <1>6, <1>7 DEF t, I

(* When all have had their turn, nothing is left to read.                  *)
LEMMA AllRead ==
    ASSUME Base, HasRead, turn = Len(Order) + 1, NEW a \in Ids
    PROVE  inbox[a] = <<>>
<1>1. PICK k \in DOMAIN Order : Order[k] = a
    BY OrderIs
<1>2. k < turn
    BY OrderIs
<1> QED BY <1>1, <1>2 DEF HasRead

LEMMA RouteKeeps ==
    ASSUME EngineInv, Route
    PROVE  EngineInv'
<1>1. Base /\ HasRead /\ Outbox /\ Waits
    BY DEF EngineInv
<1>2. PICK answered \in SUBSET asked :
         inbox' = [a \in Ids |->
            inbox[a] \o Sorted(out, SentTo(a)) \o SetToSeq(AnswersFor(a, answered))]
    BY DEF Route
<1>3. /\ turn = Len(Order) + 1 /\ turn' = 0 /\ out' = <<>> /\ asked' = {}
      /\ tick' = tick /\ pending' = pending /\ issued' = issued /\ aborted' = aborted
    BY DEF Route
<1>4. /\ tick \in 0..MaxTick /\ tick \in Int
      /\ aborted \in 0..MaxFaults /\ aborted \in Nat
      /\ issued \subseteq Query /\ IsFiniteSet(issued)
      /\ pending \in [Ids -> SUBSET issued]
    BY <1>1, TypesAre
<1>5. Len(Order) \in Nat /\ DOMAIN Order = 1..Len(Order)
    BY OrderIs
<1>6. ASSUME NEW a \in Ids PROVE IsInbox(a, inbox'[a]) /\ InOrder(inbox'[a])
  <2> DEFINE d == Sorted(out, SentTo(a))
             r == SetToSeq(AnswersFor(a, answered))
  <2>1. IsInbox(a, d) /\ InOrder(d) /\ d \in Seq(Item)
    BY <1>1, DeliveredAre DEF IsInbox
  <2>2. IsInbox(a, r) /\ (\A i \in DOMAIN r : ~IsMessage(r[i])) /\ r \in Seq(Item)
    BY <1>1, AnswersAre DEF IsInbox
  <2>3. inbox[a] = <<>>
    BY <1>1, <1>3, AllRead
  <2>4. inbox'[a] = <<>> \o d \o r
    BY <1>2, <2>3
  <2> HIDE DEF d, r
  <2>5. inbox'[a] = d \o r
    BY <2>1, <2>4
  <2>6. IsInbox(a, d \o r) /\ InOrder(d \o r)
    BY <2>1, <2>2, InboxConcat, ResultsBehind
  <2> QED BY <2>5, <2>6
<1>7. Base'
  <2>1. \A b \in Ids : inbox'[b] \in Seq(Item)
    BY <1>6 DEF IsInbox
  <2>2. inbox' = [b \in Ids |-> inbox'[b]]
    BY <1>2
  <2>3. inbox' \in [Ids -> Seq(Item)]
    BY <2>1, <2>2
  <2>4. turn' \in 0..(Len(Order) + 1) /\ ~(turn' > 0)
    BY <1>3, <1>5
  <2>5. out' \in Seq(Message)
    BY <1>3
  <2> QED BY <1>3, <1>4, <1>6, <2>3, <2>4, <2>5, TypesPrimed
<1>8. HasRead' /\ InboxesRise'
    BY <1>3, <1>5 DEF HasRead, InboxesRise
<1>9. Outbox'
  <2>1. DOMAIN out' = {}
    BY <1>3
  <2> QED BY <1>3, <2>1 DEF Outbox, InOrder
<1>10. MessagesRise'
    BY <1>6 DEF MessagesRise
<1>11. Waits'
  <2>1. ASSUME NEW b \in Ids PROVE ~ToCome(b) /\ ~ToCome(b)'
    <3>1. \A k \in DOMAIN Order : ~(turn <= k)
        BY <1>3, <1>5
    <3> QED BY <3>1, <1>3 DEF ToCome
  <2> QED BY <2>1, <1>1, <1>3 DEF Waits
<1> QED BY <1>7, <1>8, <1>9, <1>10, <1>11 DEF EngineInv
-----------------------------------------------------------------------------
(* The invariant holds in every state of the engine.                       *)
LEMMA EngineInvariant == Spec => []EngineInv
<1>1. Init => EngineInv
  <2> SUFFICES ASSUME Init PROVE EngineInv
    OBVIOUS
  <2>1. /\ tick = 0 /\ turn = 0 /\ inbox = [a \in Ids |-> <<>>]
        /\ out = <<>> /\ asked = {} /\ pending = [a \in Ids |-> {}] /\ issued = {}
        /\ aborted = 0
    BY DEF Init
  <2>2. <<>> \in Seq(Item) /\ <<>> \in Seq(Message) /\ DOMAIN <<>> = {}
    OBVIOUS
  <2>3. \A a \in Ids : inbox[a] = <<>> /\ IsInbox(a, inbox[a]) /\ InOrder(inbox[a])
    BY <2>1, <2>2 DEF IsInbox, InOrder
  <2>4. inbox \in [Ids -> Seq(Item)]
    BY <2>1, <2>2
  <2>5. Base
    <3>1. \A a \in Ids : \A x \in Range(inbox[a]) :
            a = IF IsMessage(x) THEN x.to ELSE x.query.agent
        BY <2>3, <2>4, InboxesTyped
    <3>2. tick \in 0..MaxTick /\ turn \in 0..(Len(Order) + 1) /\ aborted \in 0..MaxFaults
        BY <2>1, ConstantTypes, OrderIs
    <3>3. pending \in [Ids -> SUBSET issued] /\ IsFiniteSet(issued) /\ ~(turn > 0)
        BY <2>1, FS_EmptySet
    <3> QED BY <2>1, <2>2, <2>4, <3>1, <3>2, <3>3 DEF Base, TypeOK
  <2>6. HasRead /\ InboxesRise
    BY <2>1, OrderIs DEF HasRead, InboxesRise
  <2>7. Outbox
    BY <2>1, <2>2 DEF Outbox, InOrder
  <2>8. MessagesRise /\ Waits
    BY <2>1, <2>3 DEF MessagesRise, Waits
  <2> QED BY <2>5, <2>6, <2>7, <2>8 DEF EngineInv
<1>2. EngineInv /\ [Next]_vars => EngineInv'
  <2> SUFFICES ASSUME EngineInv, [Next]_vars PROVE EngineInv'
    OBVIOUS
  <2>1. CASE StartTick
    BY <2>1, StartKeeps
  <2>2. ASSUME NEW a \in Ids, HandleResult(a) \/ HandleMessage(a) PROVE EngineInv'
    <3>1. Base
        BY DEF EngineInv
    <3>2. Reads(a)
        BY <2>2, <3>1, HandlersRead
    <3> QED BY <3>2, ReadsKeep
  <2>3. ASSUME NEW a \in Ids, Finish(a) PROVE EngineInv'
    BY <2>3, FinishKeeps
  <2>4. ASSUME NEW a \in Ids, Fault(a) PROVE EngineInv'
    BY <2>4, FaultKeeps
  <2>5. CASE Route
    BY <2>5, RouteKeeps
  <2>6. CASE LateAnswer
    BY <2>6, LateAnswerKeeps
  <2>7. CASE UNCHANGED vars
    BY <2>7 DEF vars, EngineInv, Base, TypeOK, HasRead, Outbox, InboxesRise, MessagesRise,
                Waits, ToCome
  <2> QED BY <2>1, <2>2, <2>3, <2>4, <2>5, <2>6, <2>7 DEF Next, AgentStep
<1> QED BY <1>1, <1>2, PTL DEF Spec

(* Every variable keeps its type, and an inbox holds only what is          *)
(* addressed to its agent.                                                 *)
THEOREM EngineTypes == Spec => []TypeOK
<1>1. EngineInv => TypeOK
    BY DEF EngineInv, Base
<1> QED BY <1>1, EngineInvariant, PTL

(* Inside a tick every inbox is in the order of the sorts, whatever an     *)
(* aborted tick has left over and whenever the answers came.               *)
THEOREM InboxesAreReadInOrder == Spec => []ReadInOrder
<1>1. EngineInv => ReadInOrder
  <2> SUFFICES ASSUME EngineInv, turn > 0, NEW a \in Ids,
                      NEW i \in DOMAIN inbox[a], NEW j \in DOMAIN inbox[a],
                      i < j, IsMessage(inbox[a][i])
               PROVE  LET m == inbox[a][i]
                          n == inbox[a][j]
                      IN  /\ IsMessage(n) /\ m.sent <= n.sent
                          /\ m.sent = n.sent => m.from <= n.from
    BY DEF ReadInOrder
  <2> DEFINE m == inbox[a][i]
             n == inbox[a][j]
  <2>1. ~Before(n, m)
    BY DEF EngineInv, InboxesRise, Rising
  <2>2. m \in Item /\ n \in Item
    BY TypesAre DEF EngineInv
  <2>3. IsMessage(m) => m.sent \in Int /\ m.from \in Int
    BY <2>2, ItemsAre
  <2>4. IsMessage(n) => n.sent \in Int /\ n.from \in Int
    BY <2>2, ItemsAre
  <2> QED BY <2>1, <2>3, <2>4 DEF Before, Earlier
<1> QED BY <1>1, EngineInvariant, PTL

(* No agent waits longer than QUERY_TTL, apart from the ticks that an      *)
(* exception cut short before it could expire the query.                   *)
THEOREM WaitingIsBounded == Spec => []PendingIsBounded
<1>1. EngineInv => PendingIsBounded
  <2> SUFFICES ASSUME EngineInv, NEW a \in Ids, NEW q \in pending[a]
               PROVE  tick - q.issued <= QueryTTL + aborted + (IF turn > 0 THEN 1 ELSE 0)
    BY DEF PendingIsBounded
  <2>1. tick - q.issued <= QueryTTL + aborted + (IF ToCome(a) THEN 1 ELSE 0)
    BY DEF EngineInv, Waits
  <2>2. ToCome(a) => turn > 0
    BY DEF ToCome
  <2>3. tick \in Int /\ aborted \in Int /\ q.issued \in Int /\ QueryTTL \in Int
    BY TypesAre, QueriesAreDated, ConstantTypes DEF EngineInv
  <2> QED BY <2>1, <2>2, <2>3
<1> QED BY <1>1, EngineInvariant, PTL
-----------------------------------------------------------------------------
(* The bus: what an agent will still read, and of it what is due.          *)
Queue(a) == Letters(inbox[a]) \o For(out, a)
DueOf(a) == IF turn \in DOMAIN Order /\ Order[turn] <= a THEN Cardinality(MessagesIn(inbox[a])) ELSE 0

LEMMA LettersAre ==
    ASSUME NEW s \in Seq(Item)
    PROVE  /\ Letters(s) \in Seq(Item) /\ Len(Letters(s)) \in Nat
           /\ Len(Letters(s)) = Cardinality(MessagesIn(s))
<1>1. MessagesIn(s) \in SUBSET DOMAIN s
    BY DEF MessagesIn
<1>2. /\ At(s, MessagesIn(s)) \in Seq(Item)
      /\ Len(At(s, MessagesIn(s))) = Cardinality(MessagesIn(s))
      /\ Cardinality(MessagesIn(s)) \in Nat
    BY <1>1, AtIs
<1> QED BY <1>2 DEF Letters

LEMMA ForIs ==
    ASSUME NEW ms \in Seq(Message), NEW a
    PROVE  /\ For(ms, a) \in Seq(Item)
           /\ \A k \in DOMAIN For(ms, a) : \E i \in DOMAIN ms : For(ms, a)[k] = ms[i]
<1> DEFINE I == Addressed(ms, a)
           f == For(ms, a)
<1>1. I \in SUBSET DOMAIN ms
    BY DEF Addressed
<1>2. /\ f \in Seq(Message) /\ Len(f) = Cardinality(I)
      /\ Ranked(I, Less(I)) \in [1..Cardinality(I) -> I]
      /\ \A k \in 1..Cardinality(I) : f[k] = ms[Ranked(I, Less(I))[k]]
  <2> HIDE DEF I
  <2> QED BY <1>1, AtIs DEF For, I
<1> HIDE DEF f, I
<1>3. DOMAIN f = 1..Cardinality(I)
    BY <1>2
<1>4. \A k \in DOMAIN f : \E i \in DOMAIN ms : f[k] = ms[i]
    BY <1>1, <1>2, <1>3
<1>5. f \in Seq(Item)
    BY <1>2, MessagesAreItems
<1> QED BY <1>4, <1>5 DEF f

LEMMA NothingIs ==
    /\ Letters(<<>>) = <<>>
    /\ \A a : For(<<>>, a) = <<>>
<1>1. <<>> \in Seq(Item) /\ DOMAIN <<>> = {}
    OBVIOUS
<1>2. \A a : Addressed(<<>>, a) = {}
    BY <1>1 DEF Addressed
<1>3. \A a : For(<<>>, a) = <<>>
    BY <1>2, AtNone DEF For
<1> QED BY <1>1, <1>3, LettersOfResults

LEMMA QueueTypes ==
    ASSUME Base
    PROVE  \A a \in Ids : /\ Queue(a) \in Seq(Item) /\ Letters(inbox[a]) \in Seq(Item)
                          /\ For(out, a) \in Seq(Item) /\ DueOf(a) \in Nat
<1> TAKE a \in Ids
<1>1. inbox[a] \in Seq(Item) /\ out \in Seq(Message)
    BY TypesAre
<1>2. Letters(inbox[a]) \in Seq(Item) /\ Cardinality(MessagesIn(inbox[a])) \in Nat
    BY <1>1, LettersAre
<1>3. For(out, a) \in Seq(Item)
    BY <1>1, ForIs
<1>4. Queue(a) \in Seq(Item)
    BY <1>2, <1>3, ConcatProperties DEF Queue
<1> QED BY <1>2, <1>3, <1>4 DEF DueOf

LEMMA SplitPrefix ==
    ASSUME NEW p \in Seq(Item), NEW q \in Seq(Item)
    PROVE  /\ Bus!IsPrefix(p, p \o q)
           /\ \A i \in (Len(p) + 1)..Len(p \o q) : \E k \in DOMAIN q : (p \o q)[i] = q[k]
<1> DEFINE n == Len(p)
           m == Len(q)
           u == p \o q
<1>1. n \in Nat /\ m \in Nat /\ DOMAIN q = 1..m /\ p = [i \in 1..n |-> p[i]]
    OBVIOUS
<1>2. /\ u \in Seq(Item) /\ Len(u) = n + m
      /\ \A k \in 1..(n + m) : u[k] = IF k <= n THEN p[k] ELSE q[k - n]
    BY ConcatProperties
<1>3. SubSeq(p, 1, n) = p
    BY <1>1
<1> HIDE DEF u, n, m
<1>4. SubSeq(u, 1, n) = [i \in 1..n |-> u[i]]
    BY <1>1, <1>2
<1>5. \A i \in 1..n : u[i] = p[i]
    BY <1>1, <1>2
<1>6. SubSeq(u, 1, n) = p
    BY <1>1, <1>4, <1>5
<1>7. n <= Len(u)
    BY <1>1, <1>2
<1>8. \A i \in (n + 1)..Len(u) : i - n \in 1..m /\ u[i] = q[i - n]
    BY <1>1, <1>2
<1>9. \A i \in (n + 1)..Len(u) : \E k \in DOMAIN q : u[i] = q[k]
    BY <1>1, <1>8
<1>10. Bus!IsPrefix(p, u)
    BY <1>3, <1>6, <1>7 DEF Bus!IsPrefix, n
<1> QED BY <1>9, <1>10 DEF u, n

(* A step of the bus, from what becomes of each queue.                     *)
LEMMA WorksFrom ==
    ASSUME Base, NEW a \in Ids, NEW n \in {0, 1}, NEW new \in Seq(Message),
           \A i \in DOMAIN new : new[i].from = a,
           n <= DueOf(a), DueOf(a)' = DueOf(a) - n,
           Queue(a)' = SubSeq(Queue(a), n + 1, Len(Queue(a))) \o For(new, a),
           \A b \in Ids \ {a} : DueOf(b)' = DueOf(b) /\ Queue(b)' = Queue(b) \o For(new, b)
    PROVE  Bus!Works(a)
<1> DEFINE box == [b \in Ids |-> Queue(b)]
           due == [b \in Ids |-> DueOf(b)]
           left == [box EXCEPT ![a] = SubSeq(@, n + 1, Len(@))]
<1>1. \A b \in Ids : Queue(b) \in Seq(Item) /\ DueOf(b) \in Nat
    BY QueueTypes
<1>2. \A b \in Ids :
        /\ For(new, b) \in Seq(Item)
        /\ \A k \in DOMAIN For(new, b) : For(new, b)[k].from = a
  <2> TAKE b \in Ids
  <2>1. /\ For(new, b) \in Seq(Item)
        /\ \A k \in DOMAIN For(new, b) : \E i \in DOMAIN new : For(new, b)[k] = new[i]
    BY ForIs
  <2> QED BY <2>1
<1>3. left[a] = SubSeq(Queue(a), n + 1, Len(Queue(a))) /\ \A b \in Ids \ {a} : left[b] = Queue(b)
    OBVIOUS
<1>4. \A b \in Ids : left[b] \in Seq(Item)
  <2>1. SubSeq(Queue(a), n + 1, Len(Queue(a))) \in Seq(Item)
    <3> DEFINE q == Queue(a)
    <3>1. q \in Seq(Item)
        BY <1>1
    <3> HIDE DEF q
    <3>2. Len(q) \in Nat /\ (n + 1 \in 1..(Len(q) + 1) \/ Len(q) = 0)
        BY <3>1
    <3>3. SubSeq(q, n + 1, Len(q)) \in Seq(Item)
        BY <3>1, <3>2
    <3> QED BY <3>3 DEF q
  <2> HIDE DEF left
  <2> QED BY <1>1, <1>3, <2>1
<1>5. \A b \in Ids : Queue(b)' = left[b] \o For(new, b)
    BY <1>3
<1> HIDE DEF left
<1>6. \A b \in Ids : /\ Bus!IsPrefix(left[b], Queue(b)')
                     /\ \A i \in (Len(left[b]) + 1)..Len(Queue(b)') : (Queue(b)')[i].from = a
  <2> TAKE b \in Ids
  <2> DEFINE p == left[b]
             q == For(new, b)
             u == Queue(b)'
  <2>1. p \in Seq(Item) /\ q \in Seq(Item) /\ u = p \o q /\ \A k \in DOMAIN q : q[k].from = a
    BY <1>2, <1>4, <1>5
  <2> HIDE DEF p, q, u
  <2>2. Bus!IsPrefix(p, u)
    BY <2>1, SplitPrefix
  <2>3. \A i \in (Len(p) + 1)..Len(u) : \E k \in DOMAIN q : u[i] = q[k]
    BY <2>1, SplitPrefix
  <2>4. \A i \in (Len(p) + 1)..Len(u) : u[i].from = a
    BY <2>1, <2>3
  <2> QED BY <2>2, <2>4 DEF p, u
<1>7. n <= due[a] /\ due' = [due EXCEPT ![a] = @ - n]
  <2>1. due' = [b \in Ids |-> DueOf(b)']
    OBVIOUS
  <2> QED BY <2>1
<1>8. box' = [b \in Ids |-> Queue(b)']
    OBVIOUS
<1>9. \A b \in Ids :
        /\ Bus!IsPrefix(left[b], box'[b])
        /\ \A i \in (Len(left[b]) + 1)..Len(box'[b]) : box'[b][i].from = a
    BY <1>6, <1>8
<1> HIDE DEF box, due
<1>10. \E k \in {0, 1} :
        LET rest == [box EXCEPT ![a] = SubSeq(@, k + 1, Len(@))]
        IN  /\ k <= due[a]
            /\ due' = [due EXCEPT ![a] = @ - k]
            /\ \A b \in Ids :
                /\ Bus!IsPrefix(rest[b], box'[b])
                /\ \A i \in (Len(rest[b]) + 1)..Len(box'[b]) : box'[b][i].from = a
  <2> WITNESS n \in {0, 1}
  <2> QED BY ONLY <1>7, <1>9 DEF left
<1> QED BY <1>10 DEF Bus!Works, box, due, Queue, DueOf, Letters, For, Addressed, SentTo

LEMMA NewTickFrom ==
    ASSUME \A a \in Ids : DueOf(a) = 0 /\ DueOf(a)' = Len(Queue(a)) /\ Queue(a)' = Queue(a)
    PROVE  Bus!NewTick
<1> DEFINE box == [b \in Ids |-> Queue(b)]
           due == [b \in Ids |-> DueOf(b)]
<1>1. \A a \in Ids : due[a] = 0
    OBVIOUS
<1>2. due' = [a \in Ids |-> DueOf(a)'] /\ box' = [a \in Ids |-> Queue(a)']
    OBVIOUS
<1>3. \A a \in Ids : box[a] = Queue(a)
    OBVIOUS
<1>4. due' = [a \in Ids |-> Len(box[a])] /\ box' = box
    BY <1>2, <1>3
<1> HIDE DEF box, due
<1>5. (\A a \in Ids : due[a] = 0) /\ due' = [a \in Ids |-> Len(box[a])] /\ UNCHANGED box
    BY <1>1, <1>4
<1> QED BY <1>5 DEF Bus!NewTick, box, due, Queue, DueOf, Letters, For, Addressed, SentTo

LEMMA IdleFrom ==
    ASSUME \A a \in Ids : DueOf(a)' = DueOf(a) /\ Queue(a)' = Queue(a)
    PROVE  UNCHANGED Bus!busVars
<1> DEFINE box == [b \in Ids |-> Queue(b)]
           due == [b \in Ids |-> DueOf(b)]
<1>1. due' = [a \in Ids |-> DueOf(a)'] /\ box' = [a \in Ids |-> Queue(a)']
    OBVIOUS
<1>2. due' = due /\ box' = box
    BY <1>1
<1> HIDE DEF box, due
<1>3. UNCHANGED <<box, due>>
    BY <1>2
<1> QED BY <1>3 DEF Bus!busVars, box, due, Queue, DueOf, Letters, For, Addressed, SentTo

LEMMA ForGrows ==
    ASSUME Base, NEW a \in Ids, NEW waiting, NEW new, NEW qs, Emitted(a, waiting, new, qs)
    PROVE  \A b : For(out', b) = For(out, b) \o For(new, b)
<1>1. out \in Seq(Message) /\ new \in Seq(Message) /\ out' = out \o new
    BY TypesAre DEF Emitted
<1> QED BY <1>1, ForConcat

LEMMA StartIsNewTick ==
    ASSUME EngineInv, StartTick, aborted = 0
    PROVE  Bus!NewTick
<1>1. Base /\ Outbox /\ MessagesRise
    BY DEF EngineInv
<1>2. /\ turn = 0 /\ turn' = 1 /\ out' = out
      /\ inbox' = [a \in Ids |-> Arranged(inbox[a])]
    BY DEF StartTick
<1>3. out = <<>>
    BY <1>1, <1>2 DEF Outbox
<1>4. DOMAIN Order = 1..Len(Order) /\ Len(Order) \in Nat
    BY OrderIs
<1>5. ASSUME NEW a \in Ids
      PROVE  DueOf(a) = 0 /\ DueOf(a)' = Len(Queue(a)) /\ Queue(a)' = Queue(a)
  <2> DEFINE s == inbox[a]
             t == inbox'[a]
  <2>1. s \in Seq(Item) /\ IsInbox(a, s) /\ InOrder(s)
    BY <1>1, TypesAre DEF MessagesRise
  <2>2. t = Arranged(s)
    BY <1>2
  <2>3. t \in Seq(Item)
    BY <2>1, <2>2, ArrangedIs DEF IsInbox
  <2>4. Letters(t) = Letters(s)
    BY <2>1, <2>2, LettersAreKept
  <2>5. For(out, a) = <<>> /\ For(out', a) = <<>>
    BY <1>2, <1>3, NothingIs
  <2>6. Letters(s) \in Seq(Item) /\ Len(Letters(t)) = Cardinality(MessagesIn(t))
    BY <2>1, <2>3, LettersAre
  <2>7. Queue(a) = Letters(s) \o For(out, a) /\ Queue(a)' = Letters(t) \o For(out', a)
    BY DEF Queue
  <2> HIDE DEF s, t
  <2>8. Queue(a) = Letters(s) /\ Queue(a)' = Letters(t)
    BY <2>4, <2>5, <2>6, <2>7
  <2>9. PICK k \in DOMAIN Order : Order[k] = a
    BY OrderIs
  <2>10. 1 \in DOMAIN Order /\ Order[1] <= a
    <3>1. 1 \in DOMAIN Order /\ (k = 1 \/ 1 < k)
        BY <1>4
    <3> QED BY <3>1, <2>9, OrderIs
  <2>11. DueOf(a)' = Cardinality(MessagesIn(t))
    BY <1>2, <2>10 DEF DueOf, t
  <2>12. DueOf(a) = 0
    BY <1>2, <1>4 DEF DueOf
  <2> QED BY <2>4, <2>6, <2>8, <2>11, <2>12
<1> QED BY <1>5, NewTickFrom

LEMMA ReadsIsWorks ==
    ASSUME EngineInv, NEW a \in Ids, Reads(a)
    PROVE  Bus!Works(a)
<1> DEFINE s == inbox[a]
           n == IF IsMessage(Head(s)) THEN 1 ELSE 0
           h == <<Head(s)>>
           t == Tail(s)
<1>1. PICK waiting, new, qs : waiting \subseteq pending[a] /\ Emitted(a, waiting, new, qs)
    BY DEF Reads
<1>2. Base
    BY DEF EngineInv
<1>3. /\ Now(a) /\ s # <<>> /\ inbox' = [inbox EXCEPT ![a] = t] /\ turn' = turn
    BY DEF Reads
<1>4. inbox \in [Ids -> Seq(Item)] /\ IsInbox(a, s) /\ s \in Seq(Item)
    BY <1>2, TypesAre
<1>5. turn \in DOMAIN Order /\ Order[turn] = a /\ a \in Int
    BY <1>2, <1>3, NowIs, OrderIs
<1>6. /\ h \in Seq(Item) /\ s = h \o t /\ t \in Seq(Item)
    BY <1>3, <1>4, TailIs DEF IsInbox
<1>7. new \in Seq(Message) /\ \A i \in DOMAIN new : new[i].from = a
    BY <1>1 DEF Emitted
<1>8. Len(Letters(h)) = n /\ Letters(h) \in Seq(Item)
  <2>1. DOMAIN h = {1} /\ h[1] = Head(s) /\ Len(h) = 1
    OBVIOUS
  <2>2. CASE IsMessage(Head(s))
    <3>1. \A i \in DOMAIN h : IsMessage(h[i])
        BY <2>1, <2>2
    <3>2. Letters(h) = h
        BY <3>1, <1>6, LettersOfMessages
    <3> QED BY <3>2, <2>1, <2>2, <1>6
  <2>3. CASE ~IsMessage(Head(s))
    <3>1. \A i \in DOMAIN h : ~IsMessage(h[i])
        BY <2>1, <2>3
    <3>2. Letters(h) = <<>>
        BY <3>1, <1>6, LettersOfResults
    <3> QED BY <3>2, <2>3
  <2> QED BY <2>2, <2>3
<1>9. Letters(s) = Letters(h) \o Letters(t)
    BY <1>6, LettersConcat
<1>10. /\ Letters(t) \in Seq(Item) /\ Len(Letters(t)) = Cardinality(MessagesIn(t))
       /\ Len(Letters(s)) = Cardinality(MessagesIn(s))
    BY <1>4, <1>6, LettersAre
<1>11. inbox'[a] = t /\ \A b \in Ids \ {a} : inbox'[b] = inbox[b]
    BY <1>3, <1>4
<1>12. n \in {0, 1}
    OBVIOUS
<1> HIDE DEF n, h, t
<1>13. DueOf(a) = Cardinality(MessagesIn(s)) /\ DueOf(a)' = Cardinality(MessagesIn(t))
    BY <1>3, <1>5, <1>11 DEF DueOf
<1>14. n <= DueOf(a) /\ DueOf(a)' = DueOf(a) - n
  <2> DEFINE u == Letters(h)
             v == Letters(t)
             w == Letters(s)
  <2>0. u \in Seq(Item) /\ v \in Seq(Item) /\ w = u \o v
    BY <1>8, <1>9, <1>10
  <2> HIDE DEF u, v, w
  <2>1. Len(w) = Len(u) + Len(v) /\ Len(v) \in Nat
    BY <2>0, ConcatProperties
  <2> HIDE DEF s
  <2> QED BY <2>1, <1>8, <1>10, <1>12, <1>13 DEF u, v, w
<1>15. For(out, a) \in Seq(Item) /\ For(new, a) \in Seq(Item)
    BY <1>2, <1>7, TypesAre, ForIs
<1>16. Queue(a)' = SubSeq(Queue(a), n + 1, Len(Queue(a))) \o For(new, a)
  <2> DEFINE x == Letters(h)
             y == Letters(t) \o For(out, a)
  <2>1. Queue(a) = (x \o Letters(t)) \o For(out, a)
    BY <1>9 DEF Queue
  <2>2. Queue(a)' = Letters(t) \o (For(out, a) \o For(new, a))
    BY <1>1, <1>2, <1>11, ForGrows DEF Queue
  <2>3. x \in Seq(Item) /\ Len(x) = n
    BY <1>8
  <2>4. y \in Seq(Item)
    BY <1>10, <1>15, ConcatProperties
  <2> HIDE DEF x
  <2>5. Queue(a) = x \o y
    BY <2>1, <2>3, <1>10, <1>15
  <2>6. Queue(a)' = y \o For(new, a)
    BY <2>2, <1>10, <1>15
  <2> HIDE DEF y
  <2>7. Len(x \o y) = n + Len(y)
    BY <2>3, <2>4
  <2>8. SubSeq(x \o y, n + 1, n + Len(y)) = y
    BY <2>3, <2>4, <1>12
  <2> QED BY <2>5, <2>6, <2>7, <2>8
<1>17. \A b \in Ids \ {a} : DueOf(b)' = DueOf(b) /\ Queue(b)' = Queue(b) \o For(new, b)
  <2> TAKE b \in Ids \ {a}
  <2>1. DueOf(b)' = DueOf(b)
    BY <1>3, <1>11 DEF DueOf
  <2>2. Letters(inbox[b]) \in Seq(Item) /\ For(out, b) \in Seq(Item)
    BY <1>2, QueueTypes
  <2>3. For(new, b) \in Seq(Item)
    BY <1>7, ForIs
  <2>4. Queue(b)' = Letters(inbox[b]) \o (For(out, b) \o For(new, b))
    BY <1>1, <1>2, <1>11, ForGrows, ZenonT(30) DEF Queue
  <2>5. Queue(b)' = (Letters(inbox[b]) \o For(out, b)) \o For(new, b)
    BY <2>2, <2>3, <2>4
  <2> QED BY <2>1, <2>5 DEF Queue
<1> QED BY <1>2, <1>7, <1>12, <1>14, <1>16, <1>17, WorksFrom

LEMMA FinishIsWorks ==
    ASSUME EngineInv, NEW a \in Ids, Finish(a)
    PROVE  Bus!Works(a)
<1> DEFINE waiting == {q \in pending[a] : ~Stale(q)}
<1>1. Base
    BY DEF EngineInv
<1>2. /\ Now(a) /\ inbox[a] = <<>> /\ Emits(a, 2, waiting)
      /\ turn' = turn + 1 /\ inbox' = inbox
    BY DEF Finish, Drained
<1>3. turn \in DOMAIN Order /\ Order[turn] = a /\ tick \in 1..MaxTick /\ a \in Int
    BY <1>1, <1>2, NowIs, OrderIs
<1> HIDE DEF waiting
<1>4. PICK new, qs : Emitted(a, waiting, new, qs)
    BY <1>2, <1>3, EmitsIs
<1>5. new \in Seq(Message) /\ \A i \in DOMAIN new : new[i].from = a
    BY <1>4 DEF Emitted
<1>6. Len(Order) \in Nat /\ DOMAIN Order = 1..Len(Order)
    BY OrderIs
<1>7. \A b \in Ids : Queue(b)' = Queue(b) \o For(new, b)
  <2> TAKE b \in Ids
  <2>1. Letters(inbox[b]) \in Seq(Item) /\ For(out, b) \in Seq(Item)
    BY <1>1, QueueTypes
  <2>2. For(new, b) \in Seq(Item)
    BY <1>5, ForIs
  <2>3. Queue(b)' = Letters(inbox[b]) \o (For(out, b) \o For(new, b))
    BY <1>1, <1>2, <1>4, ForGrows DEF Queue
  <2>4. Queue(b)' = (Letters(inbox[b]) \o For(out, b)) \o For(new, b)
    BY <2>1, <2>2, <2>3
  <2> QED BY <2>4 DEF Queue
<1>8. turn + 1 \in DOMAIN Order => a < Order[turn + 1]
    BY <1>3, <1>6, OrderIs
<1>9. DueOf(a) = 0 /\ DueOf(a)' = 0
  <2>1. Cardinality(MessagesIn(<<>>)) = 0
    <3>1. MessagesIn(<<>>) = {}
        BY DEF MessagesIn
    <3> QED BY <3>1, FS_EmptySet
  <2> QED BY <2>1, <1>2 DEF DueOf
<1>10. ASSUME NEW b \in Ids \ {a} PROVE DueOf(b)' = DueOf(b)
  <2>1. PICK k \in DOMAIN Order : Order[k] = b
    BY OrderIs
  <2>2. b \in Int /\ b # a /\ k \in Int /\ turn \in Int
    BY <1>6, <1>3, <2>1, OrderIs
  <2>3. CASE b < a
    <3>1. turn + 1 \in DOMAIN Order => ~(Order[turn + 1] <= b)
        BY <1>3, <1>8, <2>2, <2>3, OrderIs
    <3> QED BY <1>2, <1>3, <2>2, <2>3, <3>1 DEF DueOf
  <2>4. CASE a < b
    <3>1. turn < k
        BY <1>3, <2>1, <2>2, <2>4, OrderIs
    <3>2. turn + 1 \in DOMAIN Order /\ Order[turn + 1] <= b
        BY <1>3, <1>6, <2>1, <2>2, <3>1, OrderIs
    <3> QED BY <1>2, <1>3, <2>2, <2>4, <3>2 DEF DueOf
  <2> QED BY <2>2, <2>3, <2>4, <1>3
<1>11. Queue(a)' = SubSeq(Queue(a), 0 + 1, Len(Queue(a))) \o For(new, a)
  <2>1. Queue(a) \in Seq(Item)
    BY <1>1, QueueTypes
  <2>2. SubSeq(Queue(a), 0 + 1, Len(Queue(a))) = Queue(a)
    BY <2>1
  <2> QED BY <2>2, <1>7
<1>12. 0 \in {0, 1} /\ 0 <= DueOf(a) /\ DueOf(a)' = DueOf(a) - 0
    BY <1>9
<1> QED BY <1>1, <1>5, <1>7, <1>10, <1>11, <1>12, WorksFrom

LEMMA RouteIsIdle ==
    ASSUME EngineInv, Route
    PROVE  UNCHANGED Bus!busVars
<1>1. Base /\ HasRead /\ Outbox
    BY DEF EngineInv
<1>2. PICK answered \in SUBSET asked :
         inbox' = [a \in Ids |->
            inbox[a] \o Sorted(out, SentTo(a)) \o SetToSeq(AnswersFor(a, answered))]
    BY DEF Route
<1>3. turn = Len(Order) + 1 /\ turn' = 0 /\ out' = <<>>
    BY DEF Route
<1>4. Len(Order) \in Nat /\ DOMAIN Order = 1..Len(Order)
    BY OrderIs
<1>5. ASSUME NEW a \in Ids PROVE DueOf(a)' = DueOf(a) /\ Queue(a)' = Queue(a)
  <2> DEFINE d == Sorted(out, SentTo(a))
             r == SetToSeq(AnswersFor(a, answered))
  <2>1. DueOf(a) = 0 /\ DueOf(a)' = 0
    BY <1>3, <1>4 DEF DueOf
  <2>2. d \in Seq(Item) /\ \A i \in DOMAIN d : IsMessage(d[i])
    BY <1>1, DeliveredAre DEF IsInbox
  <2>3. r \in Seq(Item) /\ \A i \in DOMAIN r : ~IsMessage(r[i])
    BY <1>1, AnswersAre DEF IsInbox
  <2>4. inbox[a] = <<>>
    BY <1>1, <1>3, AllRead
  <2>5. inbox'[a] = <<>> \o d \o r
    BY <1>2, <2>4
  <2>6. d = For(out, a)
    BY <1>1, TypesAre, OutIsSorted DEF Outbox, SentTo, Addressed
  <2> HIDE DEF d, r
  <2>7. inbox'[a] = d \o r
    BY <2>2, <2>5
  <2>8. Letters(inbox'[a]) = d \o <<>>
    BY <2>2, <2>3, <2>7, LettersConcat, LettersOfMessages, LettersOfResults
  <2>9. For(out', a) = <<>> /\ Letters(inbox[a]) = <<>>
    BY <1>3, <2>4, NothingIs
  <2>10. Queue(a) = <<>> \o For(out, a) /\ Queue(a)' = (d \o <<>>) \o <<>>
    BY <2>8, <2>9 DEF Queue
  <2>11. Queue(a) = d /\ Queue(a)' = d
    BY <2>2, <2>6, <2>10
  <2> QED BY <2>1, <2>11
<1> QED BY <1>5, IdleFrom

LEMMA LateAnswerIsIdle ==
    ASSUME EngineInv, LateAnswer
    PROVE  UNCHANGED Bus!busVars
<1>1. Base
    BY DEF EngineInv
<1>2. PICK q \in issued : inbox' = [inbox EXCEPT ![q.agent] = Append(@, Result(q))]
    BY DEF LateAnswer
<1>3. turn = 0 /\ turn' = turn /\ out' = out
    BY DEF LateAnswer
<1>4. inbox \in [Ids -> Seq(Item)] /\ issued \subseteq Query
    BY <1>1, TypesAre
<1>5. q.agent \in Ids /\ q \in Query
    BY <1>4 DEF Query
<1>6. Result(q) \in Item /\ ~IsMessage(Result(q))
    BY <1>5, MessagesAreItems
<1>7. DOMAIN Order = 1..Len(Order)
    BY OrderIs
<1>8. ASSUME NEW a \in Ids PROVE DueOf(a)' = DueOf(a) /\ Queue(a)' = Queue(a)
  <2>1. DueOf(a) = 0 /\ DueOf(a)' = 0
    BY <1>3, <1>7 DEF DueOf
  <2>2. Letters(inbox'[a]) = Letters(inbox[a])
    <3>1. CASE a # q.agent
        BY <3>1, <1>2, <1>4
    <3>2. CASE a = q.agent
      <4> DEFINE s == inbox[a]
                 r == <<Result(q)>>
      <4>1. s \in Seq(Item)
        BY <1>4
      <4>2. r \in Seq(Item) /\ DOMAIN r = {1} /\ r[1] = Result(q)
        BY <1>6
      <4>3. inbox'[a] = s \o r
        BY <3>2, <1>2, <1>4, <1>6, <4>1
      <4> HIDE DEF s, r
      <4>4. Letters(r) = <<>>
        BY <4>2, <1>6, LettersOfResults
      <4>5. Letters(s \o r) = Letters(s) \o <<>> /\ Letters(s) \in Seq(Item)
        BY <4>1, <4>2, <4>4, LettersConcat, LettersAre
      <4>6. Letters(s \o r) = Letters(s)
        BY <4>5
      <4> QED BY <4>3, <4>6 DEF s
    <3> QED BY <3>1, <3>2
  <2>3. Queue(a)' = Queue(a)
    BY <2>2, <1>3 DEF Queue
  <2> QED BY <2>1, <2>3
<1> QED BY <1>8, IdleFrom

(* Up to the first exception the engine is the bus that the order and      *)
(* restock models run on.                                                  *)
THEOREM EngineIsBus == Spec => IsBus
<1> DEFINE BusNext == Bus!NewTick \/ \E a \in Ids : Bus!Works(a)
<1>1. Init => Bus!BusInit
  <2> SUFFICES ASSUME Init PROVE Bus!BusInit
    OBVIOUS
  <2>1. turn = 0 /\ out = <<>> /\ \A a \in Ids : inbox[a] = <<>>
    BY DEF Init
  <2>2. \A a \in Ids : Queue(a) = <<>>
    BY <2>1, NothingIs DEF Queue
  <2>3. \A a \in Ids : DueOf(a) = 0
    BY <2>1, OrderIs DEF DueOf
  <2>4. /\ [a \in Ids |-> Queue(a)] = [a \in Ids |-> <<>>]
        /\ [a \in Ids |-> DueOf(a)] = [a \in Ids |-> 0]
    BY <2>2, <2>3
  <2> QED BY <2>4 DEF Bus!BusInit, Queue, DueOf, Letters, For, Addressed, SentTo
<1>2. EngineInv /\ [Next]_vars => [aborted' = 0 => BusNext]_(Bus!busVars)
  <2> SUFFICES ASSUME EngineInv, [Next]_vars, aborted' = 0
               PROVE  BusNext \/ UNCHANGED Bus!busVars
    OBVIOUS
  <2>1. CASE StartTick
    <3>1. aborted = 0
        BY <2>1 DEF StartTick
    <3> QED BY <2>1, <3>1, StartIsNewTick
  <2>2. ASSUME NEW a \in Ids, HandleResult(a) \/ HandleMessage(a) PROVE BusNext
    <3>1. Reads(a)
        BY <2>2, HandlersRead DEF EngineInv
    <3> QED BY <3>1, ReadsIsWorks
  <2>3. ASSUME NEW a \in Ids, Finish(a) PROVE BusNext
    BY <2>3, FinishIsWorks
  <2>4. ASSUME NEW a \in Ids, Fault(a) PROVE FALSE
    <3>1. aborted \in Nat /\ aborted' = aborted + 1
        BY <2>4, TypesAre DEF Fault, EngineInv
    <3> QED BY <3>1
  <2>5. CASE Route
    BY <2>5, RouteIsIdle
  <2>6. CASE LateAnswer
    BY <2>6, LateAnswerIsIdle
  <2>7. CASE UNCHANGED vars
    <3>1. \A a \in Ids : DueOf(a)' = DueOf(a) /\ Queue(a)' = Queue(a)
        BY <2>7 DEF vars, DueOf, Queue
    <3> QED BY <3>1, IdleFrom
  <2> QED BY <2>1, <2>2, <2>3, <2>4, <2>5, <2>6, <2>7 DEF Next, AgentStep
<1> QED BY <1>1, <1>2, EngineInvariant, PTL DEF Spec, IsBus
=============================================================================
