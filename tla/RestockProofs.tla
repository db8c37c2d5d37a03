---------------------------- MODULE RestockProofs ----------------------------
(***************************************************************************)
(* Proofs about Restock, for any sellers and suppliers, any catalog and    *)
(* any quantities and delays.                                              *)
(*                                                                         *)
(* The argument follows a restock through the boxes: at most one message   *)
(* is about it, that message is in the right hands, and while there is one *)
(* the restock is neither on the way nor in stock.  Then, that there is    *)
(* always something about it; and, when reviews are far enough apart, that *)
(* its goods are counted before its seller decides again.                  *)
(***************************************************************************)
EXTENDS Restock, TLAPS, SequenceTheorems, FiniteSetTheorems

Boxes == [Agents -> Seq(Message)]

(* What an agent has in its box.                                           *)
Held(boxes, a) == {boxes[a][i] : i \in 1..Len(boxes[a])}

(* No two messages are about the same restock.                             *)
OneEach(boxes) ==
    \A a, b \in Agents : \A i \in 1..Len(boxes[a]), j \in 1..Len(boxes[b]) :
        boxes[a][i].restock = boxes[b][j].restock => a = b /\ i = j

(* None of them is about restock r.                                        *)
NoneAbout(boxes, r) == \A a \in Agents : \A m \in Held(boxes, a) : m.restock # r
-----------------------------------------------------------------------------
LEMMA MailType ==
    ASSUME NEW t \in MessageTypes, NEW f \in Agents, NEW r \in Restocks
    PROVE  /\ Mail(t, f, r) \in Message
           /\ Mail(t, f, r).type = t /\ Mail(t, f, r).restock = r /\ Mail(t, f, r).from = f
BY DEF Mail, Message

LEMMA BoxTypes ==
    ASSUME NEW boxes \in Boxes, NEW a \in Agents
    PROVE  /\ boxes[a] \in Seq(Message) /\ Len(boxes[a]) \in Nat
           /\ \A i \in 1..Len(boxes[a]) : boxes[a][i] \in Message
BY LenProperties, ElementOfSeq DEF Boxes

(* Taking the oldest message out leaves nothing about the same restock.    *)
LEMMA Taken ==
    ASSUME box \in Boxes, OneEach(box), NEW a \in Agents, Len(box[a]) > 0
    PROVE  /\ Popped(a) \in Boxes /\ OneEach(Popped(a))
           /\ Head(box[a]) \in Held(box, a) /\ Head(box[a]) \in Message
           /\ \A b \in Agents : Held(Popped(a), b) \subseteq Held(box, b)
           /\ NoneAbout(Popped(a), Head(box[a]).restock)
           /\ Len(Popped(a)[a]) = Len(box[a]) - 1
           /\ \A b \in Agents \ {a} : Popped(a)[b] = box[b]
<1> DEFINE new == Popped(a)
           Old(b, i) == IF b = a THEN i + 1 ELSE i
<1>1. box[a] \in Seq(Message) /\ box[a] # <<>> /\ Len(box[a]) \in Nat
    BY BoxTypes, EmptySeq
<1>2. /\ Tail(box[a]) \in Seq(Message) /\ Len(Tail(box[a])) = Len(box[a]) - 1
      /\ \A i \in 1..Len(Tail(box[a])) : Tail(box[a])[i] = box[a][i + 1]
      /\ Head(box[a]) = box[a][1]
    BY <1>1, HeadTailProperties
<1>3. new[a] = Tail(box[a]) /\ \A b \in Agents \ {a} : new[b] = box[b]
    BY DEF Popped, Boxes
<1>4. new \in Boxes
    BY <1>2 DEF Popped, Boxes
<1>5. 1 \in 1..Len(box[a])
    BY <1>1
<1>6. ASSUME NEW b \in Agents, NEW i \in 1..Len(new[b])
      PROVE  /\ Old(b, i) \in 1..Len(box[b]) /\ new[b][i] = box[b][Old(b, i)]
             /\ ~(b = a /\ Old(b, i) = 1)
  <2> HIDE DEF new
  <2>1. CASE b = a
    <3> DEFINE k == i
    <3>1. k \in 1..Len(Tail(box[a])) /\ new[b][k] = Tail(box[a])[k]
      BY <1>3, <2>1
    <3> HIDE DEF k
    <3>2. k \in Nat /\ k > 0 /\ k <= Len(box[a]) - 1 /\ new[b][k] = box[a][k + 1]
      BY <1>1, <1>2, <3>1
    <3>3. k + 1 \in 1..Len(box[a]) /\ k + 1 # 1
      BY <1>1, <3>2
    <3> QED BY <2>1, <3>2, <3>3 DEF k
  <2>2. CASE b # a
    BY <1>3, <2>2
  <2> QED BY <2>1, <2>2
<1> HIDE DEF new, Old
<1>7. OneEach(new)
  <2> SUFFICES ASSUME NEW b \in Agents, NEW c \in Agents, NEW i \in 1..Len(new[b]),
                      NEW j \in 1..Len(new[c]), new[b][i].restock = new[c][j].restock
               PROVE  b = c /\ i = j
    BY DEF OneEach
  <2>1. /\ Old(b, i) \in 1..Len(box[b]) /\ new[b][i] = box[b][Old(b, i)]
        /\ Old(c, j) \in 1..Len(box[c]) /\ new[c][j] = box[c][Old(c, j)]
    BY <1>6
  <2>2. box[b][Old(b, i)].restock = box[c][Old(c, j)].restock
    BY <2>1
  <2>3. b = c /\ Old(b, i) = Old(c, j)
    <3>1. \A d, e \in Agents : \A k \in 1..Len(box[d]) : \A l \in 1..Len(box[e]) :
            box[d][k].restock = box[e][l].restock => d = e /\ k = l
      BY DEF OneEach
    <3> DEFINE k == Old(b, i)
               l == Old(c, j)
    <3>2. k \in 1..Len(box[b]) /\ l \in 1..Len(box[c]) /\ box[b][k].restock = box[c][l].restock
      BY <2>1, <2>2
    <3> HIDE DEF k, l
    <3>3. b = c /\ k = l
      BY <3>1, <3>2
    <3> QED BY <3>3 DEF k, l
  <2>4. Len(new[b]) \in Nat /\ Len(new[c]) \in Nat
    BY <1>4, BoxTypes
  <2>5. i \in Int /\ j \in Int
    BY <2>4
  <2> QED BY <2>3, <2>5 DEF Old
<1>8. \A b \in Agents : Held(new, b) \subseteq Held(box, b)
    BY <1>6 DEF Held
<1>9. NoneAbout(new, box[a][1].restock)
  <2> SUFFICES ASSUME NEW b \in Agents, NEW i \in 1..Len(new[b]),
                      new[b][i].restock = box[a][1].restock
               PROVE  FALSE
    BY DEF NoneAbout, Held
  <2>1. b = a /\ Old(b, i) = 1
    BY <1>5, <1>6 DEF OneEach
  <2> QED BY <1>6, <2>1
<1>10. Head(box[a]) \in Held(box, a) /\ Head(box[a]) \in Message
    BY <1>2, <1>5, BoxTypes DEF Held
<1>11. Len(new[a]) = Len(box[a]) - 1 /\ \A b \in Agents \ {a} : new[b] = box[b]
    BY <1>2, <1>3 DEF new
<1> QED BY <1>2, <1>4, <1>7, <1>8, <1>9, <1>10, <1>11 DEF new

(* Posting the only message about a restock.                               *)
LEMMA Posted ==
    ASSUME NEW boxes \in Boxes, OneEach(boxes), NEW to, NEW m \in Message,
           NoneAbout(boxes, m.restock)
    PROVE  /\ Post(boxes, to, m) \in Boxes /\ OneEach(Post(boxes, to, m))
           /\ \A a \in Agents : \A n \in Held(Post(boxes, to, m), a) :
                n \in Held(boxes, a) \/ (a = to /\ n = m)
           /\ \A a \in Agents : Len(Post(boxes, to, m)[a]) >= Len(boxes[a])
<1>1. CASE to \notin Agents
  <2>1. \A a \in Agents : Len(boxes[a]) \in Nat
    BY BoxTypes
  <2> QED BY <1>1, <2>1 DEF Post
<1>2. CASE to \in Agents
  <2> DEFINE new == Post(boxes, to, m)
             IsNew(a, i) == a = to /\ i = Len(boxes[to]) + 1
  <2>1. /\ Len(boxes[to]) \in Nat /\ Append(boxes[to], m) \in Seq(Message)
        /\ Len(Append(boxes[to], m)) = Len(boxes[to]) + 1
        /\ \A i \in 1..Len(boxes[to]) : Append(boxes[to], m)[i] = boxes[to][i]
        /\ Append(boxes[to], m)[Len(boxes[to]) + 1] = m
    BY <1>2, BoxTypes, AppendProperties
  <2>2. new[to] = Append(boxes[to], m) /\ \A a \in Agents \ {to} : new[a] = boxes[a]
    BY <1>2 DEF Post, Boxes
  <2>3. new \in Boxes
    BY <1>2, <2>1 DEF Post, Boxes
  <2>4. ASSUME NEW a \in Agents, NEW i \in 1..Len(new[a])
        PROVE  \/ IsNew(a, i) /\ new[a][i] = m
               \/ i \in 1..Len(boxes[a]) /\ new[a][i] = boxes[a][i]
    <3> HIDE DEF new
    <3>1. CASE a = to
      <4>1. i \in 1..(Len(boxes[to]) + 1) /\ new[to] = Append(boxes[to], m)
        BY <2>1, <2>2, <3>1
      <4>2. CASE i = Len(boxes[to]) + 1
        BY <2>1, <3>1, <4>1, <4>2
      <4>3. CASE i # Len(boxes[to]) + 1
        <5>1. i \in 1..Len(boxes[to])
          BY <2>1, <4>1, <4>3
        <5> QED BY <2>1, <3>1, <4>1, <5>1
      <4> QED BY <4>2, <4>3
    <3>2. CASE a # to
      BY <2>2, <3>2
    <3> QED BY <3>1, <3>2
  <2> HIDE DEF new, IsNew
  <2>5. \A a \in Agents : \A n \in Held(new, a) :
            n \in Held(boxes, a) \/ (a = to /\ n = m)
    BY <2>4 DEF Held, IsNew
  <2>6. OneEach(new)
    <3> SUFFICES ASSUME NEW a \in Agents, NEW b \in Agents, NEW i \in 1..Len(new[a]),
                        NEW j \in 1..Len(new[b]), new[a][i].restock = new[b][j].restock
                 PROVE  a = b /\ i = j
      BY DEF OneEach
    <3>1. CASE IsNew(a, i) /\ IsNew(b, j)
      BY <3>1 DEF IsNew
    <3>2. \A c \in Agents : \A k \in 1..Len(boxes[c]) : boxes[c][k].restock # m.restock
      BY DEF NoneAbout, Held
    <3>3. CASE ~IsNew(a, i) /\ ~IsNew(b, j)
      BY <2>4, <3>3, SMTT(30) DEF OneEach
    <3>4. CASE IsNew(a, i) /\ ~IsNew(b, j)
      <4>1. new[a][i] = m \/ (i \in 1..Len(boxes[a]) /\ new[a][i] = boxes[a][i])
        BY <2>4
      <4>2. i \notin 1..Len(boxes[a])
        BY <2>1, <3>4 DEF IsNew
      <4> QED BY <2>4, <3>2, <3>4, <4>1, <4>2
    <3>5. CASE ~IsNew(a, i) /\ IsNew(b, j)
      <4>1. j \notin 1..Len(boxes[b])
        BY <2>1, <3>5 DEF IsNew
      <4> QED BY <2>4, <3>2, <3>5, <4>1
    <3> QED BY <3>1, <3>3, <3>4, <3>5
  <2>7. \A a \in Agents : Len(new[a]) >= Len(boxes[a])
    <3>1. \A a \in Agents : Len(boxes[a]) \in Nat
      BY BoxTypes
    <3> QED BY <1>2, <2>1, <2>2, <3>1
  <2> QED BY <2>3, <2>5, <2>6, <2>7 DEF new
<1> QED BY <1>1, <1>2

LEMMA Enumeration ==
    ASSUME NEW S \in SUBSET Restocks
    PROVE  /\ SetToSeq(S) \in Seq(S)
           /\ \A i \in 1..Len(SetToSeq(S)) : SetToSeq(S)[i] \in S
           /\ \A i, j \in 1..Len(SetToSeq(S)) :
                SetToSeq(S)[i] = SetToSeq(S)[j] => i = j
<1>1. IsFiniteSet(S)
    BY RestockAssumption, FS_Subset
<1>2. Cardinality(S) \in Nat /\ ExistsBijection(1..Cardinality(S), S)
    BY <1>1, FS_CardinalityType
<1>3. \E f \in [1..Cardinality(S) -> S] : IsInjective(f)
  <2>1. PICK f \in [1..Cardinality(S) -> S] :
            \A i, j \in 1..Cardinality(S) : f[i] = f[j] => i = j
    BY <1>2 DEF ExistsBijection, Bijection, Injection, IsInjective
  <2> QED BY <2>1 DEF IsInjective
<1>4. SetToSeq(S) \in [1..Cardinality(S) -> S] /\ IsInjective(SetToSeq(S))
    BY <1>3 DEF SetToSeq
<1>5. SetToSeq(S) \in Seq(S) /\ Len(SetToSeq(S)) = Cardinality(S)
    BY <1>2, <1>4, LenProperties, IsASeq
<1> QED BY <1>4, <1>5 DEF IsInjective

(* What UpdateTracking appends to a queue, and the queue after it.         *)
Reports(S) ==
    [i \in DOMAIN SetToSeq(S) |-> Mail("delivery_complete", Transport, SetToSeq(S)[i])]
WithReports(queue, S) == queue \o Reports(S)

(* Appending to each queue the messages about restocks of a set of its     *)
(* own, one message about each, none of them in a queue yet.               *)
LEMMA Delivered ==
    ASSUME NEW boxes \in Boxes, OneEach(boxes), NEW new \in Boxes,
           NEW mine \in [Agents -> SUBSET Restocks],
           \A a, b \in Agents : \A r \in mine[a] \cap mine[b] : a = b,
           \A a \in Agents : \A r \in mine[a] : NoneAbout(boxes, r),
           \A a \in Agents : new[a] = WithReports(boxes[a], mine[a])
    PROVE  /\ OneEach(new)
           /\ \A a \in Agents : Len(new[a]) >= Len(boxes[a])
           /\ \A a \in Agents : \A m \in Held(new, a) : \/ m \in Held(boxes, a)
                \/ \E r \in mine[a] : m = Mail("delivery_complete", Transport, r)
<1> DEFINE Row(a) == SetToSeq(mine[a])
           Told(a) == [i \in DOMAIN Row(a) |-> Mail("delivery_complete", Transport, Row(a)[i])]
           At(a, i) == i - Len(boxes[a])
<1>1. ASSUME NEW a \in Agents
      PROVE  /\ Row(a) \in Seq(Restocks) /\ Len(Row(a)) \in Nat
             /\ DOMAIN Row(a) = 1..Len(Row(a))
             /\ \A i \in 1..Len(Row(a)) : Row(a)[i] \in mine[a]
             /\ \A i, j \in 1..Len(Row(a)) : Row(a)[i] = Row(a)[j] => i = j
  <2>1. Row(a) \in Seq(mine[a]) /\ mine[a] \subseteq Restocks
    BY Enumeration
  <2>2. Row(a) \in Seq(Restocks)
    BY <2>1, SeqMonotonic
  <2>3. Len(Row(a)) \in Nat /\ DOMAIN Row(a) = 1..Len(Row(a))
    BY <2>2, LenProperties
  <2> QED BY <2>2, <2>3, Enumeration
<1> HIDE DEF Row
<1>2. ASSUME NEW a \in Agents
      PROVE  /\ Told(a) \in Seq(Message) /\ Len(Told(a)) = Len(Row(a))
             /\ \A i \in 1..Len(Row(a)) :
                    Told(a)[i] = Mail("delivery_complete", Transport, Row(a)[i])
  <2>1. \A i \in 1..Len(Row(a)) : Mail("delivery_complete", Transport, Row(a)[i]) \in Message
    BY <1>1 DEF Mail, Message, MessageTypes, Agents
  <2>2. Told(a) \in [1..Len(Row(a)) -> Message]
    BY <1>1, <2>1
  <2>3. Told(a) \in Seq(Message) /\ DOMAIN Told(a) = 1..Len(Row(a))
    BY <1>1, <2>2, IsASeq
  <2> QED BY <1>1, <2>3, LenProperties
<1>3. \A a \in Agents : new[a] = boxes[a] \o Told(a)
  <2>1. \A a \in Agents : Told(a) = Reports(mine[a])
    BY DEF Row, Reports
  <2> HIDE DEF Told
  <2> QED BY <2>1 DEF WithReports
<1> HIDE DEF Told
<1>4. ASSUME NEW a \in Agents
      PROVE  /\ Len(boxes[a]) \in Nat /\ Len(Row(a)) \in Nat
             /\ Len(new[a]) = Len(boxes[a]) + Len(Row(a))
             /\ \A i \in 1..Len(boxes[a]) : new[a][i] = boxes[a][i]
             /\ \A i \in 1..Len(Row(a)) : new[a][Len(boxes[a]) + i] = Told(a)[i]
  <2>1. boxes[a] \in Seq(Message) /\ Len(boxes[a]) \in Nat
    BY BoxTypes
  <2>2. \A s, t \in Seq(Message) :
            /\ Len(s \o t) = Len(s) + Len(t) /\ Len(s) \in Nat /\ Len(t) \in Nat
            /\ \A i \in 1..(Len(s) + Len(t)) :
                 (s \o t)[i] = IF i <= Len(s) THEN s[i] ELSE t[i - Len(s)]
    BY ConcatProperties, LenProperties
  <2>3. /\ Len(new[a]) = Len(boxes[a]) + Len(Row(a)) /\ Len(Row(a)) \in Nat
        /\ \A i \in 1..(Len(boxes[a]) + Len(Row(a))) :
             new[a][i] = IF i <= Len(boxes[a]) THEN boxes[a][i] ELSE Told(a)[i - Len(boxes[a])]
    <3> DEFINE s == boxes[a]
               u == Told(a)
    <3>1. s \in Seq(Message) /\ u \in Seq(Message) /\ new[a] = s \o u /\ Len(u) = Len(Row(a))
      BY <1>2, <1>3, <2>1
    <3> HIDE DEF s, u
    <3> DEFINE c == s \o u
    <3>2. /\ Len(c) = Len(s) + Len(u)
          /\ \A i \in 1..(Len(s) + Len(u)) :
               c[i] = IF i <= Len(s) THEN s[i] ELSE u[i - Len(s)]
      BY <2>2, <3>1, Zenon
    <3>3. new[a] = c
      BY <3>1
    <3> HIDE DEF c
    <3> QED BY <1>1, <3>1, <3>2, <3>3 DEF s, u
  <2> HIDE DEF Told
  <2>4. \A i \in 1..Len(boxes[a]) : new[a][i] = boxes[a][i]
    BY <2>1, <2>3
  <2>5. ASSUME NEW i \in 1..Len(Row(a))
        PROVE  new[a][Len(boxes[a]) + i] = Told(a)[i]
    <3>1. /\ Len(boxes[a]) + i \in 1..(Len(boxes[a]) + Len(Row(a)))
          /\ ~(Len(boxes[a]) + i <= Len(boxes[a]))
          /\ (Len(boxes[a]) + i) - Len(boxes[a]) = i
      BY <2>1, <2>3
    <3> QED BY <2>3, <3>1
  <2> QED BY <2>1, <2>3, <2>4, <2>5
<1>5. ASSUME NEW a \in Agents, NEW i \in 1..Len(new[a])
      PROVE  \/ i \in 1..Len(boxes[a]) /\ new[a][i] = boxes[a][i]
             \/ /\ At(a, i) \in 1..Len(Row(a)) /\ Row(a)[At(a, i)] \in mine[a]
                /\ new[a][i] = Mail("delivery_complete", Transport, Row(a)[At(a, i)])
  <2>1. CASE i <= Len(boxes[a])
    BY <1>4, <2>1
  <2>2. CASE i > Len(boxes[a])
    <3>1. At(a, i) \in 1..Len(Row(a)) /\ Len(boxes[a]) + At(a, i) = i
      BY <1>4, <2>2
    <3> HIDE DEF At
    <3>2. new[a][Len(boxes[a]) + At(a, i)] = Told(a)[At(a, i)]
      BY <1>4, <3>1
    <3>3. new[a][i] = Told(a)[At(a, i)]
      BY <3>1, <3>2
    <3>4. Told(a)[At(a, i)] = Mail("delivery_complete", Transport, Row(a)[At(a, i)])
      BY <1>2, <3>1
    <3>5. Row(a)[At(a, i)] \in mine[a]
      BY <1>1, <3>1
    <3> QED BY <3>1, <3>3, <3>4, <3>5
  <2> QED BY <1>4, <2>1, <2>2
<1>6. OneEach(new)
  <2> SUFFICES ASSUME NEW a \in Agents, NEW b \in Agents, NEW i \in 1..Len(new[a]),
                      NEW j \in 1..Len(new[b]), new[a][i].restock = new[b][j].restock
               PROVE  a = b /\ i = j
    BY DEF OneEach
  <2> DEFINE IsOld(c, k) == k \in 1..Len(boxes[c]) /\ new[c][k] = boxes[c][k]
             IsTold(c, k) == /\ At(c, k) \in 1..Len(Row(c)) /\ Row(c)[At(c, k)] \in mine[c]
                             /\ new[c][k].restock = Row(c)[At(c, k)]
  <2>1. \A c \in Agents : \A k \in 1..Len(new[c]) : IsOld(c, k) \/ IsTold(c, k)
    <3> HIDE DEF At
    <3>1. SUFFICES ASSUME NEW c \in Agents, NEW k \in 1..Len(new[c])
                   PROVE  IsOld(c, k) \/ IsTold(c, k)
      OBVIOUS
    <3>2. \A r : Mail("delivery_complete", Transport, r).restock = r
      BY DEF Mail
    <3> QED BY <1>5, <3>2
  <2>2. \A c, d \in Agents : \A r \in mine[c] : \A k \in 1..Len(boxes[d]) :
            boxes[d][k].restock # r
    BY DEF NoneAbout, Held
  <2>3. CASE IsOld(a, i) /\ IsOld(b, j)
    BY <2>3 DEF OneEach
  <2>4. CASE IsOld(a, i) /\ IsTold(b, j)
    BY <2>2, <2>4
  <2>5. CASE IsTold(a, i) /\ IsOld(b, j)
    BY <2>2, <2>5
  <2>6. CASE IsTold(a, i) /\ IsTold(b, j)
    <3>1. a = b
      BY <2>6
    <3>2. At(a, i) = At(a, j)
      <4> HIDE DEF At
      <4>1. Row(a)[At(a, i)] = Row(a)[At(a, j)]
        BY <2>6, <3>1
      <4> QED BY <1>1, <2>6, <3>1, <4>1
    <3>3. i \in Int /\ j \in Int /\ Len(boxes[a]) \in Int
      BY <1>4, <3>1
    <3> QED BY <3>1, <3>2, <3>3
  <2> QED BY <2>1, <2>3, <2>4, <2>5, <2>6
<1>7. \A a \in Agents : Len(new[a]) >= Len(boxes[a])
    BY <1>4
<1>8. ASSUME NEW a \in Agents, NEW m \in Held(new, a)
      PROVE  \/ m \in Held(boxes, a)
             \/ \E r \in mine[a] : m = Mail("delivery_complete", Transport, r)
  <2>1. PICK i \in 1..Len(new[a]) : m = new[a][i]
    BY DEF Held
  <2> HIDE DEF At
  <2> QED BY <1>5, <2>1 DEF Held
<1> QED BY <1>6, <1>7, <1>8
-----------------------------------------------------------------------------
(* Message m is in the box of the agent that has to act on it, the goods   *)
(* it is about are wanted by a seller and are not on the way nor there.    *)
(* o, f, e and l are the sellers' and the supplier's books, the shipments  *)
(* and the landings.                                                       *)
Right(a, m, o, f, e, l) ==
    LET r == m.restock
        s == o[r]
    IN  /\ s \in Sellers /\ SupplierOf[s] \in Suppliers
        /\ e[r] = NoShipment /\ l[r] = 0
        /\ m.type = "restock_order" => m.from = s /\ a = SupplierOf[s]
        /\ m.type = "ship_request" => a = Transport /\ f[r] = s
        /\ m.type = "delivery_complete" => a = SupplierOf[s] /\ f[r] = s
        /\ m.type = "restock_delivered" => a = s

(* Restock r lands at most once, and what is on the way has not landed.    *)
Placed(r, o, f, e, l) ==
    /\ l[r] \in {0, 1} /\ (l[r] > 0 => o[r] \in Sellers)
    /\ e[r] # NoShipment =>
         o[r] \in Sellers /\ SupplierOf[o[r]] \in Suppliers /\ f[r] = o[r] /\ l[r] = 0

InGoodHands(boxes, o, f, e, l) ==
    /\ OneEach(boxes)
    /\ \A a \in Agents : \A m \in Held(boxes, a) : Right(a, m, o, f, e, l)
    /\ \A r \in Restocks : Placed(r, o, f, e, l)

(* What was due when the tick began is still there.                        *)
DueIsThere == \A a \in Agents : due[a] <= Len(box[a])

(* TypeOK says what these return, not that they are functions.             *)
AreFunctions ==
    /\ sold \in [Sellers -> Nat] /\ returned \in [Sellers -> Nat]
    /\ level \in [Sellers -> Int \cup {NoLevel}]

Types == TypeOK /\ DueIsThere /\ AreFunctions

Hands == InGoodHands(box, orderer, filled, eta, landed)

RestockInv == Types /\ Hands /\ StockBalances
-----------------------------------------------------------------------------
LEMMA ReceivesFacts ==
    ASSUME RestockInv, NEW a \in Agents, NEW type, NEW r, Receives(a, type, r)
    PROVE  /\ box \in Boxes /\ OneEach(box) /\ Len(box[a]) > 0
           /\ r \in Restocks /\ Head(box[a]).from \in Agents
           /\ Head(box[a]) \in Held(box, a)
           /\ Right(a, Head(box[a]), orderer, filled, eta, landed)
           /\ Popped(a) \in Boxes /\ OneEach(Popped(a)) /\ NoneAbout(Popped(a), r)
           /\ \A b \in Agents : Held(Popped(a), b) \subseteq Held(box, b)
           /\ due' \in [Agents -> Nat]
           /\ \A b \in Agents : due'[b] <= Len(Popped(a)[b])
<1>1. box \in Boxes /\ OneEach(box) /\ due \in [Agents -> Nat]
    BY DEF RestockInv, Types, TypeOK, Boxes, Hands, InGoodHands
<1>2. \A b \in Agents : Len(box[b]) \in Nat /\ due[b] <= Len(box[b])
    BY <1>1, BoxTypes DEF RestockInv, Types, DueIsThere
<1>3. due[a] > 0 /\ due' = [due EXCEPT ![a] = @ - 1] /\ Head(box[a]).restock = r
    BY DEF Receives
<1>4. Len(box[a]) > 0
    BY <1>1, <1>2, <1>3
<1>5. /\ Popped(a) \in Boxes /\ OneEach(Popped(a)) /\ NoneAbout(Popped(a), r)
      /\ Head(box[a]) \in Held(box, a) /\ Head(box[a]) \in Message
      /\ \A b \in Agents : Held(Popped(a), b) \subseteq Held(box, b)
      /\ Len(Popped(a)[a]) = Len(box[a]) - 1
      /\ \A b \in Agents \ {a} : Popped(a)[b] = box[b]
    BY <1>1, <1>3, <1>4, Taken
<1>6. r \in Restocks /\ Head(box[a]).from \in Agents
    BY <1>3, <1>5 DEF Message
<1>7. Right(a, Head(box[a]), orderer, filled, eta, landed)
    BY <1>5 DEF RestockInv, Hands, InGoodHands
<1>8. due' \in [Agents -> Nat]
    BY <1>1, <1>3
<1>9. \A b \in Agents : due'[b] <= Len(Popped(a)[b])
    BY <1>1, <1>2, <1>3, <1>5
<1> QED BY <1>1, <1>4, <1>5, <1>6, <1>7, <1>8, <1>9

(* Who does not fire a review, sell or ship keeps the rest typed.          *)
LEMMA BooksTyped ==
    ASSUME Types,
           box' \in Boxes, due' \in [Agents -> Nat],
           \A b \in Agents : due'[b] <= Len(box'[b]),
           fired' \subseteq Agents, asked' \subseteq Sellers,
           wait' \in [Sellers -> 0..ReviewGap],
           level' \in [Sellers -> Int \cup {NoLevel}],
           stock' \in [Sellers -> Int], shown' \in [Sellers -> Int],
           sold' \in [Sellers -> Nat], returned' \in [Sellers -> Nat],
           \A s \in Sellers : sold'[s] <= MaxSold[s] /\ returned'[s] <= sold'[s],
           orderer' \in [Restocks -> Sellers \cup {NoSeller}],
           record' \in [Restocks -> {"none", "ordered", "received"}],
           filled' \in [Restocks -> Sellers \cup {NoSeller}],
           eta' \in [Restocks -> {NoShipment} \cup 0..(BaseTransit + Jitter)],
           landed' \in [Restocks -> Nat],
           seen' \in [Restocks -> {NotSeen, InRows, InAnswers}]
    PROVE  Types'
<1>1. \A s \in Sellers : sold'[s] \in 0..MaxSold[s] /\ returned'[s] \in 0..sold'[s]
    BY RestockAssumption
<1>2. \A s \in Sellers : level'[s] = NoLevel \/ level'[s] \in Int
    OBVIOUS
<1> QED BY <1>1, <1>2 DEF Types, TypeOK, AreFunctions, DueIsThere, Boxes

(* The types, in a form that primes well.                                 *)
OldTypes ==
    /\ box \in Boxes /\ due \in [Agents -> Nat] /\ fired \subseteq Agents
    /\ asked \subseteq Sellers /\ wait \in [Sellers -> 0..ReviewGap]
    /\ level \in [Sellers -> Int \cup {NoLevel}]
    /\ stock \in [Sellers -> Int] /\ shown \in [Sellers -> Int]
    /\ sold \in [Sellers -> Nat] /\ returned \in [Sellers -> Nat]
    /\ \A s \in Sellers : sold[s] <= MaxSold[s] /\ returned[s] <= sold[s]
    /\ orderer \in [Restocks -> Sellers \cup {NoSeller}]
    /\ record \in [Restocks -> {"none", "ordered", "received"}]
    /\ filled \in [Restocks -> Sellers \cup {NoSeller}]
    /\ eta \in [Restocks -> {NoShipment} \cup 0..(BaseTransit + Jitter)]
    /\ landed \in [Restocks -> Nat]
    /\ seen \in [Restocks -> {NotSeen, InRows, InAnswers}]

LEMMA ReadTypes ==
    ASSUME RestockInv PROVE OldTypes
<1>1. \A s \in Sellers : sold[s] <= MaxSold[s] /\ returned[s] <= sold[s]
    BY RestockAssumption DEF RestockInv, Types, TypeOK, AreFunctions
<1> QED BY <1>1 DEF OldTypes, RestockInv, Types, TypeOK, AreFunctions, Boxes

(* A step that concerns restock q alone.                                   *)
LEMMA HandsStep ==
    ASSUME box \in Boxes, Hands, NEW boxes, OneEach(boxes),
           NEW o, NEW f, NEW e, NEW l, NEW q,
           \A r \in Restocks \ {q} : /\ o[r] = orderer[r] /\ f[r] = filled[r]
                                     /\ e[r] = eta[r] /\ l[r] = landed[r],
           \A a \in Agents : \A m \in Held(boxes, a) :
                (m \in Held(box, a) /\ m.restock # q) \/ Right(a, m, o, f, e, l),
           q \in Restocks => Placed(q, o, f, e, l)
    PROVE  InGoodHands(boxes, o, f, e, l)
<1>1. ASSUME NEW a \in Agents, NEW m \in Held(box, a), m.restock # q
      PROVE  Right(a, m, o, f, e, l)
  <2>1. Right(a, m, orderer, filled, eta, landed)
    BY DEF Hands, InGoodHands
  <2>2. m.restock \in Restocks
    BY BoxTypes DEF Held, Message
  <2> QED BY <1>1, <2>1, <2>2 DEF Right
<1>2. ASSUME NEW r \in Restocks \ {q} PROVE Placed(r, o, f, e, l)
  <2>1. Placed(r, orderer, filled, eta, landed)
    BY DEF Hands, InGoodHands
  <2> QED BY <2>1 DEF Placed
<1> QED BY <1>1, <1>2 DEF InGoodHands
-----------------------------------------------------------------------------
LEMMA SellsKeeps ==
    ASSUME RestockInv, NEW s \in Sellers, Sells(s) \/ TakesBack(s)
    PROVE  Types' /\ Hands'
<1>1. CASE Sells(s)
  <2>1. /\ sold' \in [Sellers -> Nat] /\ stock' \in [Sellers -> Int]
        /\ \A x \in Sellers : sold'[x] <= MaxSold[x] /\ returned'[x] <= sold'[x]
    <3>1. /\ sold \in [Sellers -> Nat] /\ returned \in [Sellers -> Nat] /\ stock \in [Sellers -> Int]
          /\ \A x \in Sellers : sold[x] <= MaxSold[x] /\ returned[x] <= sold[x] /\ MaxSold[x] \in Nat
      BY RestockAssumption DEF RestockInv, Types, TypeOK, AreFunctions
    <3>2. /\ sold[s] < MaxSold[s] /\ sold' = [sold EXCEPT ![s] = @ + 1]
          /\ stock' = [stock EXCEPT ![s] = @ - 1] /\ returned' = returned
      BY <1>1 DEF Sells
    <3>3. sold' \in [Sellers -> Nat] /\ stock' \in [Sellers -> Int]
      BY <3>1, <3>2
    <3> QED BY <3>1, <3>2, <3>3
  <2>2. UNCHANGED <<box, due, fired, wait, asked, level, shown, seen, returned,
                    orderer, record, filled, eta, landed>>
    BY <1>1 DEF Sells
  <2> QED BY <2>1, <2>2, BooksTyped DEF RestockInv, Types, TypeOK, AreFunctions,
               DueIsThere, Hands, Boxes, Agents
<1>2. CASE TakesBack(s)
  <2>1. /\ returned' \in [Sellers -> Nat] /\ stock' \in [Sellers -> Int]
        /\ \A x \in Sellers : sold'[x] <= MaxSold[x] /\ returned'[x] <= sold'[x]
    <3>1. /\ sold \in [Sellers -> Nat] /\ returned \in [Sellers -> Nat] /\ stock \in [Sellers -> Int]
          /\ \A x \in Sellers : sold[x] <= MaxSold[x] /\ returned[x] <= sold[x] /\ MaxSold[x] \in Nat
      BY RestockAssumption DEF RestockInv, Types, TypeOK, AreFunctions
    <3>2. /\ returned[s] < sold[s] /\ returned' = [returned EXCEPT ![s] = @ + 1]
          /\ stock' = [stock EXCEPT ![s] = @ + 1] /\ sold' = sold
      BY <1>2 DEF TakesBack
    <3>3. returned' \in [Sellers -> Nat] /\ stock' \in [Sellers -> Int]
      BY <3>1, <3>2
    <3> QED BY <3>1, <3>2, <3>3
  <2>2. UNCHANGED <<box, due, fired, wait, asked, level, shown, seen, sold,
                    orderer, record, filled, eta, landed>>
    BY <1>2 DEF TakesBack
  <2> QED BY <2>1, <2>2, BooksTyped DEF RestockInv, Types, TypeOK, AreFunctions,
               DueIsThere, Hands, Boxes, Agents
<1> QED BY <1>1, <1>2

LEMMA SellerFiresKeeps ==
    ASSUME RestockInv, NEW s \in Sellers, SellerFires(s)
    PROVE  Types' /\ Hands'
<1>1. asked' \subseteq Sellers /\ wait' \in [Sellers -> 0..ReviewGap] /\ fired' \subseteq Agents
  <2>1. /\ asked \subseteq Sellers /\ wait \in [Sellers -> 0..ReviewGap] /\ fired \subseteq Agents
        /\ ReviewGap \in 0..ReviewGap /\ s \in Agents
    BY RestockAssumption DEF RestockInv, Types, TypeOK, Agents
  <2>2. /\ fired' = fired \cup {s}
        /\ \/ asked' = asked \cup {s} /\ wait' = [wait EXCEPT ![s] = ReviewGap]
           \/ asked' = asked /\ wait' = wait
    BY DEF SellerFires, Fires
  <2> QED BY <2>1, <2>2
<1>2. UNCHANGED <<box, due, shown, seen, level, stock, sold, returned, orderer, record,
                  filled, eta, landed>>
    BY DEF SellerFires, Fires
<1> QED BY <1>1, <1>2, BooksTyped DEF RestockInv, Types, TypeOK, AreFunctions,
             DueIsThere, Hands, Boxes, Agents

LEMMA ProduceGoodsKeeps ==
    ASSUME RestockInv, NEW p \in Suppliers, ProduceGoods(p)
    PROVE  Types' /\ Hands'
<1>1. fired' \subseteq Agents
    BY DEF ProduceGoods, Fires, RestockInv, Types, TypeOK, Agents
<1>2. UNCHANGED <<box, due, shown, seen, sellerVars, filled, eta>>
    BY DEF ProduceGoods, Fires
<1> QED BY <1>1, <1>2, BooksTyped DEF RestockInv, Types, TypeOK, AreFunctions,
             DueIsThere, Hands, Boxes, Agents, sellerVars

(* A restock is drawn: nobody ordered it before, so nothing is about it.   *)
LEMMA OnInventoryLevelsKeeps ==
    ASSUME RestockInv, NEW s \in Sellers, OnInventoryLevels(s)
    PROVE  Types' /\ Hands'
<1>1. /\ level' \in [Sellers -> Int \cup {NoLevel}]
      /\ UNCHANGED <<due, fired, wait, asked, stock, shown, seen, sold, returned, filled,
                     eta, landed>>
    BY DEF OnInventoryLevels, RestockInv, Types, AreFunctions
<1>2. CASE UNCHANGED <<orderer, record, box>>
    BY <1>1, <1>2, BooksTyped DEF RestockInv, Types, TypeOK, AreFunctions,
             DueIsThere, Hands, Boxes, Agents
<1>3. ASSUME NEW r \in Restocks, orderer[r] = NoSeller, SupplierOf[s] # NoSupplier,
             orderer' = [orderer EXCEPT ![r] = s],
             record' = [record EXCEPT ![r] = "ordered"],
             box' = Post(box, SupplierOf[s], Mail("restock_order", s, r))
      PROVE  Types' /\ Hands'
  <2> DEFINE m == Mail("restock_order", s, r)
  <2>1. /\ m \in Message /\ m.type = "restock_order" /\ m.restock = r /\ m.from = s
    BY MailType DEF MessageTypes, Agents
  <2> HIDE DEF m
  <2>2. box \in Boxes /\ OneEach(box)
    BY DEF RestockInv, Types, TypeOK, Boxes, Hands, InGoodHands
  <2>3. NoneAbout(box, r)
    <3> SUFFICES ASSUME NEW a \in Agents, NEW n \in Held(box, a), n.restock = r
                 PROVE  FALSE
      BY DEF NoneAbout
    <3>1. orderer[r] \in Sellers
      BY DEF RestockInv, Hands, InGoodHands, Right
    <3> QED BY <1>3, <3>1, RestockAssumption DEF Agents
  <2>4. /\ box' \in Boxes /\ OneEach(box')
        /\ \A a \in Agents : \A n \in Held(box', a) :
                n \in Held(box, a) \/ (a = SupplierOf[s] /\ n = m)
        /\ \A a \in Agents : Len(box'[a]) >= Len(box[a])
    BY <1>3, <2>1, <2>2, <2>3, Posted DEF m
  <2>5. \A a \in Agents : due'[a] <= Len(box'[a])
    <3>1. \A a \in Agents : /\ Len(box[a]) \in Nat /\ Len(box'[a]) \in Nat
                            /\ due[a] \in Nat /\ due[a] <= Len(box[a])
      BY <2>2, <2>4, BoxTypes DEF RestockInv, Types, TypeOK, DueIsThere
    <3> QED BY <1>1, <2>4, <3>1
  <2>6. /\ orderer' \in [Restocks -> Sellers \cup {NoSeller}]
        /\ record' \in [Restocks -> {"none", "ordered", "received"}]
        /\ orderer'[r] = s /\ \A q \in Restocks \ {r} : orderer'[q] = orderer[q]
    <3>1. /\ orderer \in [Restocks -> Sellers \cup {NoSeller}]
          /\ record \in [Restocks -> {"none", "ordered", "received"}]
      BY DEF RestockInv, Types, TypeOK
    <3> QED BY <1>3, <3>1
  <2>7. Types'
    <3>1. OldTypes /\ Types
      BY ReadTypes DEF RestockInv
    <3> QED BY <1>1, <2>4, <2>5, <2>6, <3>1, BooksTyped DEF OldTypes
  <2>8. SupplierOf[s] \in Suppliers
    BY <1>3, RestockAssumption
  <2>9. Placed(r, orderer, filled, eta, landed) /\ orderer[r] \notin Sellers
        /\ landed[r] \in Nat
    BY <1>3, RestockAssumption DEF RestockInv, Hands, InGoodHands, Agents, Types, TypeOK
  <2>10. eta[r] = NoShipment /\ landed[r] = 0
    BY <2>9 DEF Placed
  <2>11. Right(SupplierOf[s], m, orderer', filled', eta', landed')
    BY <1>1, <2>1, <2>6, <2>8, <2>10 DEF Right
  <2>12. Placed(r, orderer', filled', eta', landed')
    BY <1>1, <2>6, <2>10 DEF Placed
  <2>13. \A a \in Agents : \A n \in Held(box', a) :
            (n \in Held(box, a) /\ n.restock # r) \/ Right(a, n, orderer', filled', eta', landed')
    BY <2>3, <2>4, <2>11 DEF NoneAbout
  <2>14. InGoodHands(box', orderer', filled', eta', landed')
    <3>1. Hands
      BY DEF RestockInv
    <3> QED BY <1>1, <2>2, <2>4, <2>6, <2>12, <2>13, <3>1, HandsStep
  <2> QED BY <2>7, <2>14 DEF Hands
<1> QED BY <1>2, <1>3 DEF OnInventoryLevels

(* The goods land at the seller that ordered them.                         *)
LEMMA OnRestockDeliveredKeeps ==
    ASSUME RestockInv, NEW s \in Sellers, OnRestockDelivered(s)
    PROVE  Types' /\ Hands'
<1>1. PICK r \in Restocks :
            /\ Receives(s, "restock_delivered", r)
            /\ box' = Popped(s)
            /\ stock' = [stock EXCEPT ![s] = @ + RestockQty]
            /\ landed' = [landed EXCEPT ![r] = @ + 1]
            /\ record' = [q \in Restocks |->
                 IF orderer[q] = s /\ SellerKey(q) = Text(r) THEN "received" ELSE record[q]]
            /\ UNCHANGED <<wait, asked, level, sold, returned, orderer, filled, eta>>
    BY DEF OnRestockDelivered
<1>2. s \in Agents /\ UNCHANGED <<fired, shown, seen>>
      /\ Head(box[s]).type = "restock_delivered" /\ Head(box[s]).restock = r
    BY <1>1 DEF Agents, Receives
<1>3. /\ box' \in Boxes /\ OneEach(box') /\ NoneAbout(box', r) /\ box \in Boxes
      /\ Right(s, Head(box[s]), orderer, filled, eta, landed)
      /\ \A b \in Agents : Held(box', b) \subseteq Held(box, b)
      /\ due' \in [Agents -> Nat] /\ \A b \in Agents : due'[b] <= Len(box'[b])
    BY <1>1, <1>2, ReceivesFacts
<1>4. OldTypes
    BY ReadTypes
<1>5. /\ record' \in [Restocks -> {"none", "ordered", "received"}]
      /\ landed' \in [Restocks -> Nat] /\ stock' \in [Sellers -> Int]
    BY <1>1, <1>4, RestockAssumption DEF OldTypes
<1>6. Types'
    BY <1>1, <1>2, <1>3, <1>4, <1>5, BooksTyped DEF OldTypes, RestockInv
<1>7. orderer[r] = s /\ eta[r] = NoShipment /\ landed[r] = 0
    BY <1>2, <1>3 DEF Right
<1>8. Placed(r, orderer', filled', eta', landed')
    BY <1>1, <1>4, <1>7 DEF Placed, OldTypes
<1>9. \A q \in Restocks \ {r} : landed'[q] = landed[q]
    BY <1>1, <1>4 DEF OldTypes
<1>10. \A a \in Agents : \A m \in Held(box', a) : m \in Held(box, a) /\ m.restock # r
    BY <1>3 DEF NoneAbout
<1>11. Hands
    BY DEF RestockInv
<1>12. InGoodHands(box', orderer', filled', eta', landed')
    BY <1>1, <1>3, <1>8, <1>9, <1>10, <1>11, HandsStep
<1> QED BY <1>6, <1>12 DEF Hands

(* The supplier takes the order and asks for a shipment.                   *)
LEMMA OnRestockOrderKeeps ==
    ASSUME RestockInv, NEW p \in Suppliers, OnRestockOrder(p)
    PROVE  Types' /\ Hands'
<1>1. PICK r \in Restocks :
            /\ Receives(p, "restock_order", r)
            /\ filled' = [filled EXCEPT ![r] = Head(box[p]).from]
            /\ box' = Post(Popped(p), Transport, Mail("ship_request", p, r))
            /\ UNCHANGED <<sellerVars, eta>>
    BY DEF OnRestockOrder
<1> DEFINE m == Mail("ship_request", p, r)
<1>2. p \in Agents /\ Transport \in Agents /\ UNCHANGED <<fired, shown, seen>>
      /\ Head(box[p]).type = "restock_order" /\ Head(box[p]).restock = r
    BY <1>1 DEF Agents, Receives
<1>3. m \in Message /\ m.type = "ship_request" /\ m.restock = r
    BY <1>2, MailType DEF MessageTypes
<1> HIDE DEF m
<1>4. /\ Popped(p) \in Boxes /\ OneEach(Popped(p)) /\ NoneAbout(Popped(p), r) /\ box \in Boxes
      /\ Right(p, Head(box[p]), orderer, filled, eta, landed)
      /\ \A b \in Agents : Held(Popped(p), b) \subseteq Held(box, b)
      /\ due' \in [Agents -> Nat] /\ \A b \in Agents : due'[b] <= Len(Popped(p)[b])
    BY <1>1, <1>2, ReceivesFacts
<1>5. /\ box' \in Boxes /\ OneEach(box')
      /\ \A a \in Agents : \A n \in Held(box', a) :
              n \in Held(Popped(p), a) \/ (a = Transport /\ n = m)
      /\ \A a \in Agents : Len(box'[a]) >= Len(Popped(p)[a])
    BY <1>1, <1>3, <1>4, Posted DEF m
<1>6. \A a \in Agents : due'[a] <= Len(box'[a])
  <2>1. \A a \in Agents : Len(Popped(p)[a]) \in Nat /\ Len(box'[a]) \in Nat /\ due'[a] \in Nat
    BY <1>4, <1>5, BoxTypes
  <2> QED BY <1>4, <1>5, <2>1
<1>7. OldTypes
    BY ReadTypes
<1>8. /\ orderer[r] \in Sellers /\ SupplierOf[orderer[r]] \in Suppliers
      /\ eta[r] = NoShipment /\ landed[r] = 0 /\ Head(box[p]).from = orderer[r]
    BY <1>2, <1>4 DEF Right
<1>9. /\ filled' \in [Restocks -> Sellers \cup {NoSeller}] /\ filled'[r] = orderer[r]
      /\ \A q \in Restocks \ {r} : filled'[q] = filled[q]
    BY <1>1, <1>7, <1>8 DEF OldTypes
<1>10. UNCHANGED <<wait, asked, level, stock, sold, returned, orderer, record, landed>>
    BY <1>1 DEF sellerVars
<1>11. Types'
    BY <1>1, <1>2, <1>4, <1>5, <1>6, <1>7, <1>9, <1>10, BooksTyped DEF OldTypes, RestockInv
<1>12. Right(Transport, m, orderer', filled', eta', landed')
    BY <1>1, <1>3, <1>8, <1>9, <1>10 DEF Right
<1>13. Placed(r, orderer', filled', eta', landed')
    BY <1>1, <1>8, <1>10 DEF Placed
<1>14. \A a \in Agents : \A n \in Held(box', a) :
            (n \in Held(box, a) /\ n.restock # r) \/ Right(a, n, orderer', filled', eta', landed')
    BY <1>4, <1>5, <1>12 DEF NoneAbout
<1>15. Hands
    BY DEF RestockInv
<1>16. InGoodHands(box', orderer', filled', eta', landed')
    BY <1>1, <1>4, <1>5, <1>9, <1>10, <1>13, <1>14, <1>15, HandsStep
<1> QED BY <1>11, <1>16 DEF Hands

(* The supplier finds the order under the text it kept, and forwards it to *)
(* the seller it came from.                                                *)
LEMMA OnDeliveryCompleteKeeps ==
    ASSUME RestockInv, NEW p \in Suppliers, OnDeliveryComplete(p)
    PROVE  Types' /\ Hands'
<1>1. PICK r \in Restocks :
            /\ Receives(p, "delivery_complete", r)
            /\ IF Entry(r) = {} THEN box' = Popped(p)
               ELSE \E q \in Entry(r) :
                    box' = Post(Popped(p), filled[q], Mail("restock_delivered", p, q))
            /\ UNCHANGED <<sellerVars, filled, eta>>
    BY DEF OnDeliveryComplete
<1>2. p \in Agents /\ UNCHANGED <<fired, shown, seen>>
      /\ Head(box[p]).type = "delivery_complete" /\ Head(box[p]).restock = r
    BY <1>1 DEF Agents, Receives
<1>3. /\ Popped(p) \in Boxes /\ OneEach(Popped(p)) /\ NoneAbout(Popped(p), r) /\ box \in Boxes
      /\ Right(p, Head(box[p]), orderer, filled, eta, landed)
      /\ \A b \in Agents : Held(Popped(p), b) \subseteq Held(box, b)
      /\ due' \in [Agents -> Nat] /\ \A b \in Agents : due'[b] <= Len(Popped(p)[b])
    BY <1>1, <1>2, ReceivesFacts
<1>4. OldTypes
    BY ReadTypes
<1>5. UNCHANGED <<wait, asked, level, stock, sold, returned, orderer, record, landed>>
    BY <1>1 DEF sellerVars
<1>6. /\ orderer[r] \in Sellers /\ SupplierOf[orderer[r]] \in Suppliers
      /\ eta[r] = NoShipment /\ landed[r] = 0 /\ filled[r] = orderer[r]
    BY <1>2, <1>3 DEF Right
<1>7. Placed(r, orderer', filled', eta', landed')
    BY <1>1, <1>5, <1>6 DEF Placed
<1>8. Hands
    BY DEF RestockInv
<1>9. \A q \in Entry(r) : q = r
    BY DEF Entry, SupplierKey, Text
<1>10. ASSUME box' \in Boxes, OneEach(box'),
              \A a \in Agents : Len(box'[a]) >= Len(Popped(p)[a]),
              \A a \in Agents : \A n \in Held(box', a) : \/ n \in Held(Popped(p), a)
                \/ Right(a, n, orderer', filled', eta', landed')
       PROVE  Types' /\ Hands'
  <2>1. \A a \in Agents : due'[a] <= Len(box'[a])
    <3>1. \A a \in Agents : Len(Popped(p)[a]) \in Nat /\ Len(box'[a]) \in Nat /\ due'[a] \in Nat
      BY <1>3, <1>10, BoxTypes
    <3> QED BY <1>3, <1>10, <3>1
  <2>2. Types'
    BY <1>1, <1>2, <1>3, <1>4, <1>5, <1>10, <2>1, BooksTyped DEF OldTypes, RestockInv
  <2>3. \A a \in Agents : \A n \in Held(box', a) :
            (n \in Held(box, a) /\ n.restock # r) \/ Right(a, n, orderer', filled', eta', landed')
    BY <1>3, <1>10 DEF NoneAbout
  <2>4. InGoodHands(box', orderer', filled', eta', landed')
    BY <1>1, <1>3, <1>5, <1>7, <1>8, <1>10, <2>3, HandsStep
  <2> QED BY <2>2, <2>4 DEF Hands
<1>11. CASE box' = Popped(p)
  <2>1. \A a \in Agents : Len(box'[a]) >= Len(Popped(p)[a])
    <3>1. \A a \in Agents : Len(Popped(p)[a]) \in Nat
      BY <1>3, BoxTypes
    <3> QED BY <1>11, <3>1
  <2> QED BY <1>3, <1>10, <1>11, <2>1
<1>12. CASE box' = Post(Popped(p), filled[r], Mail("restock_delivered", p, r))
  <2> DEFINE m == Mail("restock_delivered", p, r)
  <2>1. m \in Message /\ m.type = "restock_delivered" /\ m.restock = r
    BY <1>2, MailType DEF MessageTypes
  <2> HIDE DEF m
  <2>2. /\ box' \in Boxes /\ OneEach(box')
        /\ \A a \in Agents : \A n \in Held(box', a) :
                n \in Held(Popped(p), a) \/ (a = filled[r] /\ n = m)
        /\ \A a \in Agents : Len(box'[a]) >= Len(Popped(p)[a])
    BY <1>3, <1>12, <2>1, Posted DEF m
  <2>3. Right(filled[r], m, orderer', filled', eta', landed')
    BY <1>1, <1>5, <1>6, <2>1 DEF Right
  <2> QED BY <1>10, <2>2, <2>3
<1> QED BY <1>1, <1>9, <1>11, <1>12

LEMMA OnShipRequestKeeps ==
    ASSUME RestockInv, OnShipRequest
    PROVE  Types' /\ Hands'
<1>1. PICK r \in Restocks, ticks \in BaseTransit..(BaseTransit + Jitter) :
            /\ Receives(Transport, "ship_request", r)
            /\ box' = Popped(Transport)
            /\ eta' = [eta EXCEPT ![r] = ticks]
            /\ UNCHANGED <<sellerVars, filled>>
    BY DEF OnShipRequest
<1>2. Transport \in Agents /\ UNCHANGED <<fired, shown, seen>>
      /\ Head(box[Transport]).type = "ship_request" /\ Head(box[Transport]).restock = r
    BY <1>1 DEF Agents, Receives
<1>3. /\ box' \in Boxes /\ OneEach(box') /\ NoneAbout(box', r) /\ box \in Boxes
      /\ Right(Transport, Head(box[Transport]), orderer, filled, eta, landed)
      /\ \A b \in Agents : Held(box', b) \subseteq Held(box, b)
      /\ due' \in [Agents -> Nat] /\ \A b \in Agents : due'[b] <= Len(box'[b])
    BY <1>1, <1>2, ReceivesFacts
<1>4. OldTypes
    BY ReadTypes
<1>5. UNCHANGED <<wait, asked, level, stock, sold, returned, orderer, record, landed>>
    BY <1>1 DEF sellerVars
<1>6. ticks \in {NoShipment} \cup 0..(BaseTransit + Jitter)
    BY RestockAssumption
<1>7. /\ eta' \in [Restocks -> {NoShipment} \cup 0..(BaseTransit + Jitter)]
      /\ \A q \in Restocks \ {r} : eta'[q] = eta[q]
    BY <1>1, <1>4, <1>6 DEF OldTypes
<1>8. Types'
    BY <1>1, <1>2, <1>3, <1>4, <1>5, <1>7, BooksTyped DEF OldTypes, RestockInv
<1>9. /\ orderer[r] \in Sellers /\ SupplierOf[orderer[r]] \in Suppliers
      /\ landed[r] = 0 /\ filled[r] = orderer[r]
    BY <1>2, <1>3 DEF Right
<1>10. Placed(r, orderer', filled', eta', landed')
    BY <1>1, <1>5, <1>9 DEF Placed
<1>11. \A a \in Agents : \A m \in Held(box', a) : m \in Held(box, a) /\ m.restock # r
    BY <1>3 DEF NoneAbout
<1>12. Hands
    BY DEF RestockInv
<1>13. InGoodHands(box', orderer', filled', eta', landed')
    BY <1>1, <1>3, <1>5, <1>7, <1>10, <1>11, <1>12, HandsStep
<1> QED BY <1>8, <1>13 DEF Hands

(* The shipments at their eta are reported, and are no longer under way.   *)
LEMMA UpdateTrackingKeeps ==
    ASSUME RestockInv, UpdateTracking
    PROVE  Types' /\ Hands'
<1> DEFINE mine == [a \in Agents |->
                      {r \in Restocks : eta[r] = 0 /\ SupplierOf[orderer[r]] = a}]
<1>1. OldTypes /\ Hands
    BY ReadTypes DEF RestockInv
<1>2. /\ UNCHANGED <<due, shown, seen, wait, asked, level, stock, sold, returned, orderer,
                     record, landed, filled>>
      /\ fired' = fired \cup {Transport} /\ Transport \in Agents
      /\ eta' = [r \in Restocks |-> Kept(eta[r])]
    BY DEF UpdateTracking, Fires, sellerVars, Agents
<1>3. mine \in [Agents -> SUBSET Restocks]
    OBVIOUS
<1>4. \A a \in Agents : box'[a] = WithReports(box[a], mine[a])
    BY DEF UpdateTracking, Reports, WithReports
<1>5. box' \in Boxes
  <2>1. ASSUME NEW a \in Agents PROVE box'[a] \in Seq(Message)
    <3> DEFINE row == SetToSeq(mine[a])
               told == Reports(mine[a])
    <3>1. /\ row \in Seq(mine[a]) /\ mine[a] \subseteq Restocks
          /\ \A i \in 1..Len(row) : row[i] \in mine[a]
      BY <1>3, Enumeration
    <3>2. box'[a] = box[a] \o told
      BY <1>4 DEF WithReports
    <3>8. told = [i \in DOMAIN row |-> Mail("delivery_complete", Transport, row[i])]
      BY DEF Reports
    <3> HIDE DEF row, mine, told
    <3>3. DOMAIN row = 1..Len(row) /\ Len(row) \in Nat
      BY <3>1, LenProperties
    <3>4. \A i \in 1..Len(row) : Mail("delivery_complete", Transport, row[i]) \in Message
      BY <1>2, <3>1, MailType DEF MessageTypes
    <3>5. told \in [1..Len(row) -> Message]
      BY <3>3, <3>4, <3>8
    <3>6. told \in Seq(Message) /\ box[a] \in Seq(Message)
      <4>1. told \in Seq(Message)
        BY <3>3, <3>5, IsASeq
      <4> QED BY <1>1, <4>1, BoxTypes DEF OldTypes
    <3>7. box[a] \o told \in Seq(Message)
      BY <3>6, ConcatProperties
    <3> QED BY <3>2, <3>7
  <2>2. box' = [a \in Agents |-> box'[a]]
    BY DEF UpdateTracking
  <2> QED BY <2>1, <2>2 DEF Boxes
<1>6. \A a \in Agents : \A r \in mine[a] :
            r \in Restocks /\ eta[r] = 0 /\ SupplierOf[orderer[r]] = a
    OBVIOUS
<1> HIDE DEF mine
<1>7. \A a, b \in Agents : \A r \in mine[a] \cap mine[b] : a = b
    BY <1>6
<1>8. \A a \in Agents : \A r \in mine[a] : NoneAbout(box, r)
  <2> SUFFICES ASSUME NEW a \in Agents, NEW r \in mine[a], NEW b \in Agents,
                      NEW m \in Held(box, b), m.restock = r
               PROVE  FALSE
    BY DEF NoneAbout
  <2>1. eta[r] = NoShipment
    BY <1>1 DEF Hands, InGoodHands, Right
  <2> QED BY <1>6, <2>1 DEF NoShipment
<1>9. box \in Boxes /\ OneEach(box)
    BY <1>1 DEF OldTypes, Hands, InGoodHands
<1>10. /\ OneEach(box')
       /\ \A a \in Agents : Len(box'[a]) >= Len(box[a])
       /\ \A a \in Agents : \A m \in Held(box', a) : \/ m \in Held(box, a)
            \/ \E r \in mine[a] : m = Mail("delivery_complete", Transport, r)
    BY <1>3, <1>4, <1>5, <1>7, <1>8, <1>9, Delivered
<1>11. \A a \in Agents : due'[a] <= Len(box'[a])
  <2>1. \A a \in Agents : /\ Len(box[a]) \in Nat /\ Len(box'[a]) \in Nat
                          /\ due[a] \in Nat /\ due[a] <= Len(box[a])
    BY <1>1, <1>5, BoxTypes DEF OldTypes, RestockInv, Types, DueIsThere
  <2> QED BY <1>2, <1>10, <2>1
<1>12. /\ eta' \in [Restocks -> {NoShipment} \cup 0..(BaseTransit + Jitter)]
       /\ \A r \in Restocks : eta'[r] = IF eta[r] = 0 THEN NoShipment ELSE eta[r]
    BY <1>1, <1>2 DEF OldTypes, Kept
<1>13. Types'
    BY <1>1, <1>2, <1>5, <1>11, <1>12, BooksTyped DEF OldTypes, RestockInv
<1>14. ASSUME NEW r \in Restocks PROVE Placed(r, orderer', filled', eta', landed')
  <2>1. Placed(r, orderer, filled, eta, landed)
    BY <1>1 DEF Hands, InGoodHands
  <2> QED BY <1>2, <1>12, <2>1 DEF Placed
<1>15. ASSUME NEW a \in Agents, NEW m \in Held(box', a)
       PROVE  Right(a, m, orderer', filled', eta', landed')
  <2>1. CASE m \in Held(box, a)
    <3>1. Right(a, m, orderer, filled, eta, landed) /\ m.restock \in Restocks
      BY <1>1, <1>9, <2>1, BoxTypes DEF Hands, InGoodHands, Held, Message
    <3> QED BY <1>2, <1>12, <3>1 DEF Right
  <2>2. ASSUME NEW r \in mine[a], m = Mail("delivery_complete", Transport, r)
        PROVE  Right(a, m, orderer', filled', eta', landed')
    <3>1. /\ r \in Restocks /\ eta[r] = 0 /\ SupplierOf[orderer[r]] = a
          /\ m.restock = r /\ m.type = "delivery_complete"
      BY <1>6, <2>2 DEF Mail
    <3>2. Placed(r, orderer, filled, eta, landed)
      BY <1>1, <3>1 DEF Hands, InGoodHands
    <3>3. /\ orderer[r] \in Sellers /\ SupplierOf[orderer[r]] \in Suppliers
          /\ filled[r] = orderer[r] /\ landed[r] = 0
      BY <3>1, <3>2 DEF Placed, NoShipment
    <3> QED BY <1>2, <1>12, <3>1, <3>3 DEF Right
  <2> QED BY <1>10, <2>1, <2>2
<1> QED BY <1>10, <1>13, <1>14, <1>15 DEF Hands, InGoodHands

LEMMA EndTickKeeps ==
    ASSUME RestockInv, EndTick
    PROVE  Types' /\ Hands'
<1>1. OldTypes /\ Hands
    BY ReadTypes DEF RestockInv
<1>2. /\ fired' = {} /\ asked' = {} /\ box' = box
      /\ due' = [a \in Agents |-> Len(box[a])] /\ shown' = stock
      /\ seen' = [r \in Restocks |-> SeenNext(r)]
      /\ level' = [s \in Sellers |-> IF s \in asked THEN shown[s] ELSE NoLevel]
      /\ wait' = [s \in Sellers |-> CountDown(wait[s])]
      /\ eta' = [r \in Restocks |-> CountDown(eta[r])]
      /\ UNCHANGED <<stock, sold, returned, orderer, record, filled, landed>>
    BY DEF EndTick, NewTick
<1>3. \A a \in Agents : Len(box[a]) \in Nat
    BY <1>1, BoxTypes DEF OldTypes
<1>4. due' \in [Agents -> Nat] /\ \A a \in Agents : due'[a] <= Len(box'[a])
    BY <1>2, <1>3
<1>5. wait' \in [Sellers -> 0..ReviewGap]
    BY <1>1, <1>2, RestockAssumption DEF OldTypes, CountDown
<1>6. /\ eta' \in [Restocks -> {NoShipment} \cup 0..(BaseTransit + Jitter)]
      /\ \A r \in Restocks : eta'[r] = NoShipment <=> eta[r] = NoShipment
    BY <1>1, <1>2, RestockAssumption DEF OldTypes, CountDown, NoShipment
<1>7. level' \in [Sellers -> Int \cup {NoLevel}]
    BY <1>1, <1>2 DEF OldTypes
<1>8. Types'
  <2>1. seen' \in [Restocks -> {NotSeen, InRows, InAnswers}]
    BY <1>2 DEF SeenNext
  <2> QED BY <1>1, <1>2, <1>4, <1>5, <1>6, <1>7, <2>1, BooksTyped
           DEF OldTypes, RestockInv, Agents
<1>9. ASSUME NEW r \in Restocks PROVE Placed(r, orderer', filled', eta', landed')
  <2>1. Placed(r, orderer, filled, eta, landed)
    BY <1>1 DEF Hands, InGoodHands
  <2> QED BY <1>2, <1>6, <2>1 DEF Placed
<1>10. ASSUME NEW a \in Agents, NEW m \in Held(box', a)
       PROVE  Right(a, m, orderer', filled', eta', landed')
  <2>1. m \in Held(box, a)
    BY <1>2
  <2>2. Right(a, m, orderer, filled, eta, landed) /\ m.restock \in Restocks
    BY <1>1, <2>1, BoxTypes DEF Hands, InGoodHands, Held, Message, OldTypes
  <2> QED BY <1>2, <1>6, <2>2 DEF Right
<1>11. OneEach(box')
    BY <1>1, <1>2 DEF Hands, InGoodHands
<1> QED BY <1>8, <1>9, <1>10, <1>11 DEF Hands, InGoodHands
-----------------------------------------------------------------------------
(* What a seller's restocks have brought.                                  *)
Landed(s) == {r \in Restocks : orderer[r] = s /\ landed[r] > 0}

LEMMA LandedIsFinite ==
    ASSUME NEW s PROVE IsFiniteSet(Landed(s)) /\ Cardinality(Landed(s)) \in Nat
BY RestockAssumption, FS_Subset, FS_CardinalityType DEF Landed

LEMMA BalanceKeeps ==
    ASSUME RestockInv, [Next]_vars
    PROVE  StockBalances'
<1> SUFFICES ASSUME NEW s \in Sellers
             PROVE  stock'[s] = OpeningStock - sold'[s] + returned'[s]
                                    + RestockQty * Cardinality(Landed(s)')
    BY DEF StockBalances, Landed
<1>1. OldTypes
    BY ReadTypes
<1>2. /\ stock[s] = OpeningStock - sold[s] + returned[s]
                        + RestockQty * Cardinality(Landed(s))
      /\ stock[s] \in Int /\ sold[s] \in Int /\ returned[s] \in Int
      /\ OpeningStock \in Int /\ RestockQty \in Int /\ Cardinality(Landed(s)) \in Int
  <2>1. stock[s] = OpeningStock - sold[s] + returned[s] + RestockQty * Cardinality(Landed(s))
    BY DEF RestockInv, StockBalances, Landed
  <2>2. Cardinality(Landed(s)) \in Int
    BY LandedIsFinite
  <2>3. stock[s] \in Int /\ sold[s] \in Int /\ returned[s] \in Int
    BY <1>1 DEF OldTypes
  <2> QED BY <2>1, <2>2, <2>3, RestockAssumption
<1>3. ASSUME UNCHANGED <<stock, sold, returned, orderer, landed>>
      PROVE  stock'[s] = OpeningStock - sold'[s] + returned'[s]
                             + RestockQty * Cardinality(Landed(s)')
    BY <1>2, <1>3 DEF Landed
<1>4. ASSUME NEW x \in Sellers, Sells(x) \/ TakesBack(x)
      PROVE  stock'[s] = OpeningStock - sold'[s] + returned'[s]
                             + RestockQty * Cardinality(Landed(s)')
  <2> DEFINE n == RestockQty * Cardinality(Landed(s))
  <2>1. n \in Int /\ stock[s] = OpeningStock - sold[s] + returned[s] + n
    BY <1>2
  <2>2. UNCHANGED <<orderer, landed>>
    BY <1>4 DEF Sells, TakesBack
  <2>3. RestockQty * Cardinality(Landed(s)') = n
    BY <2>2 DEF Landed
  <2> HIDE DEF n
  <2>4. CASE Sells(x)
    <3>1. /\ sold' = [sold EXCEPT ![x] = @ + 1] /\ stock' = [stock EXCEPT ![x] = @ - 1]
          /\ returned' = returned
      BY <2>4 DEF Sells
    <3>2. stock'[s] = OpeningStock - sold'[s] + returned'[s] + n
      BY <1>1, <1>2, <2>1, <3>1 DEF OldTypes
    <3> QED BY <2>3, <3>2
  <2>5. CASE TakesBack(x)
    <3>1. /\ returned' = [returned EXCEPT ![x] = @ + 1]
          /\ stock' = [stock EXCEPT ![x] = @ + 1] /\ sold' = sold
      BY <2>5 DEF TakesBack
    <3>2. stock'[s] = OpeningStock - sold'[s] + returned'[s] + n
      BY <1>1, <1>2, <2>1, <3>1 DEF OldTypes
    <3> QED BY <2>3, <3>2
  <2> QED BY <1>4, <2>4, <2>5
<1>5. ASSUME NEW x \in Sellers, OnInventoryLevels(x)
      PROVE  stock'[s] = OpeningStock - sold'[s] + returned'[s]
                             + RestockQty * Cardinality(Landed(s)')
  <2>1. UNCHANGED <<stock, sold, returned, landed>>
    BY <1>5 DEF OnInventoryLevels
  <2>2. \A r \in Restocks : landed[r] > 0 => orderer'[r] = orderer[r]
    <3>1. CASE UNCHANGED orderer
      BY <3>1
    <3>2. ASSUME NEW r \in Restocks, orderer[r] = NoSeller,
                 orderer' = [orderer EXCEPT ![r] = x]
          PROVE  \A q \in Restocks : landed[q] > 0 => orderer'[q] = orderer[q]
      <4>1. Placed(r, orderer, filled, eta, landed) /\ orderer[r] \notin Sellers
        BY <3>2, RestockAssumption DEF RestockInv, Hands, InGoodHands, Agents
      <4>2. ~(landed[r] > 0)
        BY <4>1 DEF Placed
      <4>3. \A q \in Restocks \ {r} : orderer'[q] = orderer[q]
        BY <1>1, <3>2 DEF OldTypes
      <4> QED BY <4>2, <4>3
    <3> QED BY <1>5, <3>1, <3>2 DEF OnInventoryLevels
  <2>3. \A r \in Restocks : orderer'[r] = s /\ landed[r] > 0 <=> orderer[r] = s /\ landed[r] > 0
    BY <2>2
  <2>4. Landed(s)' = Landed(s)
    BY <2>1, <2>3 DEF Landed
  <2> QED BY <1>2, <2>1, <2>4
<1>6. ASSUME NEW x \in Sellers, OnRestockDelivered(x)
      PROVE  stock'[s] = OpeningStock - sold'[s] + returned'[s]
                             + RestockQty * Cardinality(Landed(s)')
  <2>1. PICK r \in Restocks :
            /\ Receives(x, "restock_delivered", r)
            /\ stock' = [stock EXCEPT ![x] = @ + RestockQty]
            /\ landed' = [landed EXCEPT ![r] = @ + 1]
            /\ UNCHANGED <<sold, returned, orderer>>
    BY <1>6 DEF OnRestockDelivered
  <2>2. orderer[r] = x /\ landed[r] = 0
    <3>1. Right(x, Head(box[x]), orderer, filled, eta, landed)
      BY <2>1, ReceivesFacts DEF Agents
    <3> QED BY <2>1, <3>1 DEF Right, Receives
  <2>3. /\ \A q \in Restocks \ {r} : landed'[q] = landed[q]
        /\ landed'[r] > 0 /\ ~(landed[r] > 0)
    BY <1>1, <2>1, <2>2 DEF OldTypes
  <2>4. CASE s = x
    <3>1. Landed(s)' = Landed(s) \cup {r} /\ r \notin Landed(s)
      BY <2>1, <2>2, <2>3, <2>4 DEF Landed
    <3>2. Cardinality(Landed(s)') = Cardinality(Landed(s)) + 1
      BY <3>1, LandedIsFinite, FS_AddElement
    <3> DEFINE k == Cardinality(Landed(s))
               n == RestockQty * k
    <3>3. RestockQty * Cardinality(Landed(s)') = n + RestockQty /\ n \in Int
      <4>1. k \in Int
        BY <1>2
      <4> HIDE DEF k
      <4>2. RestockQty * (k + 1) = RestockQty * k + RestockQty /\ RestockQty * k \in Int
        BY <1>2, <4>1
      <4> QED BY <3>2, <4>2 DEF k
    <3>4. stock[s] = OpeningStock - sold[s] + returned[s] + n
      BY <1>2
    <3> HIDE DEF k, n
    <3>5. stock'[s] = stock[s] + RestockQty
      BY <1>1, <2>1, <2>4 DEF OldTypes
    <3>6. sold'[s] = sold[s] /\ returned'[s] = returned[s]
      BY <2>1
    <3> QED BY <1>2, <3>3, <3>4, <3>5, <3>6
  <2>5. CASE s # x
    <3>1. Landed(s)' = Landed(s)
      BY <2>1, <2>2, <2>3, <2>5 DEF Landed
    <3>2. stock'[s] = stock[s]
      BY <1>1, <2>1, <2>5 DEF OldTypes
    <3> QED BY <1>2, <2>1, <3>1, <3>2
  <2> QED BY <2>4, <2>5
<1>7. CASE \E x \in Sellers : SellerFires(x)
    BY <1>3, <1>7 DEF SellerFires
<1>8. CASE \E p \in Suppliers : SupplierStep(p)
    BY <1>3, <1>8 DEF SupplierStep, OnRestockOrder, OnDeliveryComplete, ProduceGoods, sellerVars
<1>9. CASE OnShipRequest \/ UpdateTracking \/ EndTick
    BY <1>3, <1>9 DEF OnShipRequest, UpdateTracking, EndTick, sellerVars
<1>10. CASE UNCHANGED vars
    BY <1>3, <1>10 DEF vars
<1> QED BY <1>4, <1>5, <1>6, <1>7, <1>8, <1>9, <1>10 DEF Next, Turns, SellerStep

LEMMA InitInv ==
    ASSUME Init PROVE RestockInv
<1>1. /\ box = [a \in Agents |-> <<>>] /\ due = [a \in Agents |-> 0]
      /\ \A a \in Agents : Len(box[a]) = 0
    BY EmptySeq DEF Init, BusInit
<1>2. box \in [Agents -> Seq(Message)]
    BY <1>1, EmptySeq
<1>3. NoShipment \in {NoShipment} \cup 0..(BaseTransit + Jitter)
    OBVIOUS
<1>4. TypeOK
    BY <1>1, <1>2, RestockAssumption DEF Init, TypeOK
<1>5. DueIsThere /\ AreFunctions
    BY <1>1 DEF Init, DueIsThere, AreFunctions
<1>6. \A a \in Agents : Held(box, a) = {}
    BY <1>1 DEF Held
<1>7. OneEach(box)
    BY <1>1 DEF OneEach
<1>8. \A r \in Restocks : Placed(r, orderer, filled, eta, landed)
    BY DEF Init, Placed
<1>9. StockBalances
  <2> SUFFICES ASSUME NEW s \in Sellers
               PROVE  stock[s] = OpeningStock - sold[s] + returned[s]
                                    + RestockQty * Cardinality(Landed(s))
    BY DEF StockBalances, Landed
  <2>1. Landed(s) = {}
    BY DEF Landed, Init
  <2>2. Cardinality(Landed(s)) = 0
    BY <2>1, FS_EmptySet
  <2> QED BY <2>2, RestockAssumption DEF Init
<1> QED BY <1>4, <1>5, <1>6, <1>7, <1>8, <1>9 DEF RestockInv, Types, Hands, InGoodHands

LEMMA StepInv ==
    ASSUME RestockInv, [Next]_vars
    PROVE  RestockInv'
<1>1. CASE UNCHANGED vars
  <2>1. Types' /\ Hands'
    BY <1>1 DEF vars, RestockInv, Types, TypeOK, DueIsThere, AreFunctions, Hands
  <2> QED BY <2>1, BalanceKeeps DEF RestockInv
<1>2. CASE Next
  <2>1. Types' /\ Hands'
    <3>1. CASE \E s \in Sellers : SellerStep(s)
      BY <3>1, SellsKeeps, SellerFiresKeeps, OnInventoryLevelsKeeps, OnRestockDeliveredKeeps
         DEF SellerStep
    <3>2. CASE \E p \in Suppliers : SupplierStep(p)
      BY <3>2, OnRestockOrderKeeps, OnDeliveryCompleteKeeps, ProduceGoodsKeeps DEF SupplierStep
    <3>3. CASE OnShipRequest \/ UpdateTracking \/ EndTick
      BY <3>3, OnShipRequestKeeps, UpdateTrackingKeeps, EndTickKeeps
    <3> QED BY <1>2, <3>1, <3>2, <3>3 DEF Next, Turns
  <2> QED BY <2>1, BalanceKeeps DEF RestockInv
<1> QED BY <1>1, <1>2

LEMMA AlwaysInv == Spec => []RestockInv
<1>1. Init => RestockInv
    BY InitInv
<1>2. RestockInv /\ [Next]_vars => RestockInv'
    BY StepInv
<1> QED BY <1>1, <1>2, PTL DEF Spec
-----------------------------------------------------------------------------
(* Every variable has its type.                                            *)
THEOREM RestockTypeCorrect == Spec => []TypeOK
<1>1. RestockInv => TypeOK
    BY DEF RestockInv, Types
<1> QED BY <1>1, AlwaysInv, PTL

(* Whatever sellers, suppliers, quantities and transit times there are,    *)
(* the stock of a seller is accounted for by its own sales, returns and    *)
(* restocks: on_restock_delivered adds a restock once, at its orderer.     *)
THEOREM StockAlwaysBalances == Spec => []StockBalances
<1>1. RestockInv => StockBalances
    BY DEF RestockInv
<1> QED BY <1>1, AlwaysInv, PTL

(* A restock lands at most once, and while any message about it is in a    *)
(* queue it is neither on the way nor landed, and no other message is      *)
(* about it.                                                               *)
THEOREM RestocksStayInGoodHands == Spec => []Hands
<1>1. RestockInv => Hands
    BY DEF RestockInv
<1> QED BY <1>1, AlwaysInv, PTL
-----------------------------------------------------------------------------
(* Where the messages of a queue stand when the oldest of one is taken.    *)
LEMMA TakenAt ==
    ASSUME box \in Boxes, NEW a \in Agents, Len(box[a]) > 0
    PROVE  \A b \in Agents :
            /\ Len(box[b]) \in Nat
            /\ Len(Popped(a)[b]) = IF b = a THEN Len(box[b]) - 1 ELSE Len(box[b])
            /\ \A i \in 1..Len(Popped(a)[b]) :
                 Popped(a)[b][i] = box[b][IF b = a THEN i + 1 ELSE i]
<1>1. box[a] \in Seq(Message) /\ box[a] # <<>>
    BY BoxTypes, EmptySeq
<1>2. /\ Len(Tail(box[a])) = Len(box[a]) - 1
      /\ \A i \in 1..Len(Tail(box[a])) : Tail(box[a])[i] = box[a][i + 1]
    BY <1>1, HeadTailProperties
<1>3. Popped(a)[a] = Tail(box[a]) /\ \A b \in Agents \ {a} : Popped(a)[b] = box[b]
    BY DEF Popped, Boxes
<1>4. \A b \in Agents : Len(box[b]) \in Nat
    BY BoxTypes
<1>5. TAKE b \in Agents
<1>6. CASE b = a
    BY <1>2, <1>3, <1>4, <1>6
<1>7. CASE b # a
    BY <1>3, <1>4, <1>7
<1> QED BY <1>6, <1>7

(* And when one is posted.                                                 *)
LEMMA PostedAt ==
    ASSUME NEW boxes \in Boxes, NEW to, NEW m
    PROVE  \A a \in Agents :
            /\ Len(boxes[a]) \in Nat
            /\ Len(Post(boxes, to, m)[a]) = IF a = to THEN Len(boxes[a]) + 1 ELSE Len(boxes[a])
            /\ \A i \in 1..Len(boxes[a]) : Post(boxes, to, m)[a][i] = boxes[a][i]
            /\ a = to => Post(boxes, to, m)[a][Len(boxes[a]) + 1] = m
<1>1. TAKE a \in Agents
<1>2. boxes[a] \in Seq(Message) /\ Len(boxes[a]) \in Nat
    BY BoxTypes
<1>3. CASE a = to
  <2>1. Post(boxes, to, m)[a] = Append(boxes[a], m)
    BY <1>3 DEF Post, Boxes
  <2>2. /\ Len(Append(boxes[a], m)) = Len(boxes[a]) + 1
        /\ \A i \in 1..Len(boxes[a]) : Append(boxes[a], m)[i] = boxes[a][i]
        /\ Append(boxes[a], m)[Len(boxes[a]) + 1] = m
    <3>1. boxes[a] \in Seq(Message \cup {m}) /\ m \in Message \cup {m}
      BY <1>2, SeqMonotonic
    <3> QED BY <3>1, AppendProperties
  <2> QED BY <1>2, <1>3, <2>1, <2>2
<1>4. CASE a # to
  <2>1. Post(boxes, to, m)[a] = boxes[a]
    BY <1>4 DEF Post, Boxes
  <2> QED BY <1>2, <1>4, <2>1
<1> QED BY <1>3, <1>4

(* And when the deliveries are reported.                                   *)
LEMMA ReportedAt ==
    ASSUME NEW boxes \in Boxes, NEW a \in Agents, NEW S \in SUBSET Restocks,
           NEW n \in Nat, n = Len(WithReports(boxes[a], S))
    PROVE  /\ Len(boxes[a]) \in Nat /\ Len(boxes[a]) <= n
           /\ \A i \in 1..Len(boxes[a]) : WithReports(boxes[a], S)[i] = boxes[a][i]
           /\ \A i \in (Len(boxes[a]) + 1)..n : \E r \in S :
                WithReports(boxes[a], S)[i] = Mail("delivery_complete", Transport, r)
           /\ \A r \in S : \E i \in (Len(boxes[a]) + 1)..n :
                WithReports(boxes[a], S)[i] = Mail("delivery_complete", Transport, r)
<1> DEFINE row == SetToSeq(S)
           old == boxes[a]
           told == [i \in DOMAIN row |-> Mail("delivery_complete", Transport, row[i])]
<1>1. /\ row \in Seq(S) /\ \A i \in 1..Len(row) : row[i] \in S
      /\ \A r \in S : \E i \in 1..Len(row) : row[i] = r
  <2>1. IsFiniteSet(S)
    BY RestockAssumption, FS_Subset
  <2>2. Cardinality(S) \in Nat /\ ExistsBijection(1..Cardinality(S), S)
    BY <2>1, FS_CardinalityType
  <2>3. row \in [1..Cardinality(S) -> S] /\ IsInjective(row)
    <3>1. PICK f \in [1..Cardinality(S) -> S] :
              \A i, j \in 1..Cardinality(S) : f[i] = f[j] => i = j
      BY <2>2 DEF ExistsBijection, Bijection, Injection, IsInjective
    <3>2. \E g \in [1..Cardinality(S) -> S] : IsInjective(g)
      BY <3>1 DEF IsInjective
    <3> QED BY <3>2 DEF SetToSeq
  <2>4. row \in Seq(S) /\ Len(row) = Cardinality(S)
    BY <2>2, <2>3, LenProperties, IsASeq
  <2>5. row \in Surjection(1..Cardinality(S), S)
    <3>1. row \in Injection(1..Cardinality(S), S)
      BY <2>3 DEF Injection, IsInjective
    <3> DEFINE T == 1..Cardinality(S)
    <3>2. IsFiniteSet(T) /\ Cardinality(T) = Cardinality(S)
      <4> DEFINE k == Cardinality(S)
      <4>1. k \in Nat
        BY <2>2
      <4> HIDE DEF k
      <4>2. IsFiniteSet(1..k) /\ Cardinality(1..k) = k
        <5>1. /\ 1 \in Int /\ k \in Int
              /\ (IF 1 > k THEN 0 ELSE k - 1 + 1) = k
          BY <4>1
        <5>2. IsFiniteSet(1..k) /\ Cardinality(1..k) = IF 1 > k THEN 0 ELSE k - 1 + 1
          BY <5>1, FS_Interval
        <5> QED BY <5>1, <5>2
      <4> QED BY <4>2 DEF k
    <3>3. row \in Injection(T, S)
      BY <3>1
    <3> HIDE DEF T, row
    <3>4. row \in Surjection(T, S)
      BY <2>1, <3>2, <3>3, FS_Injection
    <3> QED BY <3>4 DEF T
  <2>6. \A r \in S : \E i \in 1..Cardinality(S) : row[i] = r
    BY <2>5 DEF Surjection
  <2>7. \A i \in 1..Cardinality(S) : row[i] \in S
    BY <2>3
  <2> HIDE DEF row
  <2> QED BY <2>4, <2>6, <2>7
<1>2. DOMAIN row = 1..Len(row) /\ Len(row) \in Nat
    BY <1>1, LenProperties
<1>3. WithReports(boxes[a], S) = old \o told
    BY DEF WithReports, Reports
<1>4. told = [i \in DOMAIN row |-> Mail("delivery_complete", Transport, row[i])]
    OBVIOUS
<1>5. old \in Seq(Message) /\ Len(old) \in Nat
    BY BoxTypes
<1> HIDE DEF row, told, old
<1>6. \A i \in 1..Len(row) : Mail("delivery_complete", Transport, row[i]) \in Message
    BY <1>1, MailType DEF MessageTypes, Agents
<1>7. told \in Seq(Message) /\ Len(told) = Len(row)
  <2>1. told \in [1..Len(row) -> Message] /\ DOMAIN told = 1..Len(row)
    BY <1>2, <1>4, <1>6
  <2>2. told \in Seq(Message)
    BY <1>2, <2>1, IsASeq
  <2> QED BY <1>2, <2>1, <2>2, LenProperties
<1> DEFINE c == old \o told
<1>8. /\ Len(c) = Len(old) + Len(row)
      /\ \A i \in 1..(Len(old) + Len(row)) :
            c[i] = IF i <= Len(old) THEN old[i] ELSE told[i - Len(old)]
  <2> DEFINE u == told
  <2>1. u \in Seq(Message) /\ Len(u) = Len(row)
    BY <1>7
  <2> HIDE DEF u
  <2>2. /\ Len(old \o u) = Len(old) + Len(u)
        /\ \A i \in 1..(Len(old) + Len(u)) :
             (old \o u)[i] = IF i <= Len(old) THEN old[i] ELSE u[i - Len(old)]
    BY <1>5, <2>1, ConcatProperties, Zenon
  <2> QED BY <2>1, <2>2 DEF u
<1> HIDE DEF c
<1>9. n = Len(c) /\ \A i \in 1..n : WithReports(boxes[a], S)[i] = c[i]
    BY <1>3 DEF c
<1>10. n = Len(old) + Len(row) /\ Len(old) <= n
    BY <1>2, <1>5, <1>8, <1>9
<1>11. \A i \in 1..Len(old) : c[i] = old[i]
    BY <1>2, <1>5, <1>8
<1>12. \A i \in 1..Len(row) :
          /\ Len(old) + i \in (Len(old) + 1)..n
          /\ c[Len(old) + i] = Mail("delivery_complete", Transport, row[i])
  <2> TAKE i \in 1..Len(row)
  <2>1. Len(old) + i \in 1..(Len(old) + Len(row)) /\ ~(Len(old) + i <= Len(old))
        /\ (Len(old) + i) - Len(old) = i
    BY <1>2, <1>5
  <2>2. c[Len(old) + i] = told[i]
    BY <1>8, <2>1
  <2>3. told[i] = Mail("delivery_complete", Transport, row[i])
    BY <1>2, <1>4
  <2> QED BY <1>2, <1>5, <1>10, <2>2, <2>3
<1>13. ASSUME NEW i \in (Len(old) + 1)..n
       PROVE  \E r \in S : c[i] = Mail("delivery_complete", Transport, r)
  <2> DEFINE j == i - Len(old)
  <2>1. j \in 1..Len(row) /\ Len(old) + j = i
    BY <1>2, <1>5, <1>10
  <2> HIDE DEF j
  <2> QED BY <1>1, <1>12, <2>1
<1>14. ASSUME NEW r \in S
       PROVE  \E i \in (Len(old) + 1)..n : c[i] = Mail("delivery_complete", Transport, r)
    BY <1>1, <1>12
<1>15. \A i \in (Len(old) + 1)..n : i \in 1..n
    BY <1>5
<1>16. \A i \in 1..Len(old) : i \in 1..n
    BY <1>5, <1>10
<1> QED BY <1>5, <1>9, <1>10, <1>11, <1>13, <1>14, <1>15, <1>16 DEF old
-----------------------------------------------------------------------------
(* Every restock that was ordered can be found.                            *)
Found(boxes, o, e, l) ==
    \A r \in Restocks : o[r] \in Sellers =>
        ~NoneAbout(boxes, r) \/ e[r] # NoShipment \/ l[r] > 0

NothingIsLost == Found(box, orderer, eta, landed)

LEMMA AboutAt ==
    ASSUME NEW boxes, NEW r
    PROVE  ~NoneAbout(boxes, r) <=>
             \E a \in Agents : \E i \in 1..Len(boxes[a]) : boxes[a][i].restock = r
BY DEF NoneAbout, Held

(* Taking a message out leaves what is about other restocks.               *)
LEMMA OthersStay ==
    ASSUME box \in Boxes, NEW a \in Agents, Len(box[a]) > 0, NEW q,
           ~NoneAbout(box, q), q # Head(box[a]).restock
    PROVE  ~NoneAbout(Popped(a), q)
<1>1. PICK b \in Agents : \E k \in 1..Len(box[b]) : box[b][k].restock = q
    BY AboutAt
<1>2. PICK i \in 1..Len(box[b]) : box[b][i].restock = q
    BY <1>1
<1>3. /\ Len(box[b]) \in Nat
      /\ Len(Popped(a)[b]) = IF b = a THEN Len(box[b]) - 1 ELSE Len(box[b])
      /\ \A k \in 1..Len(Popped(a)[b]) : Popped(a)[b][k] = box[b][IF b = a THEN k + 1 ELSE k]
    BY TakenAt
<1>4. Head(box[a]) = box[a][1]
  <2>1. box[a] \in Seq(Message) /\ box[a] # <<>>
    BY BoxTypes, EmptySeq
  <2> QED BY <2>1, HeadTailProperties
<1>5. CASE b = a
  <2> DEFINE k == i - 1
  <2>1. i # 1
    BY <1>4, <1>5, <1>2
  <2>2. k \in 1..Len(Popped(a)[b]) /\ k + 1 = i
    BY <1>3, <1>5, <1>2, <2>1
  <2> HIDE DEF k
  <2>3. Popped(a)[b][k].restock = q
    BY <1>3, <1>5, <1>2, <2>2
  <2> QED BY <2>2, <2>3, AboutAt
<1>6. CASE b # a
  <2>1. i \in 1..Len(Popped(a)[b]) /\ Popped(a)[b][i].restock = q
    BY <1>3, <1>6, <1>2
  <2> QED BY <2>1, AboutAt
<1> QED BY <1>5, <1>6

(* Posting leaves what was there and brings what is posted.                *)
LEMMA PostedIsThere ==
    ASSUME NEW boxes \in Boxes, NEW to, NEW m
    PROVE  /\ \A q : ~NoneAbout(boxes, q) => ~NoneAbout(Post(boxes, to, m), q)
           /\ to \in Agents => ~NoneAbout(Post(boxes, to, m), m.restock)
<1>1. \A a \in Agents :
        /\ Len(boxes[a]) \in Nat
        /\ Len(Post(boxes, to, m)[a]) = IF a = to THEN Len(boxes[a]) + 1 ELSE Len(boxes[a])
        /\ \A i \in 1..Len(boxes[a]) : Post(boxes, to, m)[a][i] = boxes[a][i]
        /\ a = to => Post(boxes, to, m)[a][Len(boxes[a]) + 1] = m
    BY PostedAt
<1>2. ASSUME NEW q, ~NoneAbout(boxes, q) PROVE ~NoneAbout(Post(boxes, to, m), q)
  <2>1. PICK a \in Agents : \E i \in 1..Len(boxes[a]) : boxes[a][i].restock = q
    BY <1>2, AboutAt
  <2>2. PICK i \in 1..Len(boxes[a]) : boxes[a][i].restock = q
    BY <2>1
  <2>3. i \in 1..Len(Post(boxes, to, m)[a]) /\ Post(boxes, to, m)[a][i].restock = q
    BY <1>1, <2>2
  <2> QED BY <2>3, AboutAt
<1>3. ASSUME to \in Agents PROVE ~NoneAbout(Post(boxes, to, m), m.restock)
  <2> DEFINE k == Len(boxes[to]) + 1
  <2>1. k \in 1..Len(Post(boxes, to, m)[to]) /\ Post(boxes, to, m)[to][k].restock = m.restock
    BY <1>1, <1>3
  <2> HIDE DEF k
  <2> QED BY <1>3, <2>1, AboutAt
<1> QED BY <1>2, <1>3

(* A step about restock r alone, in whose place r can be found again.      *)
LEMMA FoundStep ==
    ASSUME NothingIsLost, NEW boxes, NEW o, NEW e, NEW l, NEW r,
           \A q \in Restocks \ {r} : /\ o[q] = orderer[q] /\ e[q] = eta[q] /\ l[q] = landed[q]
                                     /\ ~NoneAbout(box, q) => ~NoneAbout(boxes, q),
           r \in Restocks => ~NoneAbout(boxes, r) \/ e[r] # NoShipment \/ l[r] > 0
    PROVE  Found(boxes, o, e, l)
BY DEF NothingIsLost, Found

LEMMA FoundKeeps ==
    ASSUME RestockInv, NothingIsLost, [Next]_vars
    PROVE  NothingIsLost'
<1>1. OldTypes
    BY ReadTypes
<1>2. SUFFICES Found(box', orderer', eta', landed')
    BY DEF NothingIsLost
<1>3. ASSUME UNCHANGED <<box, orderer, eta, landed>>
      PROVE  Found(box', orderer', eta', landed')
    BY <1>3 DEF NothingIsLost, Found, NoneAbout, Held
<1>4. ASSUME NEW s \in Sellers, OnInventoryLevels(s)
      PROVE  Found(box', orderer', eta', landed')
  <2>1. UNCHANGED <<eta, landed>>
    BY <1>4 DEF OnInventoryLevels
  <2>2. ASSUME NEW r \in Restocks, SupplierOf[s] # NoSupplier,
               orderer' = [orderer EXCEPT ![r] = s],
               box' = Post(box, SupplierOf[s], Mail("restock_order", s, r))
        PROVE  Found(box', orderer', eta', landed')
    <3>1. SupplierOf[s] \in Agents
      BY <2>2, RestockAssumption DEF Agents
    <3>2. Mail("restock_order", s, r).restock = r
      BY DEF Mail
    <3>3. /\ \A q : ~NoneAbout(box, q) => ~NoneAbout(box', q)
          /\ ~NoneAbout(box', r)
      BY <1>1, <2>2, <3>1, <3>2, PostedIsThere DEF OldTypes
    <3>4. \A q \in Restocks \ {r} : orderer'[q] = orderer[q]
      BY <1>1, <2>2 DEF OldTypes
    <3> QED BY <2>1, <3>3, <3>4, FoundStep
  <2> QED BY <1>3, <1>4, <2>1, <2>2 DEF OnInventoryLevels
<1>5. ASSUME NEW s \in Sellers, OnRestockDelivered(s)
      PROVE  Found(box', orderer', eta', landed')
  <2>1. PICK r \in Restocks :
            /\ Receives(s, "restock_delivered", r) /\ box' = Popped(s)
            /\ landed' = [landed EXCEPT ![r] = @ + 1]
            /\ UNCHANGED <<orderer, eta>>
    BY <1>5 DEF OnRestockDelivered
  <2>2. box \in Boxes /\ Len(box[s]) > 0 /\ Head(box[s]).restock = r /\ s \in Agents
    BY <2>1, ReceivesFacts DEF Agents, Receives
  <2>3. \A q \in Restocks \ {r} : /\ landed'[q] = landed[q]
                                  /\ ~NoneAbout(box, q) => ~NoneAbout(box', q)
    BY <1>1, <2>1, <2>2, OthersStay DEF OldTypes
  <2>4. landed'[r] > 0
    BY <1>1, <2>1 DEF OldTypes
  <2> QED BY <2>1, <2>3, <2>4, FoundStep
<1>6. ASSUME NEW p \in Suppliers, OnRestockOrder(p)
      PROVE  Found(box', orderer', eta', landed')
  <2>1. PICK r \in Restocks :
            /\ Receives(p, "restock_order", r)
            /\ box' = Post(Popped(p), Transport, Mail("ship_request", p, r))
            /\ UNCHANGED <<sellerVars, eta>>
    BY <1>6 DEF OnRestockOrder
  <2>2. /\ box \in Boxes /\ Popped(p) \in Boxes /\ Len(box[p]) > 0
        /\ Head(box[p]).restock = r /\ p \in Agents /\ Transport \in Agents
    BY <2>1, ReceivesFacts DEF Agents, Receives
  <2>3. Mail("ship_request", p, r).restock = r
    BY DEF Mail
  <2>4. /\ ~NoneAbout(box', r)
        /\ \A q \in Restocks \ {r} : ~NoneAbout(box, q) => ~NoneAbout(box', q)
    BY <2>1, <2>2, <2>3, OthersStay, PostedIsThere
  <2> QED BY <2>1, <2>4, FoundStep DEF sellerVars
<1>7. ASSUME NEW p \in Suppliers, OnDeliveryComplete(p)
      PROVE  Found(box', orderer', eta', landed')
  <2>1. PICK r \in Restocks :
            /\ Receives(p, "delivery_complete", r)
            /\ IF Entry(r) = {} THEN box' = Popped(p)
               ELSE \E q \in Entry(r) :
                    box' = Post(Popped(p), filled[q], Mail("restock_delivered", p, q))
            /\ UNCHANGED <<sellerVars, filled, eta>>
    BY <1>7 DEF OnDeliveryComplete
  <2>2. /\ box \in Boxes /\ Popped(p) \in Boxes /\ Len(box[p]) > 0 /\ r \in Restocks
        /\ Right(p, Head(box[p]), orderer, filled, eta, landed)
        /\ Head(box[p]).restock = r /\ Head(box[p]).type = "delivery_complete" /\ p \in Agents
    BY <2>1, ReceivesFacts DEF Agents, Receives
  <2>3. filled[r] \in Sellers /\ filled[r] # NoSeller /\ filled[r] \in Agents
    BY <2>2, RestockAssumption DEF Right, Agents
  <2>4. r \in Entry(r) /\ \A q \in Entry(r) : q = r
    BY <2>2, <2>3 DEF Entry, SupplierKey, Text
  <2>5. box' = Post(Popped(p), filled[r], Mail("restock_delivered", p, r))
    BY <2>1, <2>4
  <2>6. Mail("restock_delivered", p, r).restock = r
    BY DEF Mail
  <2>7. /\ ~NoneAbout(box', r)
        /\ \A q \in Restocks \ {r} : ~NoneAbout(box, q) => ~NoneAbout(box', q)
    BY <2>2, <2>3, <2>5, <2>6, OthersStay, PostedIsThere
  <2> QED BY <2>1, <2>7, FoundStep DEF sellerVars
<1>8. ASSUME OnShipRequest
      PROVE  Found(box', orderer', eta', landed')
  <2>1. PICK r \in Restocks, ticks \in BaseTransit..(BaseTransit + Jitter) :
            /\ Receives(Transport, "ship_request", r) /\ box' = Popped(Transport)
            /\ eta' = [eta EXCEPT ![r] = ticks]
            /\ UNCHANGED <<sellerVars, filled>>
    BY <1>8 DEF OnShipRequest
  <2>2. /\ box \in Boxes /\ Len(box[Transport]) > 0
        /\ Head(box[Transport]).restock = r /\ Transport \in Agents
    BY <2>1, ReceivesFacts DEF Agents, Receives
  <2>3. \A q \in Restocks \ {r} : /\ eta'[q] = eta[q]
                                  /\ ~NoneAbout(box, q) => ~NoneAbout(box', q)
    BY <1>1, <2>1, <2>2, OthersStay DEF OldTypes
  <2>4. eta'[r] # NoShipment
    BY <1>1, <2>1, RestockAssumption DEF OldTypes, NoShipment
  <2> QED BY <2>1, <2>3, <2>4, FoundStep DEF sellerVars
<1>9. ASSUME UpdateTracking
      PROVE  Found(box', orderer', eta', landed')
  <2>1. UNCHANGED <<orderer, landed>> /\ \A r \in Restocks : eta'[r] = Kept(eta[r])
    BY <1>9 DEF UpdateTracking, sellerVars
  <2> DEFINE mine(a) == {r \in Restocks : eta[r] = 0 /\ SupplierOf[orderer[r]] = a}
  <2>2. \A a \in Agents : box'[a] = WithReports(box[a], mine(a))
    BY <1>9 DEF UpdateTracking, Reports, WithReports
  <2>3. box \in Boxes /\ box' \in Boxes
    <3>1. Types'
      BY <1>9, UpdateTrackingKeeps
    <3> QED BY <1>1, <3>1 DEF OldTypes, Types, TypeOK, Boxes
  <2>4. \A a \in Agents : Len(box'[a]) \in Nat
    BY <2>3, BoxTypes
  <2>5. ASSUME NEW a \in Agents
        PROVE  /\ Len(box[a]) \in Nat /\ Len(box[a]) <= Len(box'[a])
               /\ \A i \in 1..Len(box[a]) : box'[a][i] = box[a][i]
               /\ \A r \in mine(a) : \E i \in (Len(box[a]) + 1)..Len(box'[a]) :
                    box'[a][i] = Mail("delivery_complete", Transport, r)
    <3> DEFINE S == mine(a)
    <3>1. S \in SUBSET Restocks /\ box'[a] = WithReports(box[a], S)
      BY <2>2
    <3> DEFINE n == Len(box'[a])
    <3>2. n \in Nat /\ n = Len(WithReports(box[a], S))
      BY <2>4, <3>1
    <3> HIDE DEF S, n
    <3>3. /\ Len(box[a]) \in Nat /\ Len(box[a]) <= n
          /\ \A i \in 1..Len(box[a]) : WithReports(box[a], S)[i] = box[a][i]
          /\ \A r \in S : \E i \in (Len(box[a]) + 1)..n :
                WithReports(box[a], S)[i] = Mail("delivery_complete", Transport, r)
      BY <2>3, <3>1, <3>2, ReportedAt, ZenonT(30)
    <3> QED BY <3>1, <3>3 DEF S, n
  <2>6. ASSUME NEW q, ~NoneAbout(box, q) PROVE ~NoneAbout(box', q)
    <3>1. PICK a \in Agents : \E i \in 1..Len(box[a]) : box[a][i].restock = q
      BY <2>6, AboutAt
    <3>2. PICK i \in 1..Len(box[a]) : box[a][i].restock = q
      BY <3>1
    <3>3. i \in 1..Len(box'[a]) /\ box'[a][i].restock = q
      BY <2>4, <2>5, <3>2
    <3> QED BY <3>3, AboutAt
  <2>7. ASSUME NEW r \in Restocks, eta[r] = 0 PROVE ~NoneAbout(box', r)
    <3>1. Placed(r, orderer, filled, eta, landed)
      BY DEF RestockInv, Hands, InGoodHands
    <3>2. SupplierOf[orderer[r]] \in Agents /\ r \in mine(SupplierOf[orderer[r]])
      BY <2>7, <3>1 DEF Placed, NoShipment, Agents
    <3> DEFINE a == SupplierOf[orderer[r]]
    <3>3. PICK i \in (Len(box[a]) + 1)..Len(box'[a]) :
              box'[a][i] = Mail("delivery_complete", Transport, r)
      BY <2>5, <3>2
    <3>4. i \in 1..Len(box'[a]) /\ box'[a][i].restock = r
      BY <2>4, <2>5, <3>2, <3>3 DEF Mail
    <3> HIDE DEF a
    <3> QED BY <3>2, <3>4, AboutAt DEF a
  <2>8. \A r \in Restocks : eta[r] # NoShipment /\ eta[r] # 0 => eta'[r] # NoShipment
    BY <2>1 DEF Kept
  <2> SUFFICES ASSUME NEW r \in Restocks, orderer'[r] \in Sellers
               PROVE  ~NoneAbout(box', r) \/ eta'[r] # NoShipment \/ landed'[r] > 0
    BY DEF Found
  <2>9. ~NoneAbout(box, r) \/ eta[r] # NoShipment \/ landed[r] > 0
    BY <2>1 DEF Found, NothingIsLost
  <2> HIDE DEF mine
  <2> QED BY <2>1, <2>6, <2>7, <2>8, <2>9
<1>10. ASSUME EndTick
       PROVE  Found(box', orderer', eta', landed')
  <2>1. /\ UNCHANGED <<box, orderer, landed>>
        /\ \A r \in Restocks : eta'[r] = CountDown(eta[r])
    BY <1>10 DEF EndTick, NewTick
  <2>2. \A r \in Restocks : eta'[r] = NoShipment <=> eta[r] = NoShipment
    BY <1>1, <2>1, RestockAssumption DEF OldTypes, CountDown, NoShipment
  <2> QED BY <2>1, <2>2 DEF NothingIsLost, Found, NoneAbout, Held
<1>11. CASE \E s \in Sellers : Sells(s) \/ TakesBack(s) \/ SellerFires(s)
    BY <1>3, <1>11 DEF Sells, TakesBack, SellerFires
<1>12. CASE \E p \in Suppliers : ProduceGoods(p)
    BY <1>3, <1>12 DEF ProduceGoods, sellerVars
<1>13. CASE UNCHANGED vars
    BY <1>3, <1>13 DEF vars
<1> QED BY <1>4, <1>5, <1>6, <1>7, <1>8, <1>9, <1>10, <1>11, <1>12, <1>13
         DEF Next, Turns, SellerStep, SupplierStep
-----------------------------------------------------------------------------
(* Where the messages of a type about a restock are; UnderWay counts them. *)
Places(type, r) ==
    UNION {{<<a, i>> : i \in {j \in DOMAIN box[a] :
        box[a][j].type = type /\ box[a][j].restock = r}} : a \in Agents}

LEMMA PlacesAre ==
    ASSUME box \in Boxes, NEW type, NEW r
    PROVE  /\ \A p \in Places(type, r) : \E a \in Agents : \E i \in 1..Len(box[a]) :
                p = <<a, i>> /\ box[a][i].type = type /\ box[a][i].restock = r
           /\ \A a \in Agents : \A i \in 1..Len(box[a]) :
                box[a][i].type = type /\ box[a][i].restock = r => <<a, i>> \in Places(type, r)
<1>1. \A a \in Agents : DOMAIN box[a] = 1..Len(box[a])
    BY LenProperties, BoxTypes
<1> QED BY <1>1 DEF Places

(* One message about r, or none, counted by type.                          *)
LEMMA CountOfOne ==
    ASSUME box \in Boxes, OneEach(box), NEW a \in Agents, NEW i \in 1..Len(box[a]), NEW type
    PROVE  UnderWay(type, box[a][i].restock) = IF box[a][i].type = type THEN 1 ELSE 0
<1> DEFINE r == box[a][i].restock
<1>1. UnderWay(type, r) = Cardinality(Places(type, r))
    BY DEF UnderWay, Places
<1>2. \A b \in Agents : \A j \in 1..Len(box[b]) : box[b][j].restock = r => b = a /\ j = i
    BY DEF OneEach
<1>3. \A p \in Places(type, r) : p = <<a, i>> /\ box[a][i].type = type
  <2> HIDE DEF r
  <2> SUFFICES ASSUME NEW p \in Places(type, r)
               PROVE  p = <<a, i>> /\ box[a][i].type = type
    OBVIOUS
  <2>1. PICK b \in Agents : \E j \in 1..Len(box[b]) :
            p = <<b, j>> /\ box[b][j].type = type /\ box[b][j].restock = r
    BY PlacesAre
  <2> QED BY <1>2, <2>1
<1>4. CASE box[a][i].type = type
  <2>1. Places(type, r) = {<<a, i>>}
    BY <1>3, <1>4, PlacesAre
  <2>2. Cardinality({<<a, i>>}) = 1
    BY FS_Singleton
  <2> QED BY <1>1, <1>4, <2>1, <2>2
<1>5. CASE box[a][i].type # type
  <2>1. Places(type, r) = {}
    BY <1>3, <1>5
  <2> QED BY <1>1, <1>5, <2>1, FS_EmptySet
<1> QED BY <1>4, <1>5

LEMMA CountOfNone ==
    ASSUME box \in Boxes, NEW r, NoneAbout(box, r), NEW type
    PROVE  UnderWay(type, r) = 0
<1>1. Places(type, r) = {}
    BY PlacesAre DEF NoneAbout, Held
<1> QED BY <1>1, FS_EmptySet DEF UnderWay, Places

LEMMA GoodsFollow ==
    ASSUME RestockInv, NothingIsLost
    PROVE  GoodsAreSomewhere
<1> SUFFICES ASSUME NEW r \in Restocks
             PROVE  UnderWay("restock_order", r) + UnderWay("ship_request", r)
                        + UnderWay("delivery_complete", r) + UnderWay("restock_delivered", r)
                        + (IF eta[r] = NoShipment THEN 0 ELSE 1) + landed[r]
                    = IF orderer[r] = NoSeller THEN 0 ELSE 1
    BY DEF GoodsAreSomewhere
<1>1. /\ OldTypes /\ box \in Boxes /\ OneEach(box) /\ Placed(r, orderer, filled, eta, landed)
      /\ \A a \in Agents : \A m \in Held(box, a) : Right(a, m, orderer, filled, eta, landed)
    BY ReadTypes DEF OldTypes, RestockInv, Hands, InGoodHands
<1>2. /\ landed[r] \in Nat /\ (landed[r] = 0 \/ landed[r] = 1)
      /\ orderer[r] \in Sellers <=> orderer[r] # NoSeller
    BY <1>1, RestockAssumption DEF OldTypes, Placed, Agents
<1>3. CASE NoneAbout(box, r)
  <2>1. /\ UnderWay("restock_order", r) = 0 /\ UnderWay("ship_request", r) = 0
        /\ UnderWay("delivery_complete", r) = 0 /\ UnderWay("restock_delivered", r) = 0
    BY <1>1, <1>3, CountOfNone
  <2>2. orderer[r] \in Sellers => eta[r] # NoShipment \/ landed[r] > 0
    BY <1>3 DEF NothingIsLost, Found
  <2> QED BY <1>1, <1>2, <2>1, <2>2 DEF Placed
<1>4. CASE ~NoneAbout(box, r)
  <2>1. PICK a \in Agents : \E i \in 1..Len(box[a]) : box[a][i].restock = r
    BY <1>4, AboutAt
  <2>2. PICK i \in 1..Len(box[a]) : box[a][i].restock = r
    BY <2>1
  <2> DEFINE t == box[a][i].type
  <2>3. t \in MessageTypes
    BY <1>1, BoxTypes DEF Message
  <2>4. \A type : UnderWay(type, r) = IF t = type THEN 1 ELSE 0
    BY <1>1, <2>2, CountOfOne
  <2>5. Right(a, box[a][i], orderer, filled, eta, landed)
    BY <1>1 DEF Held
  <2>6. orderer[r] \in Sellers /\ eta[r] = NoShipment /\ landed[r] = 0
    BY <2>2, <2>5 DEF Right
  <2> HIDE DEF t
  <2>7. /\ UnderWay("restock_order", r) = IF t = "restock_order" THEN 1 ELSE 0
        /\ UnderWay("ship_request", r) = IF t = "ship_request" THEN 1 ELSE 0
        /\ UnderWay("delivery_complete", r) = IF t = "delivery_complete" THEN 1 ELSE 0
        /\ UnderWay("restock_delivered", r) = IF t = "restock_delivered" THEN 1 ELSE 0
    BY <2>4
  <2> QED BY <1>2, <2>3, <2>6, <2>7 DEF MessageTypes
<1> QED BY <1>3, <1>4

LEMMA AlwaysFound == Spec => []NothingIsLost
<1>1. Init => RestockInv /\ NothingIsLost
  <2> SUFFICES ASSUME Init PROVE NothingIsLost
    BY InitInv
  <2> QED BY RestockAssumption DEF Init, NothingIsLost, Found, Agents
<1>2. RestockInv /\ NothingIsLost /\ [Next]_vars => RestockInv' /\ NothingIsLost'
    BY StepInv, FoundKeeps
<1> QED BY <1>1, <1>2, PTL DEF Spec

(* Whatever the agents do and in whatever order, a restock that was        *)
(* ordered is in exactly one place: one message in one queue, a shipment,  *)
(* or landed once.  No handler drops it and none doubles it.               *)
THEOREM GoodsAreNeverLost == Spec => []GoodsAreSomewhere
<1>1. RestockInv /\ NothingIsLost => GoodsAreSomewhere
    BY GoodsFollow
<1> QED BY <1>1, AlwaysInv, AlwaysFound, PTL
-----------------------------------------------------------------------------
(* A review gap in which a restock ordered on the answer to one review is  *)
(* in the answer to the next: a tick to the supplier, one to the transport *)
(* agent, the transit, one back to the supplier, one to the seller, one to *)
(* reach the rows and one between question and answer.                     *)
Transit == BaseTransit + Jitter
GapIsLong == ReviewGap >= Transit + 6

(* Ticks until the goods of a restock are in the rows that an answer is    *)
(* read from at the latest, once a message about it is read, and from now. *)
After(type) ==
    CASE type = "restock_order" -> Transit + 4
      [] type = "ship_request" -> Transit + 3
      [] type = "delivery_complete" -> 2
      [] type = "restock_delivered" -> 1
TicksLeft(type, isDue) == IF isDue THEN After(type) ELSE After(type) + 1

(* Ticks until a seller reads an answer.                                   *)
Until(s) == IF level[s] # NoLevel THEN 0 ELSE IF s \in asked THEN 1 ELSE wait[s] + 1
Untils == [s \in Sellers |-> Until(s)]

(* What is under way is in the rows before its seller reads an answer.     *)
MailInTime(boxes, d, o, u) ==
    \A a \in Agents : \A i \in 1..Len(boxes[a]) :
        TicksLeft(boxes[a][i].type, i <= d[a]) < u[o[boxes[a][i].restock]]
EtaInTime(e, o, u) ==
    \A r \in Restocks : e[r] # NoShipment => e[r] + 3 < u[o[r]]

(* So is what has landed.                                                  *)
SeenInTime ==
    \A r \in Restocks :
        IF landed[r] = 0 THEN seen[r] = NotSeen
        ELSE InAnswers - seen[r] <= Untils[orderer[r]]

(* Where the clocks of a seller and of the transport agent stand.          *)
Clocks ==
    /\ \A s \in Sellers :
        /\ s \in asked => s \in fired /\ wait[s] = ReviewGap
        /\ s \in fired => level[s] = NoLevel /\ wait[s] > 0
        /\ level[s] # NoLevel => wait[s] = ReviewGap - 1 /\ s \notin asked
    /\ Transport \in fired => \A r \in Restocks : eta[r] # 0

InTime ==
    /\ Clocks /\ MailInTime(box, due, orderer, Untils) /\ EtaInTime(eta, orderer, Untils)
    /\ SeenInTime

AfterNat == \A type \in MessageTypes : After(type) \in Nat

LEMMA AfterIsNat == AfterNat
BY RestockAssumption DEF AfterNat, After, MessageTypes, Transit

LEMMA UntilIsNat ==
    ASSUME OldTypes PROVE Untils \in [Sellers -> Nat]
BY RestockAssumption DEF OldTypes, Untils, Until

(* Reading a message leaves what is due of the rest due.                   *)
LEMMA ReadInTime ==
    ASSUME box \in Boxes, due \in [Agents -> Nat], NEW a \in Agents, Len(box[a]) > 0,
           due[a] > 0, due' = [due EXCEPT ![a] = @ - 1],
           NEW o, NEW u, MailInTime(box, due, o, u)
    PROVE  MailInTime(Popped(a), due', o, u)
<1> SUFFICES ASSUME NEW b \in Agents, NEW i \in 1..Len(Popped(a)[b])
             PROVE  TicksLeft(Popped(a)[b][i].type, i <= due'[b])
                        < u[o[Popped(a)[b][i].restock]]
    BY DEF MailInTime
<1> DEFINE j == IF b = a THEN i + 1 ELSE i
<1>1. /\ Len(box[b]) \in Nat
      /\ Len(Popped(a)[b]) = IF b = a THEN Len(box[b]) - 1 ELSE Len(box[b])
      /\ Popped(a)[b][i] = box[b][j]
    BY TakenAt
<1>2. j \in 1..Len(box[b]) /\ (i <= due'[b] <=> j <= due[b])
    BY <1>1
<1> HIDE DEF j
<1>3. TicksLeft(box[b][j].type, j <= due[b]) < u[o[box[b][j].restock]]
    BY <1>2 DEF MailInTime
<1> QED BY <1>1, <1>2, <1>3 DEF TicksLeft

(* What is posted is not due in this tick.                                 *)
LEMMA PostInTime ==
    ASSUME NEW boxes \in Boxes, NEW d \in [Agents -> Nat], NEW to, NEW m, NEW o, NEW u,
           \A a \in Agents : d[a] <= Len(boxes[a]),
           MailInTime(boxes, d, o, u), After(m.type) + 1 < u[o[m.restock]]
    PROVE  MailInTime(Post(boxes, to, m), d, o, u)
<1> DEFINE new == Post(boxes, to, m)
<1> SUFFICES ASSUME NEW a \in Agents, NEW i \in 1..Len(new[a])
             PROVE  TicksLeft(new[a][i].type, i <= d[a]) < u[o[new[a][i].restock]]
    BY DEF MailInTime
<1>1. /\ Len(boxes[a]) \in Nat
      /\ Len(new[a]) = IF a = to THEN Len(boxes[a]) + 1 ELSE Len(boxes[a])
      /\ \A k \in 1..Len(boxes[a]) : new[a][k] = boxes[a][k]
      /\ a = to => new[a][Len(boxes[a]) + 1] = m
    BY PostedAt
<1> HIDE DEF new
<1>2. CASE i \in 1..Len(boxes[a])
    BY <1>1, <1>2 DEF MailInTime
<1>3. CASE i \notin 1..Len(boxes[a])
  <2>1. a = to /\ i = Len(boxes[a]) + 1 /\ ~(i <= d[a])
    BY <1>1, <1>3
  <2> QED BY <1>1, <2>1 DEF TicksLeft
<1> QED BY <1>2, <1>3

(* The books of restock r change, about which there is no message.         *)
LEMMA OthersInTime ==
    ASSUME NEW boxes \in Boxes, NEW d, NEW o, NEW n, NEW u, NEW v, NEW r,
           MailInTime(boxes, d, o, u), NoneAbout(boxes, r),
           \A q \in Restocks \ {r} : ~NoneAbout(boxes, q) => n[q] = o[q] /\ v[o[q]] = u[o[q]]
    PROVE  MailInTime(boxes, d, n, v)
<1> SUFFICES ASSUME NEW a \in Agents, NEW i \in 1..Len(boxes[a])
             PROVE  TicksLeft(boxes[a][i].type, i <= d[a]) < v[n[boxes[a][i].restock]]
    BY DEF MailInTime
<1>1. boxes[a][i].restock \in Restocks
    BY BoxTypes DEF Message
<1>2. ~NoneAbout(boxes, boxes[a][i].restock)
    BY AboutAt
<1>3. TicksLeft(boxes[a][i].type, i <= d[a]) < u[o[boxes[a][i].restock]]
    BY DEF MailInTime
<1> QED BY <1>1, <1>2, <1>3
-----------------------------------------------------------------------------
(* A seller that reads an answer has nothing under way.                    *)
LEMMA AllLanded ==
    ASSUME RestockInv, NothingIsLost, InTime, NEW s \in Sellers, level[s] # NoLevel,
           NEW r \in Restocks, orderer[r] = s
    PROVE  landed[r] > 0 /\ NoneAbout(box, r) /\ eta[r] = NoShipment
<1>1. OldTypes /\ Untils[s] = 0
    BY ReadTypes DEF Untils, Until
<1>2. NoneAbout(box, r)
  <2> SUFFICES ASSUME NEW a \in Agents, NEW i \in 1..Len(box[a]), box[a][i].restock = r
               PROVE  FALSE
    BY AboutAt
  <2> DEFINE t == box[a][i].type
             n == TicksLeft(t, i <= due[a])
  <2>1. n < 0
    BY <1>1 DEF InTime, MailInTime
  <2>2. t \in MessageTypes
    BY <1>1, BoxTypes DEF Message, OldTypes
  <2> HIDE DEF t
  <2>3. n \in Nat
    BY <2>2, AfterIsNat DEF AfterNat, TicksLeft
  <2> HIDE DEF n
  <2> QED BY <2>1, <2>3
<1>3. eta[r] = NoShipment
  <2>1. eta[r] # NoShipment => eta[r] + 3 < 0
    BY <1>1 DEF InTime, EtaInTime
  <2>2. eta[r] # NoShipment => eta[r] \in Nat
    BY <1>1, RestockAssumption DEF OldTypes
  <2> QED BY <2>1, <2>2
<1> QED BY <1>2, <1>3 DEF NothingIsLost, Found

LEMMA ClocksKeep ==
    ASSUME RestockInv, Clocks, [Next]_vars
    PROVE  Clocks'
<1>1. OldTypes
    BY ReadTypes
<1>2. ASSUME UNCHANGED <<fired, wait, asked, level, eta>> PROVE Clocks'
    BY <1>2 DEF Clocks
<1>3. ASSUME NEW s \in Sellers, OnInventoryLevels(s) PROVE Clocks'
  <2>1. UNCHANGED <<fired, wait, asked, eta>> /\ level' = [level EXCEPT ![s] = NoLevel]
    BY <1>3 DEF OnInventoryLevels
  <2> QED BY <1>1, <2>1 DEF Clocks, OldTypes
<1>4. ASSUME NEW s \in Sellers, SellerFires(s) PROVE Clocks'
  <2>1. /\ level[s] = NoLevel /\ fired' = fired \cup {s} /\ UNCHANGED <<level, eta>>
        /\ IF wait[s] = 0 THEN asked' = asked \cup {s} /\ wait' = [wait EXCEPT ![s] = ReviewGap]
           ELSE UNCHANGED <<asked, wait>>
    BY <1>4 DEF SellerFires, Fires, ReviewDue
  <2>2. s # Transport /\ s \notin fired
    BY <1>4, RestockAssumption DEF SellerFires, Fires, Now
  <2>3. wait[s] \in Nat /\ ReviewGap > 0
    BY <1>1, RestockAssumption DEF OldTypes
  <2>4. CASE wait[s] = 0
    <3>1. asked' = asked \cup {s} /\ wait'[s] = ReviewGap
          /\ \A x \in Sellers \ {s} : wait'[x] = wait[x]
      BY <1>1, <2>1, <2>4 DEF OldTypes
    <3> QED BY <2>1, <2>2, <2>3, <3>1 DEF Clocks
  <2>5. CASE wait[s] # 0
    BY <2>1, <2>2, <2>3, <2>5 DEF Clocks
  <2> QED BY <2>4, <2>5
<1>5. CASE OnShipRequest
  <2>1. UNCHANGED <<fired, wait, asked, level>> /\ Transport \notin fired
    BY <1>5 DEF OnShipRequest, Receives, Now, sellerVars
  <2> QED BY <2>1 DEF Clocks
<1>6. CASE UpdateTracking
  <2>1. /\ UNCHANGED <<wait, asked, level>> /\ fired' = fired \cup {Transport}
        /\ \A r \in Restocks : eta'[r] = Kept(eta[r])
    BY <1>6 DEF UpdateTracking, Fires, sellerVars
  <2>2. \A r \in Restocks : eta'[r] # 0
    BY <2>1 DEF Kept, NoShipment
  <2> QED BY <2>1, <2>2, RestockAssumption DEF Clocks
<1>7. ASSUME NEW p \in Suppliers, ProduceGoods(p) PROVE Clocks'
  <2>1. UNCHANGED <<wait, asked, level, eta>> /\ fired' = fired \cup {p}
    BY <1>7 DEF ProduceGoods, Fires, sellerVars
  <2> QED BY <2>1, RestockAssumption DEF Clocks
<1>8. CASE EndTick
  <2>1. /\ fired' = {} /\ asked' = {}
        /\ \A s \in Sellers : /\ wait'[s] = CountDown(wait[s])
                              /\ level'[s] = IF s \in asked THEN shown[s] ELSE NoLevel
    BY <1>8 DEF EndTick
  <2>2. \A s \in Sellers : s \in asked => wait[s] = ReviewGap
    BY DEF Clocks
  <2> QED BY <2>1, <2>2, RestockAssumption DEF Clocks, CountDown
<1>9. CASE \E s \in Sellers : Sells(s) \/ TakesBack(s) \/ OnRestockDelivered(s)
    BY <1>2, <1>9 DEF Sells, TakesBack, OnRestockDelivered, Receives
<1>10. CASE \E p \in Suppliers : OnRestockOrder(p) \/ OnDeliveryComplete(p)
    BY <1>2, <1>10 DEF OnRestockOrder, OnDeliveryComplete, Receives, sellerVars
<1>11. CASE UNCHANGED vars
    BY <1>2, <1>11 DEF vars
<1> QED BY <1>3, <1>4, <1>5, <1>6, <1>7, <1>8, <1>9, <1>10, <1>11
         DEF Next, Turns, SellerStep, SupplierStep
-----------------------------------------------------------------------------
(* The two bounds on what is under way.                                    *)
Bounds == MailInTime(box, due, orderer, Untils) /\ EtaInTime(eta, orderer, Untils)

(* What a message that is read says of the time left.                      *)
LEMMA ReadFacts ==
    ASSUME RestockInv, InTime, NEW a \in Agents, NEW type, NEW r, Receives(a, type, r)
    PROVE  /\ box \in Boxes /\ Popped(a) \in Boxes /\ due' \in [Agents -> Nat]
           /\ \A b \in Agents : due'[b] <= Len(Popped(a)[b])
           /\ NoneAbout(Popped(a), r) /\ r \in Restocks
           /\ MailInTime(Popped(a), due', orderer, Untils)
           /\ After(type) < Untils[orderer[r]]
<1>1. /\ box \in Boxes /\ Popped(a) \in Boxes /\ due' \in [Agents -> Nat] /\ r \in Restocks
      /\ \A b \in Agents : due'[b] <= Len(Popped(a)[b])
      /\ NoneAbout(Popped(a), r) /\ Len(box[a]) > 0
    BY ReceivesFacts
<1>2. /\ due[a] > 0 /\ due' = [due EXCEPT ![a] = @ - 1] /\ due \in [Agents -> Nat]
      /\ Head(box[a]).type = type /\ Head(box[a]).restock = r
    BY ReadTypes DEF Receives, OldTypes
<1>3. MailInTime(box, due, orderer, Untils)
    BY DEF InTime
<1>4. MailInTime(Popped(a), due', orderer, Untils)
    BY <1>1, <1>2, <1>3, ReadInTime
<1>5. box[a][1] = Head(box[a]) /\ 1 \in 1..Len(box[a]) /\ 1 <= due[a]
  <2>1. box[a] \in Seq(Message) /\ box[a] # <<>> /\ Len(box[a]) \in Nat
    BY <1>1, BoxTypes, EmptySeq
  <2>2. Head(box[a]) = box[a][1]
    BY <2>1, HeadTailProperties
  <2>3. due[a] \in Nat
    BY <1>2
  <2> QED BY <1>1, <1>2, <2>1, <2>2, <2>3
<1>6. TicksLeft(type, TRUE) < Untils[orderer[r]]
  <2>1. TicksLeft(box[a][1].type, 1 <= due[a]) < Untils[orderer[box[a][1].restock]]
    BY <1>3, <1>5 DEF MailInTime
  <2> QED BY <1>2, <1>5, <2>1 DEF TicksLeft
<1> QED BY <1>1, <1>4, <1>6 DEF TicksLeft

(* Steps that leave the queues, the shipments and the clocks alone.        *)
LEMMA BoundsStand ==
    ASSUME InTime, UNCHANGED <<box, due, orderer, eta>>,
           \A s \in Sellers : Until(s)' = Until(s)
    PROVE  Bounds'
<1>1. Untils' = Untils
    BY DEF Untils
<1> QED BY <1>1 DEF InTime, Bounds

LEMMA SellerFiresUntils ==
    ASSUME RestockInv, InTime, NEW s \in Sellers, SellerFires(s)
    PROVE  \A x \in Sellers : Until(x)' = Until(x)
<1>1. OldTypes
    BY ReadTypes
<1>2. /\ level' = level /\ level[s] = NoLevel /\ s \notin asked
      /\ IF wait[s] = 0 THEN asked' = asked \cup {s} /\ wait' = [wait EXCEPT ![s] = ReviewGap]
         ELSE UNCHANGED <<asked, wait>>
    BY DEF SellerFires, Fires, ReviewDue, InTime, Clocks, Now
<1>3. CASE wait[s] = 0
  <2>1. \A x \in Sellers \ {s} : wait'[x] = wait[x]
    BY <1>1, <1>2, <1>3 DEF OldTypes
  <2> QED BY <1>2, <1>3, <2>1 DEF Until
<1>4. CASE wait[s] # 0
    BY <1>2, <1>4 DEF Until
<1> QED BY <1>3, <1>4

LEMMA SellerFiresInTime ==
    ASSUME RestockInv, InTime, NEW s \in Sellers, SellerFires(s)
    PROVE  Bounds'
<1>1. UNCHANGED <<box, due, orderer, eta>>
    BY DEF SellerFires, Fires
<1> QED BY <1>1, SellerFiresUntils, BoundsStand

(* Who has read an answer has a review gap before the next.                *)
LEMMA OnInventoryLevelsUntils ==
    ASSUME RestockInv, InTime, NEW s \in Sellers, OnInventoryLevels(s)
    PROVE  /\ \A x \in Sellers \ {s} : Untils'[x] = Untils[x]
           /\ Untils'[s] = ReviewGap
<1>1. OldTypes
    BY ReadTypes
<1>2. /\ level[s] # NoLevel /\ level' = [level EXCEPT ![s] = NoLevel]
      /\ UNCHANGED <<wait, asked>>
    BY DEF OnInventoryLevels
<1>3. \A x \in Sellers \ {s} : level'[x] = level[x]
    BY <1>1, <1>2 DEF OldTypes
<1>4. s \notin asked /\ wait[s] = ReviewGap - 1 /\ level'[s] = NoLevel
    BY <1>1, <1>2 DEF InTime, Clocks, OldTypes
<1> QED BY <1>2, <1>3, <1>4, RestockAssumption DEF Untils, Until

LEMMA OnInventoryLevelsInTime ==
    ASSUME GapIsLong, RestockInv, NothingIsLost, InTime, NEW s \in Sellers, OnInventoryLevels(s)
    PROVE  Bounds'
<1>1. OldTypes
    BY ReadTypes
<1>2. /\ level[s] # NoLevel /\ level' = [level EXCEPT ![s] = NoLevel]
      /\ UNCHANGED <<due, wait, asked, eta>>
    BY DEF OnInventoryLevels
<1>3. /\ \A x \in Sellers \ {s} : Untils'[x] = Untils[x]
      /\ Untils'[s] = ReviewGap
    BY OnInventoryLevelsUntils
<1>4. \A r \in Restocks : orderer[r] = s => NoneAbout(box, r) /\ eta[r] = NoShipment
    BY <1>2, AllLanded
<1>5. MailInTime(box, due, orderer, Untils') /\ EtaInTime(eta, orderer, Untils')
  <2>1. MailInTime(box, due, orderer, Untils) /\ EtaInTime(eta, orderer, Untils)
    BY DEF InTime
  <2>2. box \in Boxes /\ \A a \in Agents : \A m \in Held(box, a) : orderer[m.restock] \in Sellers
    BY <1>1 DEF RestockInv, Hands, InGoodHands, Right, OldTypes
  <2>3. MailInTime(box, due, orderer, Untils')
    <3> SUFFICES ASSUME NEW a \in Agents, NEW i \in 1..Len(box[a])
                 PROVE  TicksLeft(box[a][i].type, i <= due[a])
                            < Untils'[orderer[box[a][i].restock]]
      BY DEF MailInTime
    <3>1. orderer[box[a][i].restock] \in Sellers /\ box[a][i].restock \in Restocks
          /\ ~NoneAbout(box, box[a][i].restock)
      BY <2>2, BoxTypes, AboutAt DEF Held, Message
    <3>2. orderer[box[a][i].restock] # s
      BY <1>4, <3>1
    <3> QED BY <1>3, <2>1, <3>1, <3>2 DEF MailInTime
  <2>4. EtaInTime(eta, orderer, Untils')
    <3>1. \A r \in Restocks : eta[r] # NoShipment => orderer[r] \in Sellers
      BY DEF RestockInv, Hands, InGoodHands, Placed
    <3> QED BY <1>3, <1>4, <2>1, <3>1 DEF EtaInTime
  <2> QED BY <2>3, <2>4
<1>6. CASE UNCHANGED <<orderer, record, box>>
    BY <1>2, <1>5, <1>6 DEF Bounds
<1>7. ASSUME NEW r \in Restocks, orderer[r] = NoSeller,
             orderer' = [orderer EXCEPT ![r] = s],
             box' = Post(box, SupplierOf[s], Mail("restock_order", s, r))
      PROVE  Bounds'
  <2> DEFINE m == Mail("restock_order", s, r)
  <2>1. m.type = "restock_order" /\ m.restock = r
    BY DEF Mail
  <2> HIDE DEF m
  <2>2. orderer'[r] = s /\ \A q \in Restocks \ {r} : orderer'[q] = orderer[q]
    BY <1>1, <1>7 DEF OldTypes
  <2>3. NoneAbout(box, r) /\ eta[r] = NoShipment
    <3>1. orderer[r] \notin Sellers
      BY <1>7, RestockAssumption DEF Agents
    <3>2. \A a \in Agents : \A n \in Held(box, a) : n.restock # r
      BY <3>1 DEF RestockInv, Hands, InGoodHands, Right
    <3>3. eta[r] = NoShipment
      BY <3>1 DEF RestockInv, Hands, InGoodHands, Placed
    <3> QED BY <3>2, <3>3 DEF NoneAbout
  <2>4. MailInTime(box, due, orderer', Untils')
    <3> DEFINE u == Untils'
               n == orderer'
    <3>1. MailInTime(box, due, orderer, u) /\ \A q \in Restocks \ {r} : n[q] = orderer[q]
      BY <1>5, <2>2
    <3> HIDE DEF u, n
    <3>2. MailInTime(box, due, n, u)
      BY <1>1, <2>3, <3>1, OthersInTime DEF OldTypes
    <3> QED BY <3>2 DEF u, n
  <2>5. After(m.type) + 1 < Untils'[orderer'[m.restock]]
    <3>1. After("restock_order") = Transit + 4 /\ Transit \in Nat
      BY RestockAssumption DEF After, Transit
    <3> QED BY <1>3, <2>1, <2>2, <3>1, RestockAssumption DEF GapIsLong
  <2>6. MailInTime(box', due, orderer', Untils')
    <3> DEFINE u == Untils'
               n == orderer'
    <3>1. MailInTime(box, due, n, u) /\ After(m.type) + 1 < u[n[m.restock]]
      BY <2>4, <2>5
    <3>2. \A a \in Agents : due[a] <= Len(box[a])
      BY DEF RestockInv, Types, DueIsThere
    <3> HIDE DEF u, n
    <3>3. MailInTime(Post(box, SupplierOf[s], m), due, n, u)
      BY <1>1, <3>1, <3>2, PostInTime DEF OldTypes
    <3> QED BY <1>7, <3>3 DEF u, n, m
  <2>7. EtaInTime(eta, orderer', Untils')
    BY <1>5, <2>2, <2>3 DEF EtaInTime
  <2> QED BY <1>2, <2>6, <2>7 DEF Bounds
<1> QED BY <1>6, <1>7 DEF OnInventoryLevels

(* A step of another agent leaves the clocks of the sellers alone.         *)
LEMMA UntilsStand ==
    ASSUME UNCHANGED <<wait, asked, level>> PROVE Untils' = Untils
BY DEF Untils, Until

LEMMA OnRestockDeliveredInTime ==
    ASSUME RestockInv, InTime, NEW s \in Sellers, OnRestockDelivered(s)
    PROVE  Bounds'
<1>1. PICK r \in Restocks :
            /\ Receives(s, "restock_delivered", r) /\ box' = Popped(s)
            /\ UNCHANGED <<wait, asked, level, orderer, eta>>
    BY DEF OnRestockDelivered
<1>2. MailInTime(Popped(s), due', orderer, Untils)
    BY <1>1, ReadFacts DEF Agents
<1>3. Untils' = Untils
    BY <1>1, UntilsStand
<1> QED BY <1>1, <1>2, <1>3 DEF Bounds, InTime

LEMMA OnRestockOrderInTime ==
    ASSUME RestockInv, InTime, NEW p \in Suppliers, OnRestockOrder(p)
    PROVE  Bounds'
<1>1. PICK r \in Restocks :
            /\ Receives(p, "restock_order", r)
            /\ box' = Post(Popped(p), Transport, Mail("ship_request", p, r))
            /\ UNCHANGED <<sellerVars, eta>>
    BY DEF OnRestockOrder
<1>2. /\ Popped(p) \in Boxes /\ due' \in [Agents -> Nat]
      /\ \A b \in Agents : due'[b] <= Len(Popped(p)[b])
      /\ MailInTime(Popped(p), due', orderer, Untils)
      /\ After("restock_order") < Untils[orderer[r]]
    BY <1>1, ReadFacts DEF Agents
<1> DEFINE m == Mail("ship_request", p, r)
<1>3. /\ m.type = "ship_request" /\ m.restock = r
      /\ After("ship_request") + 1 = After("restock_order")
    BY RestockAssumption DEF Mail, After, Transit
<1> HIDE DEF m
<1>4. MailInTime(Post(Popped(p), Transport, m), due', orderer, Untils)
  <2> DEFINE d == due'
             new == Popped(p)
  <2>1. /\ new \in Boxes /\ d \in [Agents -> Nat] /\ \A b \in Agents : d[b] <= Len(new[b])
        /\ MailInTime(new, d, orderer, Untils)
        /\ After(m.type) + 1 < Untils[orderer[m.restock]]
    BY <1>2, <1>3
  <2> HIDE DEF d, new
  <2>2. MailInTime(Post(new, Transport, m), d, orderer, Untils)
    BY <2>1, PostInTime
  <2> QED BY <2>2 DEF d, new
<1>5. Untils' = Untils /\ orderer' = orderer /\ eta' = eta
    BY <1>1, UntilsStand DEF sellerVars
<1> QED BY <1>1, <1>4, <1>5 DEF Bounds, InTime, m

LEMMA OnDeliveryCompleteInTime ==
    ASSUME RestockInv, InTime, NEW p \in Suppliers, OnDeliveryComplete(p)
    PROVE  Bounds'
<1>1. PICK r \in Restocks :
            /\ Receives(p, "delivery_complete", r)
            /\ IF Entry(r) = {} THEN box' = Popped(p)
               ELSE \E q \in Entry(r) :
                    box' = Post(Popped(p), filled[q], Mail("restock_delivered", p, q))
            /\ UNCHANGED <<sellerVars, filled, eta>>
    BY DEF OnDeliveryComplete
<1>2. /\ Popped(p) \in Boxes /\ due' \in [Agents -> Nat]
      /\ \A b \in Agents : due'[b] <= Len(Popped(p)[b])
      /\ MailInTime(Popped(p), due', orderer, Untils)
      /\ After("delivery_complete") < Untils[orderer[r]]
    BY <1>1, ReadFacts DEF Agents
<1>3. Untils' = Untils /\ orderer' = orderer /\ eta' = eta
    BY <1>1, UntilsStand DEF sellerVars
<1>4. CASE box' = Popped(p)
    BY <1>2, <1>3, <1>4 DEF Bounds, InTime
<1>5. CASE box' = Post(Popped(p), filled[r], Mail("restock_delivered", p, r))
  <2> DEFINE m == Mail("restock_delivered", p, r)
             d == due'
             new == Popped(p)
             to == filled[r]
  <2>1. /\ m.type = "restock_delivered" /\ m.restock = r
        /\ After("restock_delivered") + 1 = After("delivery_complete")
    BY RestockAssumption DEF Mail, After
  <2> HIDE DEF m
  <2>2. /\ new \in Boxes /\ d \in [Agents -> Nat] /\ \A b \in Agents : d[b] <= Len(new[b])
        /\ MailInTime(new, d, orderer, Untils)
        /\ After(m.type) + 1 < Untils[orderer[m.restock]]
    BY <1>2, <2>1
  <2> HIDE DEF d, new, to
  <2>3. MailInTime(Post(new, to, m), d, orderer, Untils)
    BY <2>2, PostInTime
  <2> QED BY <1>3, <1>5, <2>3 DEF d, new, m, to, Bounds, InTime
<1>6. \A q \in Entry(r) : q = r
    BY DEF Entry, SupplierKey, Text
<1> QED BY <1>1, <1>4, <1>5, <1>6

LEMMA OnShipRequestInTime ==
    ASSUME RestockInv, InTime, OnShipRequest
    PROVE  Bounds'
<1>1. PICK r \in Restocks, ticks \in BaseTransit..(BaseTransit + Jitter) :
            /\ Receives(Transport, "ship_request", r) /\ box' = Popped(Transport)
            /\ eta' = [eta EXCEPT ![r] = ticks]
            /\ UNCHANGED <<sellerVars, filled>>
    BY DEF OnShipRequest
<1>2. /\ MailInTime(Popped(Transport), due', orderer, Untils) /\ NoneAbout(box', r)
      /\ After("ship_request") < Untils[orderer[r]]
      /\ Right(Transport, Head(box[Transport]), orderer, filled, eta, landed)
      /\ Head(box[Transport]).restock = r
    BY <1>1, ReadFacts, ReceivesFacts DEF Agents, Receives
<1>3. Untils' = Untils /\ orderer' = orderer
    BY <1>1, UntilsStand DEF sellerVars
<1>4. /\ eta'[r] = ticks /\ \A q \in Restocks \ {r} : eta'[q] = eta[q]
  <2>1. OldTypes
    BY ReadTypes
  <2> QED BY <1>1, <2>1 DEF OldTypes
<1>5. ticks + 3 < Untils[orderer[r]]
  <2> DEFINE n == Untils[orderer[r]]
  <2>1. After("ship_request") = BaseTransit + Jitter + 3
    BY DEF After, Transit
  <2>2. n \in Nat
    BY <1>2, ReadTypes, UntilIsNat DEF Right
  <2>3. BaseTransit + Jitter + 3 < n
    BY <1>2, <2>1
  <2> HIDE DEF n
  <2>4. ticks + 3 < n
    BY <2>2, <2>3, RestockAssumption
  <2> QED BY <2>4 DEF n
<1>6. EtaInTime(eta', orderer, Untils)
    BY <1>4, <1>5 DEF EtaInTime, InTime
<1> QED BY <1>1, <1>2, <1>3, <1>6 DEF Bounds

(* A shipment at its eta has three ticks left, and so has its report.      *)
LEMMA UpdateTrackingInTime ==
    ASSUME RestockInv, InTime, UpdateTracking
    PROVE  Bounds'
<1>1. /\ UNCHANGED <<due, wait, asked, level, orderer>>
      /\ \A r \in Restocks : eta'[r] = Kept(eta[r])
    BY DEF UpdateTracking, Fires, sellerVars
<1> DEFINE mine(a) == {r \in Restocks : eta[r] = 0 /\ SupplierOf[orderer[r]] = a}
<1>2. \A a \in Agents : box'[a] = WithReports(box[a], mine(a))
    BY DEF UpdateTracking, Reports, WithReports
<1>3. OldTypes /\ box \in Boxes /\ box' \in Boxes
  <2>1. Types'
    BY UpdateTrackingKeeps
  <2> QED BY <2>1, ReadTypes DEF OldTypes, Types, TypeOK, Boxes
<1>4. \A a \in Agents : Len(box'[a]) \in Nat
    BY <1>3, BoxTypes
<1>5. ASSUME NEW a \in Agents
      PROVE  /\ Len(box[a]) \in Nat
             /\ \A i \in 1..Len(box[a]) : box'[a][i] = box[a][i]
             /\ \A i \in (Len(box[a]) + 1)..Len(box'[a]) : \E r \in mine(a) :
                  box'[a][i] = Mail("delivery_complete", Transport, r)
  <2> DEFINE S == mine(a)
             n == Len(box'[a])
  <2>1. S \in SUBSET Restocks /\ box'[a] = WithReports(box[a], S)
    BY <1>2
  <2>2. n \in Nat /\ n = Len(WithReports(box[a], S))
    BY <1>4, <2>1
  <2> HIDE DEF S, n
  <2>3. /\ Len(box[a]) \in Nat
        /\ \A i \in 1..Len(box[a]) : WithReports(box[a], S)[i] = box[a][i]
        /\ \A i \in (Len(box[a]) + 1)..n : \E r \in S :
              WithReports(box[a], S)[i] = Mail("delivery_complete", Transport, r)
    BY <1>3, <2>1, <2>2, ReportedAt, ZenonT(30)
  <2> QED BY <2>1, <2>3 DEF S, n
<1>6. Untils' = Untils
    BY <1>1, UntilsStand
<1>7. MailInTime(box', due, orderer, Untils)
  <2> SUFFICES ASSUME NEW a \in Agents, NEW i \in 1..Len(box'[a])
               PROVE  TicksLeft(box'[a][i].type, i <= due[a])
                          < Untils[orderer[box'[a][i].restock]]
    BY DEF MailInTime
  <2>1. CASE i \in 1..Len(box[a])
    BY <1>5, <2>1 DEF InTime, MailInTime
  <2>2. CASE i \notin 1..Len(box[a])
    <3>1. i \in (Len(box[a]) + 1)..Len(box'[a])
      BY <1>4, <1>5, <2>2
    <3>2. PICK r \in mine(a) : box'[a][i] = Mail("delivery_complete", Transport, r)
      BY <1>5, <3>1
    <3>3. box'[a][i].type = "delivery_complete" /\ box'[a][i].restock = r
      BY <3>2 DEF Mail
    <3>4. ~(i <= due[a])
      <4>1. due[a] \in Nat /\ due[a] <= Len(box[a])
        BY <1>3 DEF RestockInv, Types, DueIsThere, OldTypes
      <4> QED BY <1>4, <1>5, <3>1, <4>1
    <3>5. TicksLeft("delivery_complete", i <= due[a]) = 3
      BY <3>4 DEF TicksLeft, After
    <3>6. 3 < Untils[orderer[r]]
      <4>1. eta[r] + 3 < Untils[orderer[r]]
        BY DEF InTime, EtaInTime, NoShipment
      <4> QED BY <4>1
    <3> QED BY <3>3, <3>5, <3>6
  <2> QED BY <2>1, <2>2
<1>8. EtaInTime(eta', orderer, Untils)
    BY <1>1 DEF EtaInTime, InTime, Kept
<1> QED BY <1>1, <1>6, <1>7, <1>8 DEF Bounds

LEMMA EndTickUntils ==
    ASSUME RestockInv, InTime, EndTick, NEW s \in Sellers
    PROVE  Untils[s] \in Nat \ {0} /\ Untils'[s] = Untils[s] - 1
<1>1. OldTypes
    BY ReadTypes
<1>2. /\ fired = Agents /\ asked' = {} /\ wait' = [x \in Sellers |-> CountDown(wait[x])]
      /\ level' = [x \in Sellers |-> IF x \in asked THEN shown[x] ELSE NoLevel]
    BY DEF EndTick
<1>3. /\ level[s] = NoLevel /\ wait[s] > 0 /\ wait[s] \in Nat /\ shown[s] # NoLevel
    BY <1>1, <1>2, RestockAssumption DEF InTime, Clocks, OldTypes, Agents
<1>4. CASE s \in asked
    BY <1>2, <1>3, <1>4 DEF Untils, Until
<1>5. CASE s \notin asked
  <2>1. level'[s] = NoLevel /\ wait'[s] = wait[s] - 1 /\ s \notin asked'
    BY <1>2, <1>3, <1>5 DEF CountDown
  <2> QED BY <1>3, <1>5, <2>1 DEF Untils, Until
<1> QED BY <1>4, <1>5

(* A tick goes by: everything that was posted falls due, every transit and *)
(* every wait is one tick shorter.                                         *)
LEMMA EndTickInTime ==
    ASSUME RestockInv, InTime, EndTick
    PROVE  Bounds'
<1>1. OldTypes
    BY ReadTypes
<1>2. /\ fired = Agents /\ UNCHANGED <<box, orderer>>
      /\ \A a \in Agents : due[a] = 0 /\ due'[a] = Len(box[a])
      /\ \A r \in Restocks : eta'[r] = CountDown(eta[r])
    BY DEF EndTick, NewTick
<1>3. ASSUME NEW s \in Sellers PROVE Untils[s] \in Nat /\ Untils'[s] = Untils[s] - 1
    BY EndTickUntils
<1>4. MailInTime(box', due', orderer', Untils')
  <2> SUFFICES ASSUME NEW a \in Agents, NEW i \in 1..Len(box[a])
               PROVE  TicksLeft(box[a][i].type, i <= due'[a])
                          < Untils'[orderer[box[a][i].restock]]
    BY <1>2 DEF MailInTime
  <2> DEFINE t == box[a][i].type
             s == orderer[box[a][i].restock]
  <2>1. Len(box[a]) \in Nat /\ t \in MessageTypes /\ s \in Sellers
    BY <1>1, BoxTypes DEF OldTypes, Message, RestockInv, Hands, InGoodHands, Right, Held
  <2>2. TicksLeft(t, i <= due[a]) < Untils[s]
    BY DEF InTime, MailInTime
  <2> HIDE DEF t, s
  <2>3. TicksLeft(t, i <= due[a]) = After(t) + 1 /\ TicksLeft(t, i <= due'[a]) = After(t)
    BY <1>2, <2>1 DEF TicksLeft
  <2>4. After(t) \in Nat
    BY <2>1, AfterIsNat DEF AfterNat
  <2>5. Untils[s] \in Nat /\ Untils'[s] = Untils[s] - 1
    BY <1>3, <2>1
  <2>6. After(t) < Untils'[s]
    BY <2>2, <2>3, <2>4, <2>5
  <2> QED BY <2>3, <2>6 DEF t, s
<1>5. EtaInTime(eta', orderer', Untils')
  <2> SUFFICES ASSUME NEW r \in Restocks, eta'[r] # NoShipment
               PROVE  eta'[r] + 3 < Untils'[orderer[r]]
    BY <1>2 DEF EtaInTime
  <2>1. eta[r] # 0
    BY <1>2 DEF InTime, Clocks, Agents
  <2>2. eta[r] # NoShipment /\ eta[r] \in Nat /\ eta'[r] = eta[r] - 1
    BY <1>1, <1>2, <2>1, RestockAssumption DEF CountDown, OldTypes, NoShipment
  <2>3. eta[r] + 3 < Untils[orderer[r]] /\ orderer[r] \in Sellers
    BY <2>2 DEF InTime, EtaInTime, RestockInv, Hands, InGoodHands, Placed
  <2>4. Untils[orderer[r]] \in Nat /\ Untils'[orderer[r]] = Untils[orderer[r]] - 1
    BY <1>3, <2>3
  <2> DEFINE n == Untils[orderer[r]]
             k == Untils'[orderer[r]]
  <2>5. n \in Nat /\ k = n - 1 /\ eta[r] + 3 < n
    BY <2>3, <2>4
  <2> HIDE DEF n, k
  <2>6. eta'[r] + 3 < k
    BY <2>2, <2>5
  <2> QED BY <2>6 DEF k
<1> QED BY <1>4, <1>5 DEF Bounds

LEMMA BoundsKeep ==
    ASSUME GapIsLong, RestockInv, NothingIsLost, InTime, [Next]_vars
    PROVE  Bounds'
<1>1. ASSUME UNCHANGED <<box, due, orderer, eta, wait, asked, level>> PROVE Bounds'
    BY <1>1, UntilsStand DEF InTime, Bounds
<1>2. CASE \E s \in Sellers : SellerStep(s)
  <2>1. ASSUME NEW s \in Sellers, Sells(s) \/ TakesBack(s) PROVE Bounds'
    BY <1>1, <2>1 DEF Sells, TakesBack
  <2> QED BY <1>2, <2>1, OnInventoryLevelsInTime, OnRestockDeliveredInTime, SellerFiresInTime
           DEF SellerStep
<1>3. CASE \E p \in Suppliers : SupplierStep(p)
  <2>1. ASSUME NEW p \in Suppliers, ProduceGoods(p) PROVE Bounds'
    BY <1>1, <2>1 DEF ProduceGoods, Fires, sellerVars
  <2> QED BY <1>3, <2>1, OnRestockOrderInTime, OnDeliveryCompleteInTime DEF SupplierStep
<1>4. CASE OnShipRequest \/ UpdateTracking \/ EndTick
    BY <1>4, OnShipRequestInTime, UpdateTrackingInTime, EndTickInTime
<1>5. CASE UNCHANGED vars
    BY <1>1, <1>5 DEF vars
<1> QED BY <1>2, <1>3, <1>4, <1>5 DEF Next, Turns

(* What has landed comes to be seen as the seller's next answer comes.     *)
LEMMA SeenKeeps ==
    ASSUME GapIsLong, RestockInv, NothingIsLost, InTime, [Next]_vars
    PROVE  SeenInTime'
<1>1. /\ OldTypes /\ Untils \in [Sellers -> Nat]
      /\ \A r \in Restocks : landed[r] \in {0, 1} /\ (landed[r] > 0 => orderer[r] \in Sellers)
    BY ReadTypes, UntilIsNat DEF RestockInv, Hands, InGoodHands, Placed
<1>2. ASSUME UNCHANGED <<landed, orderer, seen>>, \A s \in Sellers : Untils'[s] = Untils[s]
      PROVE  SeenInTime'
    BY <1>1, <1>2 DEF InTime, SeenInTime
<1>3. ASSUME NEW s \in Sellers, OnInventoryLevels(s) PROVE SeenInTime'
  <2>1. /\ landed' = landed /\ seen' = seen
        /\ \/ orderer' = orderer
           \/ \E r \in Restocks : orderer[r] = NoSeller /\ orderer' = [orderer EXCEPT ![r] = s]
    BY <1>3 DEF OnInventoryLevels
  <2>2. \A r \in Restocks : landed[r] > 0 => orderer'[r] = orderer[r]
    BY <1>1, <2>1, RestockAssumption DEF OldTypes, Agents
  <2>3. /\ \A x \in Sellers \ {s} : Untils'[x] = Untils[x]
        /\ Untils'[s] = ReviewGap /\ ReviewGap \in Nat /\ ReviewGap >= 2
    BY <1>3, OnInventoryLevelsUntils, RestockAssumption DEF GapIsLong, Transit
  <2> SUFFICES ASSUME NEW r \in Restocks, landed[r] > 0
               PROVE  InAnswers - seen[r] <= Untils'[orderer[r]]
    BY <1>1, <2>1, <2>2 DEF InTime, SeenInTime
  <2>4. InAnswers - seen[r] \in 0..2
    BY <1>1 DEF OldTypes, NotSeen, InRows, InAnswers
  <2>5. CASE orderer[r] = s
    BY <2>3, <2>4, <2>5
  <2>6. CASE orderer[r] # s
    BY <1>1, <2>3, <2>6 DEF InTime, SeenInTime
  <2> QED BY <2>5, <2>6
<1>4. ASSUME NEW s \in Sellers, OnRestockDelivered(s) PROVE SeenInTime'
  <2>1. PICK r \in Restocks :
            /\ Receives(s, "restock_delivered", r)
            /\ landed' = [landed EXCEPT ![r] = @ + 1]
            /\ UNCHANGED <<wait, asked, level, orderer>>
    BY <1>4 DEF OnRestockDelivered
  <2>2. s \in Agents /\ seen' = seen
    BY <2>1 DEF Agents, Receives
  <2>3. landed[r] = 0 /\ orderer[r] \in Sellers
    BY <2>1, <2>2, ReceivesFacts DEF Receives, Right
  <2>4. 1 < Untils[orderer[r]] /\ Untils' = Untils
    BY <2>1, <2>2, ReadFacts, UntilsStand DEF After
  <2>5. landed'[r] = 1 /\ seen[r] = NotSeen /\ \A q \in Restocks \ {r} : landed'[q] = landed[q]
    BY <1>1, <2>1, <2>3 DEF OldTypes, InTime, SeenInTime
  <2>6. InAnswers - seen[r] <= Untils[orderer[r]]
    BY <1>1, <2>3, <2>4, <2>5 DEF NotSeen, InAnswers
  <2> QED BY <2>1, <2>2, <2>4, <2>5, <2>6 DEF InTime, SeenInTime
<1>5. CASE EndTick
  <2>1. /\ UNCHANGED <<landed, orderer>>
        /\ \A r \in Restocks : seen'[r] = SeenNext(r)
    BY <1>5 DEF EndTick
  <2> SUFFICES ASSUME NEW r \in Restocks, landed[r] # 0
               PROVE  InAnswers - seen'[r] <= Untils'[orderer[r]]
    BY <2>1 DEF SeenInTime, SeenNext
  <2> DEFINE n == Untils[orderer[r]]
             k == Untils'[orderer[r]]
  <2>2. n \in Nat \ {0} /\ k = n - 1
    BY <1>1, <1>5, EndTickUntils
  <2>3. InAnswers - seen[r] <= n /\ seen[r] \in {NotSeen, InRows, InAnswers}
    BY <1>1 DEF InTime, SeenInTime, OldTypes
  <2>4. seen'[r] = IF seen[r] = NotSeen THEN InRows ELSE InAnswers
    BY <2>1 DEF SeenNext
  <2> HIDE DEF n, k
  <2>5. InAnswers - seen'[r] <= k
    BY <2>2, <2>3, <2>4 DEF NotSeen, InRows, InAnswers
  <2> QED BY <2>5 DEF k
<1>6. ASSUME NEW s \in Sellers, SellerFires(s) PROVE SeenInTime'
  <2>1. UNCHANGED <<landed, orderer, seen>>
    BY <1>6 DEF SellerFires, Fires
  <2> QED BY <1>2, <1>6, <2>1, SellerFiresUntils DEF Untils
<1>7. ASSUME UNCHANGED <<landed, orderer, seen, wait, asked, level>> PROVE SeenInTime'
    BY <1>2, <1>7, UntilsStand
<1>8. CASE \E s \in Sellers : Sells(s) \/ TakesBack(s)
    BY <1>7, <1>8 DEF Sells, TakesBack
<1>9. CASE \E p \in Suppliers : SupplierStep(p)
    BY <1>7, <1>9 DEF SupplierStep, OnRestockOrder, OnDeliveryComplete, ProduceGoods,
                      Receives, Fires, sellerVars
<1>10. CASE OnShipRequest \/ UpdateTracking
    BY <1>7, <1>10 DEF OnShipRequest, UpdateTracking, Receives, Fires, sellerVars
<1>11. CASE UNCHANGED vars
    BY <1>7, <1>11 DEF vars
<1> QED BY <1>3, <1>4, <1>5, <1>6, <1>8, <1>9, <1>10, <1>11 DEF Next, Turns, SellerStep

LEMMA InitInTime ==
    ASSUME Init PROVE InTime
<1>1. Clocks
    BY DEF Init, Clocks, NoShipment
<1>2. \A a \in Agents : Len(box[a]) = 0
    BY EmptySeq DEF Init, BusInit
<1>3. Bounds
    BY <1>2 DEF Bounds, MailInTime, EtaInTime, Init
<1>4. SeenInTime
    BY DEF Init, SeenInTime
<1> QED BY <1>1, <1>3, <1>4 DEF InTime, Bounds

(* With a review gap of at least the longest transit and six ticks the     *)
(* level a seller decides on has the goods of all it ordered before, so    *)
(* that nothing is ordered twice, although on_inventory_levels_result      *)
(* never looks at pending_restocks.                                        *)
THEOREM NothingIsOrderedTwice ==
    ASSUME GapIsLong
    PROVE  Spec => []LevelCountsRestocks
<1>1. Init => RestockInv /\ NothingIsLost /\ InTime
  <2> SUFFICES ASSUME Init PROVE NothingIsLost
    BY InitInv, InitInTime
  <2> QED BY RestockAssumption DEF Init, NothingIsLost, Found, Agents
<1>2. RestockInv /\ NothingIsLost /\ InTime /\ [Next]_vars
        => RestockInv' /\ NothingIsLost' /\ InTime'
  <2> SUFFICES ASSUME RestockInv, NothingIsLost, InTime, [Next]_vars
               PROVE  RestockInv' /\ NothingIsLost' /\ InTime'
    OBVIOUS
  <2>1. RestockInv' /\ NothingIsLost'
    BY StepInv, FoundKeeps
  <2>2. Clocks'
    BY ClocksKeep DEF InTime
  <2>3. Bounds' /\ SeenInTime'
    BY BoundsKeep, SeenKeeps
  <2> QED BY <2>1, <2>2, <2>3 DEF InTime, Bounds
<1>3. RestockInv /\ NothingIsLost /\ InTime => LevelCountsRestocks
  <2> SUFFICES ASSUME RestockInv, NothingIsLost, InTime,
                      NEW s \in Sellers, NEW r \in Restocks, level[s] # NoLevel, orderer[r] = s
               PROVE  seen[r] = InAnswers
    BY DEF LevelCountsRestocks
  <2>1. landed[r] > 0 /\ Untils[s] = 0
    BY AllLanded DEF Untils, Until
  <2>2. InAnswers - seen[r] <= 0
    BY <2>1 DEF InTime, SeenInTime
  <2>3. seen[r] \in {NotSeen, InRows, InAnswers}
    BY ReadTypes DEF OldTypes
  <2> QED BY <2>2, <2>3 DEF NotSeen, InRows, InAnswers
<1> QED BY <1>1, <1>2, <1>3, PTL DEF Spec
-----------------------------------------------------------------------------
(* A queue that keeps what it had, place by place, has it as a prefix.     *)
LEMMA PrefixByPlaces ==
    ASSUME NEW M, NEW s \in Seq(M), NEW t \in Seq(M), Len(s) <= Len(t),
           \A i \in 1..Len(s) : t[i] = s[i]
    PROVE  IsPrefix(s, t)
<1>1. Len(s) \in Nat /\ Len(t) \in Nat
    BY LenProperties
<1>2. /\ \A i \in 1..Len(s) : s[i] \in M
      /\ \A i \in 1..Len(t) : t[i] \in M
    BY ElementOfSeq
<1> DEFINE n == Len(s)
           u == SubSeq(s, 1, n)
           v == SubSeq(t, 1, n)
<1>3. u \in Seq(M) /\ Len(u) = n /\ \A i \in 1..n : u[i] = s[i]
  <2>1. /\ u \in Seq(M) /\ Len(u) = IF 1 <= n THEN n - 1 + 1 ELSE 0
        /\ \A i \in 1..(n - 1 + 1) : u[i] = s[1 + i - 1]
    BY <1>1, <1>2, SubSeqProperties
  <2>2. (IF 1 <= n THEN n - 1 + 1 ELSE 0) = n /\ n - 1 + 1 = n
    BY <1>1
  <2>3. \A i \in 1..n : 1 + i - 1 = i
    BY <1>1
  <2> HIDE DEF n, u
  <2> QED BY <2>1, <2>2, <2>3
<1>4. v \in Seq(M) /\ Len(v) = n /\ \A i \in 1..n : v[i] = t[i]
  <2>1. \A i \in 1..n : t[i] \in M
    BY <1>1, <1>2
  <2>2. /\ v \in Seq(M) /\ Len(v) = IF 1 <= n THEN n - 1 + 1 ELSE 0
        /\ \A i \in 1..(n - 1 + 1) : v[i] = t[1 + i - 1]
    BY <1>1, <2>1, SubSeqProperties
  <2>3. (IF 1 <= n THEN n - 1 + 1 ELSE 0) = n /\ n - 1 + 1 = n
    BY <1>1
  <2>4. \A i \in 1..n : 1 + i - 1 = i
    BY <1>1
  <2> HIDE DEF n, v
  <2> QED BY <2>2, <2>3, <2>4
<1>5. u = v
  <2>1. \A i \in 1..n : u[i] = v[i]
    BY <1>3, <1>4
  <2> HIDE DEF n, u, v
  <2> QED BY <1>3, <1>4, <2>1, SeqEqual
<1> QED BY <1>5 DEF IsPrefix

(* What a queue holds after a step: what it held, then what agent a sent.  *)
Grown(old, new, a) ==
    /\ new \in Boxes
    /\ \A b \in Agents :
        /\ Len(old[b]) <= Len(new[b])
        /\ \A i \in 1..Len(old[b]) : new[b][i] = old[b][i]
        /\ \A i \in (Len(old[b]) + 1)..Len(new[b]) : new[b][i].from = a

LEMMA ReadsAndSends ==
    ASSUME box \in Boxes, due \in [Agents -> Nat], NEW a \in Agents, Len(box[a]) > 0,
           due[a] > 0, due' = [due EXCEPT ![a] = @ - 1], Grown(Popped(a), box', a)
    PROVE  Works(a)
<1> DEFINE left == [box EXCEPT ![a] = SubSeq(@, 1 + 1, Len(@))]
<1>1. Popped(a) \in Boxes
  <2>1. box[a] \in Seq(Message) /\ box[a] # <<>>
    BY BoxTypes, EmptySeq
  <2>2. Tail(box[a]) \in Seq(Message)
    BY <2>1, HeadTailProperties
  <2> QED BY <2>2 DEF Popped, Boxes
<1>2. left = Popped(a)
  <2>1. box[a] \in Seq(Message) /\ box[a] # <<>>
    BY BoxTypes, EmptySeq
  <2>2. Tail(box[a]) = SubSeq(box[a], 2, Len(box[a])) /\ 1 + 1 = 2
    BY <2>1, TailIsSubSeq
  <2> QED BY <2>2 DEF Popped
<1>3. \A b \in Agents : IsPrefix(left[b], box'[b])
  <2>1. \A b \in Agents : left[b] \in Seq(Message) /\ box'[b] \in Seq(Message)
    BY <1>1, <1>2 DEF Boxes, Grown
  <2> HIDE DEF left
  <2> QED BY <1>2, <2>1, PrefixByPlaces DEF Grown
<1>4. 1 \in {0, 1} /\ 1 <= due[a]
    OBVIOUS
<1> QED BY <1>2, <1>3, <1>4 DEF Works, Grown

LEMMA OnlySends ==
    ASSUME box \in Boxes, due \in [Agents -> Nat], NEW a \in Agents, due' = due,
           Grown(box, box', a)
    PROVE  Works(a)
<1> DEFINE left == [box EXCEPT ![a] = SubSeq(@, 0 + 1, Len(@))]
<1>1. left = box
  <2>1. box[a] \in Seq(Message)
    BY DEF Boxes
  <2>2. SubSeq(box[a], 1, Len(box[a])) = box[a]
    BY <2>1, SubSeqFull
  <2>3. 0 + 1 = 1
    OBVIOUS
  <2> QED BY <2>2, <2>3 DEF Boxes
<1>2. \A b \in Agents : IsPrefix(left[b], box'[b])
  <2>1. \A b \in Agents : left[b] \in Seq(Message) /\ box'[b] \in Seq(Message)
    BY <1>1 DEF Boxes, Grown
  <2> HIDE DEF left
  <2> QED BY <1>1, <2>1, PrefixByPlaces DEF Grown
<1>3. \A b \in Agents :
        /\ IsPrefix(left[b], box'[b])
        /\ \A i \in (Len(left[b]) + 1)..Len(box'[b]) : box'[b][i].from = a
  <2> HIDE DEF left
  <2> QED BY <1>1, <1>2 DEF Grown
<1>4. due[a] \in Nat /\ [due EXCEPT ![a] = @ - 0] = due
    OBVIOUS
<1>5. 0 <= due[a] /\ due' = [due EXCEPT ![a] = @ - 0]
    BY <1>4
<1>6. \E n \in {0, 1} :
        LET rest == [box EXCEPT ![a] = SubSeq(@, n + 1, Len(@))]
        IN  /\ n <= due[a]
            /\ due' = [due EXCEPT ![a] = @ - n]
            /\ \A b \in Agents :
                /\ IsPrefix(rest[b], box'[b])
                /\ \A i \in (Len(rest[b]) + 1)..Len(box'[b]) : box'[b][i].from = a
  <2>1. 0 \in {0, 1}
    OBVIOUS
  <2> WITNESS 0 \in {0, 1}
  <2> QED BY ONLY <1>3, <1>5
<1> QED BY ONLY <1>6 DEF Works

LEMMA PostGrows ==
    ASSUME NEW boxes \in Boxes, NEW a, NEW to, NEW m \in Message, m.from = a
    PROVE  Grown(boxes, Post(boxes, to, m), a)
<1> DEFINE new == Post(boxes, to, m)
<1>1. new \in Boxes
  <2>1. \A b \in Agents : Append(boxes[b], m) \in Seq(Message)
    BY BoxTypes, AppendProperties
  <2> QED BY <2>1 DEF Post, Boxes
<1>2. \A b \in Agents :
        /\ Len(boxes[b]) \in Nat
        /\ Len(new[b]) = IF b = to THEN Len(boxes[b]) + 1 ELSE Len(boxes[b])
        /\ \A i \in 1..Len(boxes[b]) : new[b][i] = boxes[b][i]
        /\ b = to => new[b][Len(boxes[b]) + 1] = m
    BY PostedAt
<1> HIDE DEF new
<1>3. \A b \in Agents : \A i \in (Len(boxes[b]) + 1)..Len(new[b]) : new[b][i].from = a
  <2> TAKE b \in Agents
  <2> TAKE i \in (Len(boxes[b]) + 1)..Len(new[b])
  <2>1. b = to /\ i = Len(boxes[b]) + 1
    BY <1>2
  <2> QED BY <1>2, <2>1
<1>4. \A b \in Agents : Len(boxes[b]) <= Len(new[b])
    BY <1>2
<1>5. Grown(boxes, new, a)
    BY <1>1, <1>2, <1>3, <1>4 DEF Grown
<1> QED BY <1>5 DEF new

LEMMA NothingGrows ==
    ASSUME NEW boxes \in Boxes, NEW a PROVE Grown(boxes, boxes, a)
<1>1. \A b \in Agents : Len(boxes[b]) \in Nat
    BY BoxTypes
<1> QED BY <1>1 DEF Grown

(* A message is read and what it makes its reader send is posted.          *)
LEMMA HandlerWorks ==
    ASSUME RestockInv, NEW a \in Agents, NEW type, NEW r, Receives(a, type, r),
           Grown(Popped(a), box', a)
    PROVE  Works(a)
<1>1. box \in Boxes /\ Len(box[a]) > 0 /\ due \in [Agents -> Nat]
    BY ReceivesFacts, ReadTypes DEF OldTypes
<1>2. due[a] > 0 /\ due' = [due EXCEPT ![a] = @ - 1]
    BY DEF Receives
<1> QED BY <1>1, <1>2, ReadsAndSends

BusStep == NewTick \/ \E a \in Agents : Works(a)

LEMMA StepUsesBus ==
    ASSUME RestockInv, [Next]_vars
    PROVE  [BusStep]_busVars
<1>1. OldTypes
    BY ReadTypes
<1>2. ASSUME UNCHANGED <<box, due>> PROVE UNCHANGED busVars
    BY <1>2 DEF busVars
<1>3. ASSUME NEW s \in Sellers, OnInventoryLevels(s) PROVE [BusStep]_busVars
  <2>1. CASE UNCHANGED box
    BY <1>2, <1>3, <2>1 DEF OnInventoryLevels
  <2>2. ASSUME NEW r \in Restocks,
               box' = Post(box, SupplierOf[s], Mail("restock_order", s, r))
        PROVE  [BusStep]_busVars
    <3> DEFINE m == Mail("restock_order", s, r)
    <3>1. m \in Message /\ m.from = s /\ s \in Agents
      BY MailType DEF MessageTypes, Agents
    <3> HIDE DEF m
    <3>2. Grown(box, box', s)
      BY <1>1, <2>2, <3>1, PostGrows DEF OldTypes, m
    <3>3. due' = due
      BY <1>3 DEF OnInventoryLevels
    <3>4. Works(s)
      BY <1>1, <3>1, <3>2, <3>3, OnlySends DEF OldTypes
    <3> QED BY <3>1, <3>4 DEF BusStep
  <2> QED BY <1>3, <2>1, <2>2 DEF OnInventoryLevels
<1>4. ASSUME NEW s \in Sellers, OnRestockDelivered(s) PROVE [BusStep]_busVars
  <2>1. PICK r \in Restocks : Receives(s, "restock_delivered", r) /\ box' = Popped(s)
    BY <1>4 DEF OnRestockDelivered
  <2>2. Works(s) /\ s \in Agents
    BY <2>1, ReceivesFacts, NothingGrows, HandlerWorks DEF Agents
  <2> QED BY <2>2 DEF BusStep
<1>5. ASSUME NEW p \in Suppliers, OnRestockOrder(p) PROVE [BusStep]_busVars
  <2>1. PICK r \in Restocks :
            /\ Receives(p, "restock_order", r)
            /\ box' = Post(Popped(p), Transport, Mail("ship_request", p, r))
    BY <1>5 DEF OnRestockOrder
  <2> DEFINE m == Mail("ship_request", p, r)
  <2>2. m \in Message /\ m.from = p /\ p \in Agents
    BY MailType DEF MessageTypes, Agents
  <2> HIDE DEF m
  <2>3. Popped(p) \in Boxes
    BY <2>1, <2>2, ReceivesFacts
  <2>4. Grown(Popped(p), box', p)
    BY <2>1, <2>2, <2>3, PostGrows DEF m
  <2>5. Works(p)
    BY <2>1, <2>2, <2>4, HandlerWorks
  <2> QED BY <2>2, <2>5 DEF BusStep
<1>6. ASSUME NEW p \in Suppliers, OnDeliveryComplete(p) PROVE [BusStep]_busVars
  <2>1. PICK r \in Restocks :
            /\ Receives(p, "delivery_complete", r)
            /\ IF Entry(r) = {} THEN box' = Popped(p)
               ELSE \E q \in Entry(r) :
                    box' = Post(Popped(p), filled[q], Mail("restock_delivered", p, q))
    BY <1>6 DEF OnDeliveryComplete
  <2>2. p \in Agents /\ Popped(p) \in Boxes
    BY <2>1, ReceivesFacts DEF Agents
  <2>3. Grown(Popped(p), box', p)
    <3>1. CASE box' = Popped(p)
      BY <2>2, <3>1, NothingGrows
    <3>2. ASSUME NEW q \in Restocks,
                 box' = Post(Popped(p), filled[q], Mail("restock_delivered", p, q))
          PROVE  Grown(Popped(p), box', p)
      <4> DEFINE m == Mail("restock_delivered", p, q)
      <4>1. m \in Message /\ m.from = p
        BY <2>2, MailType DEF MessageTypes
      <4> HIDE DEF m
      <4> QED BY <2>2, <3>2, <4>1, PostGrows DEF m
    <3> QED BY <2>1, <3>1, <3>2 DEF Entry
  <2>4. Works(p)
    BY <2>1, <2>2, <2>3, HandlerWorks
  <2> QED BY <2>2, <2>4 DEF BusStep
<1>7. CASE OnShipRequest
  <2>1. PICK r \in Restocks : Receives(Transport, "ship_request", r) /\ box' = Popped(Transport)
    BY <1>7 DEF OnShipRequest
  <2>2. Works(Transport) /\ Transport \in Agents
    BY <2>1, ReceivesFacts, NothingGrows, HandlerWorks DEF Agents
  <2> QED BY <2>2 DEF BusStep
<1>8. CASE UpdateTracking
  <2>1. due' = due /\ Transport \in Agents
    BY <1>8 DEF UpdateTracking, Fires, Agents
  <2> DEFINE mine(a) == {r \in Restocks : eta[r] = 0 /\ SupplierOf[orderer[r]] = a}
  <2>2. \A a \in Agents : box'[a] = WithReports(box[a], mine(a))
    BY <1>8 DEF UpdateTracking, Reports, WithReports
  <2>3. box' \in Boxes
    <3>1. Types'
      BY <1>8, UpdateTrackingKeeps
    <3> QED BY <3>1 DEF Types, TypeOK, Boxes
  <2>4. \A a \in Agents : Len(box'[a]) \in Nat
    BY <2>3, BoxTypes
  <2>5. ASSUME NEW a \in Agents
        PROVE  /\ Len(box[a]) <= Len(box'[a])
               /\ \A i \in 1..Len(box[a]) : box'[a][i] = box[a][i]
               /\ \A i \in (Len(box[a]) + 1)..Len(box'[a]) : box'[a][i].from = Transport
    <3> DEFINE S == mine(a)
               n == Len(box'[a])
    <3>1. S \in SUBSET Restocks /\ box'[a] = WithReports(box[a], S)
      BY <2>2
    <3>2. n \in Nat /\ n = Len(WithReports(box[a], S))
      BY <2>4, <3>1
    <3> HIDE DEF S, n
    <3>3. /\ Len(box[a]) <= n
          /\ \A i \in 1..Len(box[a]) : WithReports(box[a], S)[i] = box[a][i]
          /\ \A i \in (Len(box[a]) + 1)..n : \E r \in S :
                WithReports(box[a], S)[i] = Mail("delivery_complete", Transport, r)
      BY <1>1, <3>1, <3>2, ReportedAt DEF OldTypes
    <3>4. \A r : Mail("delivery_complete", Transport, r).from = Transport
      BY DEF Mail
    <3> QED BY <3>1, <3>3, <3>4 DEF n
  <2>6. Grown(box, box', Transport)
    BY <2>3, <2>5 DEF Grown
  <2>7. Works(Transport)
    BY <1>1, <2>1, <2>6, OnlySends DEF OldTypes
  <2> QED BY <2>1, <2>7 DEF BusStep
<1>9. CASE EndTick
    BY <1>9 DEF EndTick, BusStep
<1>10. CASE \E s \in Sellers : Sells(s) \/ TakesBack(s) \/ SellerFires(s)
    BY <1>2, <1>10 DEF Sells, TakesBack, SellerFires, Fires
<1>11. CASE \E p \in Suppliers : ProduceGoods(p)
    BY <1>2, <1>11 DEF ProduceGoods, Fires
<1>12. CASE UNCHANGED vars
    BY <1>2, <1>12 DEF vars
<1> QED BY <1>3, <1>4, <1>5, <1>6, <1>7, <1>8, <1>9, <1>10, <1>11, <1>12
         DEF Next, Turns, SellerStep, SupplierStep

(* The agents use their queues as MessageBus lets them: every step reads   *)
(* at most the oldest due message of one agent and appends what that agent *)
(* sends, or begins the next tick when all that was due has been read.     *)
THEOREM RestockUsesBus == Spec => UsesBus
<1>1. Init => BusInit
    BY DEF Init
<1>2. RestockInv /\ [Next]_vars => [NewTick \/ \E a \in Agents : Works(a)]_busVars
    BY StepUsesBus DEF BusStep
<1> QED BY <1>1, <1>2, AlwaysInv, PTL DEF Spec, UsesBus, BusSpec
=============================================================================
