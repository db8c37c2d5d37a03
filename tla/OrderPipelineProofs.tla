------------------------ MODULE OrderPipelineProofs ------------------------
(***************************************************************************)
(* Proofs about OrderPipeline, for any agents, roster, orders and timing.  *)
(*                                                                         *)
(* The argument is about messages.  `Holds` says that a message of a type  *)
(* about an order is somewhere under way; the lemmas on boxes say what     *)
(* taking one message out and posting others does to it; the invariant     *)
(* then says, for each type of message, what the seller's record must say  *)
(* for as long as such a message is under way.                             *)
(***************************************************************************)
EXTENDS OrderPipeline, TLAPS, SequenceTheorems, FiniteSetTheorems

Boxes == [Agents -> Seq(Message)]

Holds(boxes, type, r) ==
    \E a \in Agents : \E i \in 1..Len(boxes[a]) :
        boxes[a][i].type = type /\ boxes[a][i].order = r

-----------------------------------------------------------------------------
(* Lemmas about boxes.                                                     *)

(* What Mail builds is a message.                                          *)
LEMMA MailType ==
    ASSUME NEW t \in MessageTypes, NEW f \in Agents, NEW r \in Requests
    PROVE  /\ Mail(t, f, r) \in Message
           /\ Mail(t, f, r).type = t /\ Mail(t, f, r).order = r
BY DEF Mail, Message

(* The enumeration of a set of orders is a sequence of its elements.       *)
LEMMA Enumeration ==
    ASSUME NEW S \in SUBSET Requests
    PROVE  /\ SetToSeq(S) \in Seq(S)
           /\ Len(SetToSeq(S)) \in Nat
           /\ \A i \in 1..Len(SetToSeq(S)) : SetToSeq(S)[i] \in S
<1>1. IsFiniteSet(S)
  BY AgentsAssumption, FS_Subset
<1>2. Cardinality(S) \in Nat /\ ExistsBijection(1..Cardinality(S), S)
  BY <1>1, FS_CardinalityType
<1>3. \E f \in [1..Cardinality(S) -> S] : IsInjective(f)
  BY <1>2 DEF ExistsBijection, Bijection, Injection
<1>4. SetToSeq(S) \in [1..Cardinality(S) -> S]
  BY <1>3 DEF SetToSeq
<1> QED
  BY <1>2, <1>4, IsASeq

(* Posting keeps the boxes typed and never shortens one.                   *)
LEMMA PostType ==
    ASSUME NEW boxes \in Boxes, NEW to, NEW m \in Message
    PROVE  /\ Post(boxes, to, m) \in Boxes
           /\ \A a \in Agents : Len(Post(boxes, to, m)[a]) >= Len(boxes[a])
<1>1. CASE to \in Agents
  <2>1. Append(boxes[to], m) \in Seq(Message) /\ Len(Append(boxes[to], m)) = Len(boxes[to]) + 1
    BY <1>1, AppendProperties DEF Boxes
  <2>2. \A a \in Agents : Len(boxes[a]) \in Nat
    BY LenProperties DEF Boxes
  <2> QED
    BY <1>1, <2>1, <2>2 DEF Post, Boxes
<1>2. CASE to \notin Agents
  <2>1. \A a \in Agents : Len(boxes[a]) \in Nat
    BY LenProperties DEF Boxes
  <2> QED
    BY <1>2, <2>1 DEF Post
<1> QED
  BY <1>1, <1>2

(* A message held after a posting was held before or is the one posted.    *)
LEMMA PostHolds ==
    ASSUME NEW boxes \in Boxes, NEW to, NEW m \in Message, NEW type, NEW r,
           Holds(Post(boxes, to, m), type, r)
    PROVE  Holds(boxes, type, r) \/ (m.type = type /\ m.order = r)
<1>1. CASE to \notin Agents
  BY <1>1 DEF Post
<1>2. CASE to \in Agents
  <2> DEFINE new == Post(boxes, to, m)
  <2>1. new[to] = Append(boxes[to], m) /\ \A a \in Agents \ {to} : new[a] = boxes[a]
    BY <1>2 DEF Post, Boxes
  <2>2. PICK a \in Agents : \E i \in 1..Len(new[a]) :
            new[a][i].type = type /\ new[a][i].order = r
    BY DEF Holds
  <2>3. PICK i \in 1..Len(new[a]) : new[a][i].type = type /\ new[a][i].order = r
    BY <2>2
  <2>4. CASE a # to
    BY <2>1, <2>3, <2>4 DEF Holds
  <2>5. CASE a = to
    <3>1. /\ Len(new[to]) = Len(boxes[to]) + 1
          /\ \A j \in 1..Len(boxes[to]) : new[to][j] = boxes[to][j]
          /\ new[to][Len(boxes[to]) + 1] = m
      BY <1>2, <2>1, AppendProperties DEF Boxes
    <3>2. Len(boxes[to]) \in Nat
      BY <1>2, LenProperties DEF Boxes
    <3>3. i \in 1..Len(boxes[to]) \/ i = Len(boxes[to]) + 1
      BY <2>3, <2>5, <3>1, <3>2
    <3> QED
      BY <1>2, <2>3, <2>5, <3>1, <3>3 DEF Holds
  <2> QED
    BY <2>4, <2>5
<1> QED
  BY <1>1, <1>2

(* Taking the oldest message out of a box moves the others up one place.   *)
LEMMA PopShifts ==
    ASSUME inbox \in Boxes, NEW a \in Agents, Len(inbox[a]) > 0
    PROVE  /\ Popped(a) \in Boxes
           /\ Head(inbox[a]) = inbox[a][1]
           /\ 1 \in 1..Len(inbox[a])
           /\ Len(Popped(a)[a]) = Len(inbox[a]) - 1
           /\ \A i \in 1..Len(Popped(a)[a]) :
                  Popped(a)[a][i] = inbox[a][i + 1] /\ i + 1 \in 1..Len(inbox[a])
           /\ \A b \in Agents \ {a} : Popped(a)[b] = inbox[b]
<1>1. inbox[a] \in Seq(Message) /\ inbox[a] # <<>> /\ Len(inbox[a]) \in Nat
  BY LenProperties, EmptySeq DEF Boxes
<1>2. /\ Tail(inbox[a]) \in Seq(Message)
      /\ Len(Tail(inbox[a])) = Len(inbox[a]) - 1
      /\ \A i \in 1..Len(Tail(inbox[a])) : Tail(inbox[a])[i] = inbox[a][i + 1]
  BY <1>1, HeadTailProperties
<1>3. Popped(a)[a] = Tail(inbox[a]) /\ \A b \in Agents \ {a} : Popped(a)[b] = inbox[b]
  BY DEF Popped, Boxes
<1>4. Popped(a) \in Boxes
  BY <1>2 DEF Popped, Boxes
<1>5. Head(inbox[a]) = inbox[a][1]
  BY <1>1
<1> QED
  BY <1>1, <1>2, <1>3, <1>4, <1>5

(* What is under way after a message was taken out was so before.          *)
LEMMA PopHolds ==
    ASSUME inbox \in Boxes, NEW a \in Agents, Len(inbox[a]) > 0, NEW type, NEW r,
           Holds(Popped(a), type, r)
    PROVE  Holds(inbox, type, r)
<1>1. PICK b \in Agents : \E i \in 1..Len(Popped(a)[b]) :
          Popped(a)[b][i].type = type /\ Popped(a)[b][i].order = r
  BY DEF Holds
<1>2. PICK i \in 1..Len(Popped(a)[b]) :
          Popped(a)[b][i].type = type /\ Popped(a)[b][i].order = r
  BY <1>1
<1>3. CASE a = b
  BY <1>2, <1>3, PopShifts DEF Holds
<1>4. CASE a # b
  BY <1>2, <1>4, PopShifts DEF Holds
<1> QED
  BY <1>3, <1>4

(* The message a handler takes out was under way.                          *)
LEMMA ReceivedHolds ==
    ASSUME inbox \in Boxes, NEW a \in Agents, Len(inbox[a]) > 0, NEW type, NEW r,
           Head(inbox[a]).type = type, Head(inbox[a]).order = r
    PROVE  Holds(inbox, type, r)
BY PopShifts DEF Holds

(* Posting to vendors adds messages of one type about the given orders.    *)
LEMMA VendorsBox ==
    ASSUME inbox \in Boxes, NEW type \in MessageTypes, NEW f \in Agents,
           NEW orders \in SUBSET Requests, NEW a \in Agents
    PROVE  LET box == PostToVendors(type, f, orders)[a]
           IN  /\ box \in Seq(Message)
               /\ Len(inbox[a]) \in Nat /\ Len(box) >= Len(inbox[a])
               /\ \A i \in 1..Len(box) :
                    \/ i \in 1..Len(inbox[a]) /\ box[i] = inbox[a][i]
                    \/ box[i].type = type /\ box[i].order \in orders
<1> DEFINE mine == SetToSeq({r \in orders : vendor[r] = a})
           new == [i \in 1..Len(mine) |-> Mail(type, f, mine[i])]
           box == PostToVendors(type, f, orders)[a]
<1>1. Len(mine) \in Nat /\ \A i \in 1..Len(mine) : mine[i] \in orders
  <2>1. {r \in orders : vendor[r] = a} \in SUBSET Requests
    OBVIOUS
  <2> QED
    BY <2>1, Enumeration
<1>2. new \in Seq(Message) /\ Len(new) = Len(mine)
  <2>1. \A i \in 1..Len(mine) : Mail(type, f, mine[i]) \in Message
    BY <1>1, MailType
  <2>2. new \in [1..Len(mine) -> Message]
    BY <2>1
  <2> HIDE DEF mine
  <2>3. new \in Seq(Message)
    BY <1>1, <2>2, IsASeq
  <2>4. DOMAIN new = 1..Len(mine)
    OBVIOUS
  <2> QED
    BY <1>1, <2>3, <2>4, LenProperties
<1>3. \A i \in 1..Len(new) : new[i].type = type /\ new[i].order \in orders
  BY <1>1, <1>2 DEF Mail
<1>4. inbox[a] \in Seq(Message) /\ Len(inbox[a]) \in Nat
  BY LenProperties DEF Boxes
<1>5. box = inbox[a] \o new
  BY DEF PostToVendors
<1> HIDE DEF mine, new, box
<1>6. /\ box \in Seq(Message) /\ Len(box) = Len(inbox[a]) + Len(new)
      /\ \A i \in 1..(Len(inbox[a]) + Len(new)) :
            box[i] = IF i <= Len(inbox[a]) THEN inbox[a][i] ELSE new[i - Len(inbox[a])]
  <2>1. SUFFICES ASSUME NEW s \in Seq(Message), NEW t \in Seq(Message)
                 PROVE  /\ s \o t \in Seq(Message) /\ Len(s \o t) = Len(s) + Len(t)
                        /\ \A i \in 1..(Len(s) + Len(t)) :
                              (s \o t)[i] = IF i <= Len(s) THEN s[i] ELSE t[i - Len(s)]
    BY <1>2, <1>4, <1>5, Zenon
  <2> QED
    BY ConcatProperties
<1>7. Len(box) \in Nat /\ Len(new) \in Nat
  BY <1>2, <1>6, LenProperties
<1>8. ASSUME NEW i \in 1..Len(box)
      PROVE  \/ i \in 1..Len(inbox[a]) /\ box[i] = inbox[a][i]
             \/ box[i].type = type /\ box[i].order \in orders
  <2>1. CASE i <= Len(inbox[a])
    BY <1>4, <1>6, <2>1
  <2>2. CASE i > Len(inbox[a])
    <3>1. i - Len(inbox[a]) \in 1..Len(new) /\ box[i] = new[i - Len(inbox[a])]
      BY <1>4, <1>6, <1>7, <2>2
    <3> QED
      BY <1>3, <3>1
  <2> QED
    BY <1>4, <2>1, <2>2
<1>9. Len(box) >= Len(inbox[a])
  BY <1>4, <1>6, <1>7
<1> QED
  BY <1>4, <1>6, <1>8, <1>9 DEF box

(* Posting to vendors keeps the boxes typed and never shortens one.        *)
LEMMA VendorsType ==
    ASSUME inbox \in Boxes, NEW type \in MessageTypes, NEW f \in Agents,
           NEW orders \in SUBSET Requests
    PROVE  /\ PostToVendors(type, f, orders) \in Boxes
           /\ \A a \in Agents : Len(PostToVendors(type, f, orders)[a]) >= Len(inbox[a])
<1>1. \A a \in Agents : /\ PostToVendors(type, f, orders)[a] \in Seq(Message)
                        /\ Len(PostToVendors(type, f, orders)[a]) >= Len(inbox[a])
  BY VendorsBox
<1> QED
  BY <1>1 DEF PostToVendors, Boxes

(* What is under way after posting to vendors was so before or is new.     *)
LEMMA VendorsHolds ==
    ASSUME inbox \in Boxes, NEW t \in MessageTypes, NEW f \in Agents,
           NEW orders \in SUBSET Requests, NEW type, NEW r,
           Holds(PostToVendors(t, f, orders), type, r)
    PROVE  Holds(inbox, type, r) \/ (type = t /\ r \in orders)
<1> DEFINE new == PostToVendors(t, f, orders)
<1>1. PICK a \in Agents : \E i \in 1..Len(new[a]) :
          new[a][i].type = type /\ new[a][i].order = r
  BY DEF Holds
<1>2. PICK i \in 1..Len(new[a]) : new[a][i].type = type /\ new[a][i].order = r
  BY <1>1
<1>3. \/ i \in 1..Len(inbox[a]) /\ new[a][i] = inbox[a][i]
      \/ new[a][i].type = t /\ new[a][i].order \in orders
  BY VendorsBox, <1>2
<1> QED
  BY <1>2, <1>3 DEF Holds

(* No order is placed twice: at most one place_order about it is under way.*)
Places(m, r) == m.type = "place_order" /\ m.order = r
PlacedOnce(boxes) ==
    \A r \in Requests : \A a, b \in Agents :
        \A i \in 1..Len(boxes[a]), j \in 1..Len(boxes[b]) :
            Places(boxes[a][i], r) /\ Places(boxes[b][j], r) => a = b /\ i = j

(* Taking a place_order out leaves no other about the same order.          *)
LEMMA PopOnce ==
    ASSUME inbox \in Boxes, NEW o \in Agents, Len(inbox[o]) > 0, PlacedOnce(inbox)
    PROVE  /\ PlacedOnce(Popped(o))
           /\ \A r \in Requests : Places(Head(inbox[o]), r)
                                    => ~ Holds(Popped(o), "place_order", r)
<1> DEFINE new == Popped(o)
           Old(a, i) == IF a = o THEN i + 1 ELSE i
<1>1. ASSUME NEW a \in Agents, NEW i \in 1..Len(new[a])
      PROVE  Old(a, i) \in 1..Len(inbox[a]) /\ new[a][i] = inbox[a][Old(a, i)]
  BY PopShifts
<1>2. PlacedOnce(new)
  <2> SUFFICES ASSUME NEW r \in Requests, NEW a \in Agents, NEW b \in Agents,
                      NEW i \in 1..Len(new[a]), NEW j \in 1..Len(new[b]),
                      Places(new[a][i], r), Places(new[b][j], r)
               PROVE  a = b /\ i = j
    BY DEF PlacedOnce
  <2>1. Places(inbox[a][Old(a, i)], r) /\ Places(inbox[b][Old(b, j)], r)
    BY <1>1
  <2>2. a = b /\ Old(a, i) = Old(b, j)
    BY <1>1, <2>1 DEF PlacedOnce
  <2>3. i \in Int /\ j \in Int
    OBVIOUS
  <2> HIDE DEF new
  <2> QED
    BY <2>2, <2>3
<1>3. ASSUME NEW r \in Requests, Places(Head(inbox[o]), r), Holds(new, "place_order", r)
      PROVE  FALSE
  <2>1. PICK a \in Agents : \E i \in 1..Len(new[a]) : Places(new[a][i], r)
    BY <1>3 DEF Holds, Places
  <2>2. PICK i \in 1..Len(new[a]) : Places(new[a][i], r)
    BY <2>1
  <2>3. Places(inbox[a][Old(a, i)], r) /\ Places(inbox[o][1], r) /\ 1 \in 1..Len(inbox[o])
    BY <1>1, <1>3, <2>2, PopShifts
  <2>4. a = o /\ Old(a, i) = 1
    BY <1>1, <2>3 DEF PlacedOnce
  <2> QED
    BY <2>4
<1> QED
  BY <1>2, <1>3

(* Posting a first place_order, or anything else, places nothing twice.    *)
LEMMA PostOnce ==
    ASSUME NEW boxes \in Boxes, NEW to, NEW m \in Message, PlacedOnce(boxes),
           m.type = "place_order" => ~ Holds(boxes, "place_order", m.order)
    PROVE  PlacedOnce(Post(boxes, to, m))
<1>1. CASE to \notin Agents
  BY <1>1 DEF Post
<1>2. CASE to \in Agents
  <2> DEFINE new == Post(boxes, to, m)
             IsNew(a, i) == a = to /\ i = Len(boxes[to]) + 1
  <2>1. /\ Len(boxes[to]) \in Nat
        /\ Len(new[to]) = Len(boxes[to]) + 1
        /\ \A i \in 1..Len(boxes[to]) : new[to][i] = boxes[to][i]
        /\ new[to][Len(boxes[to]) + 1] = m
        /\ \A a \in Agents \ {to} : new[a] = boxes[a]
    BY <1>2, LenProperties, AppendProperties DEF Post, Boxes
  <2>2. ASSUME NEW a \in Agents, NEW i \in 1..Len(new[a])
        PROVE  \/ IsNew(a, i) /\ new[a][i] = m
               \/ i \in 1..Len(boxes[a]) /\ new[a][i] = boxes[a][i]
    BY <2>1
  <2>3. SUFFICES ASSUME NEW r \in Requests, NEW a \in Agents, NEW b \in Agents,
                        NEW i \in 1..Len(new[a]), NEW j \in 1..Len(new[b]),
                        Places(new[a][i], r), Places(new[b][j], r)
                 PROVE  a = b /\ i = j
    BY DEF PlacedOnce
  <2>4. CASE IsNew(a, i) /\ IsNew(b, j)
    BY <2>4
  <2>5. CASE ~ IsNew(a, i) /\ ~ IsNew(b, j)
    <3>1. /\ i \in 1..Len(boxes[a]) /\ Places(boxes[a][i], r)
          /\ j \in 1..Len(boxes[b]) /\ Places(boxes[b][j], r)
      BY <2>2, <2>3, <2>5
    <3> QED
      BY <3>1 DEF PlacedOnce
  <2>6. CASE IsNew(a, i) /\ ~ IsNew(b, j)
    <3>1. Places(m, r) /\ j \in 1..Len(boxes[b]) /\ Places(boxes[b][j], r)
      BY <2>1, <2>2, <2>3, <2>6
    <3> QED
      BY <3>1 DEF Holds, Places
  <2>7. CASE ~ IsNew(a, i) /\ IsNew(b, j)
    <3>1. Places(m, r) /\ i \in 1..Len(boxes[a]) /\ Places(boxes[a][i], r)
      BY <2>1, <2>2, <2>3, <2>7
    <3> QED
      BY <3>1 DEF Holds, Places
  <2> QED
    BY <2>4, <2>5, <2>6, <2>7
<1> QED
  BY <1>1, <1>2

(* Posting anything but place_orders to vendors places nothing twice.      *)
LEMMA VendorsOnce ==
    ASSUME inbox \in Boxes, NEW t \in MessageTypes, t # "place_order", NEW f \in Agents,
           NEW orders \in SUBSET Requests, PlacedOnce(inbox)
    PROVE  PlacedOnce(PostToVendors(t, f, orders))
<1> DEFINE new == PostToVendors(t, f, orders)
<1> SUFFICES ASSUME NEW r \in Requests, NEW a \in Agents, NEW b \in Agents,
                    NEW i \in 1..Len(new[a]), NEW j \in 1..Len(new[b]),
                    Places(new[a][i], r), Places(new[b][j], r)
             PROVE  a = b /\ i = j
  BY DEF PlacedOnce
<1>1. i \in 1..Len(inbox[a]) /\ Places(inbox[a][i], r)
  BY VendorsBox DEF Places
<1>2. j \in 1..Len(inbox[b]) /\ Places(inbox[b][j], r)
  BY VendorsBox DEF Places
<1> QED
  BY <1>1, <1>2 DEF PlacedOnce
-----------------------------------------------------------------------------
(* Type correctness.                                                       *)

(* The roster lists agents.                                                *)
LEMMA RosterFacts ==
    Len(Roster) \in Nat /\ \A i \in 1..Len(Roster) : Roster[i] \in Agents
BY AgentsAssumption, LenProperties, ElementOfSeq

(* What Ask builds is a query.                                             *)
LEMMA AskType ==
    ASSUME NEW a \in Consumers \cup Sellers, NEW t \in Templates,
           NEW v \in 0..MaxViews, NEW orders \in SUBSET Requests
    PROVE  Ask(a, t, v, orders) \in Query
BY DEF Ask, Query

(* The queues, as the engine sees them: typed, and holding what is due.    *)
QueuesOK == inbox \in Boxes /\ due \in [Agents -> Nat]
            /\ \A a \in Agents : due[a] <= Len(inbox[a])

(* Everything else TypeOK says.                                            *)
RestOK ==
    /\ turn \in 1..(Len(Roster) + 1)
    /\ asked \subseteq Query /\ results \subseteq Query
    /\ wait \in [Consumers -> 0..HistoryGap]
    /\ status \in [Requests -> Statuses] /\ stage \in [Requests -> Stages]
    /\ buyer \in [Requests -> Consumers \cup {NoAgent}]
    /\ vendor \in [Requests -> Sellers \cup Strangers \cup {NoAgent}]
    /\ book \in [Sellers -> Seq(Requests)] /\ sold \in [Sellers -> Int]
    /\ eta \in [Requests -> {NoShipment} \cup (0..(BaseTransit + Jitter))]
    /\ filed \in [Requests -> Nat]
    /\ row \in [Requests -> Statuses] /\ written \in [Requests -> Statuses]

(* The type invariant is what the two parts above say.                     *)
LEMMA TypeSplits == TypeOK <=> QueuesOK /\ RestOK
BY DEF TypeOK, QueuesOK, RestOK, Boxes

(* What a handler has in hand when it takes a message.                     *)
LEMMA InHand ==
    ASSUME QueuesOK, NEW a \in Agents, NEW type, NEW r, Receives(a, type, r)
    PROVE  /\ inbox \in Boxes /\ Len(inbox[a]) > 0
           /\ Popped(a) \in Boxes
           /\ Head(inbox[a]) \in Message
           /\ Holds(inbox, type, r)
           /\ due' \in [Agents -> Nat]
           /\ \A b \in Agents : due'[b] <= Len(Popped(a)[b]) /\ Len(Popped(a)[b]) \in Nat
<1>1. inbox \in Boxes /\ Len(inbox[a]) \in Nat /\ due[a] \in Nat /\ due[a] > 0
      /\ due[a] <= Len(inbox[a])
  BY LenProperties DEF QueuesOK, Receives, Boxes
<1>2. Len(inbox[a]) > 0
  BY <1>1
<1>3. Popped(a) \in Boxes /\ Len(Popped(a)[a]) = Len(inbox[a]) - 1
      /\ \A b \in Agents \ {a} : Popped(a)[b] = inbox[b]
  BY <1>1, <1>2, PopShifts
<1>4. Head(inbox[a]) \in Message
  BY <1>1, <1>2, HeadTailProperties, EmptySeq DEF Boxes
<1>5. Holds(inbox, type, r)
  BY <1>1, <1>2, ReceivedHolds DEF Receives
<1>6. \A b \in Agents : Len(inbox[b]) \in Nat /\ Len(Popped(a)[b]) \in Nat
  BY <1>1, <1>3, LenProperties DEF Boxes
<1>7. due' = [due EXCEPT ![a] = @ - 1]
  BY DEF Receives
<1>8. due' \in [Agents -> Nat] /\ \A b \in Agents : due'[b] <= Len(Popped(a)[b])
  BY <1>1, <1>3, <1>6, <1>7 DEF QueuesOK
<1> QED
  BY <1>1, <1>2, <1>3, <1>4, <1>5, <1>6, <1>8

(* Boxes that only grew over the ones the handler left hold what is due.   *)
LEMMA QueuesGrow ==
    ASSUME NEW boxes \in Boxes, NEW newBoxes \in Boxes, due' \in [Agents -> Nat],
           \A b \in Agents : due'[b] <= Len(boxes[b]),
           \A b \in Agents : Len(newBoxes[b]) >= Len(boxes[b]),
           inbox' = newBoxes
    PROVE  QueuesOK'
<1>1. \A b \in Agents : Len(boxes[b]) \in Nat /\ Len(newBoxes[b]) \in Nat /\ due'[b] \in Nat
  BY LenProperties DEF Boxes
<1> QED
  BY <1>1 DEF QueuesOK, Boxes

(* The inbox of a step that takes no message and leaves due alone.         *)
LEMMA QueuesKept ==
    ASSUME QueuesOK, UNCHANGED <<inbox, due>>
    PROVE  QueuesOK'
BY DEF QueuesOK

(* The initial state has its types.                                        *)
LEMMA TypeInit == Init => TypeOK
<1> SUFFICES ASSUME Init PROVE QueuesOK /\ RestOK
  BY TypeSplits
<1>1. QueuesOK
  BY EmptySeq DEF Init, QueuesOK, Boxes
<1>2. RestOK
  <2>1. 1 \in 1..(Len(Roster) + 1)
    BY RosterFacts
  <2>2. wait \in [Consumers -> 0..HistoryGap]
    BY TimingAssumption DEF Init
  <2> QED
    BY <2>1, <2>2 DEF Init, RestOK, Statuses, Stages, NoShipment
<1> QED
  BY <1>1, <1>2

(* Each kind of step keeps the types.                                      *)
LEMMA ConsumerTypes ==
    ASSUME TypeOK, NEW c \in Consumers, ConsumerStep(c)
    PROVE  TypeOK'
<1> SUFFICES QueuesOK' /\ RestOK'
  BY DEF TypeOK, QueuesOK, RestOK, Boxes
<1>0. QueuesOK /\ RestOK /\ c \in Agents /\ c \in Consumers \cup Sellers
  BY TypeSplits DEF Agents
<1> USE DEF Statuses, Pending, Settled
<1>1. CASE OnProductDetailsResult(c)
  <2>1. PICK q \in results :
          /\ Reads(c, q) /\ q.template = "product_details"
          /\ \/ UNCHANGED <<inbox, consumerVars>>
             \/ \E r \in Requests, s \in Sellers \cup Strangers :
                  /\ status[r] = "none"
                  /\ status' = [status EXCEPT ![r] = "requested"]
                  /\ buyer' = [buyer EXCEPT ![r] = c]
                  /\ vendor' = [vendor EXCEPT ![r] = s]
                  /\ written' = [written EXCEPT ![r] = "requested"]
                  /\ inbox' = Post(inbox, s, Mail("place_order", c, r))
          /\ UNCHANGED <<asked, sellerVars, eta, filed>>
    BY <1>1 DEF OnProductDetailsResult
  <2>2. UNCHANGED <<turn, due, wait, row>> /\ results' \subseteq results
    BY <2>1 DEF Reads
  <2>3. CASE UNCHANGED <<inbox, consumerVars>>
    BY <1>0, <2>1, <2>2, <2>3, QueuesKept DEF RestOK, consumerVars, sellerVars
  <2>4. ASSUME NEW r \in Requests, NEW s \in Sellers \cup Strangers,
               status' = [status EXCEPT ![r] = "requested"],
               buyer' = [buyer EXCEPT ![r] = c],
               vendor' = [vendor EXCEPT ![r] = s],
               written' = [written EXCEPT ![r] = "requested"],
               inbox' = Post(inbox, s, Mail("place_order", c, r))
        PROVE  QueuesOK' /\ RestOK'
    <3>1. Mail("place_order", c, r) \in Message
      BY <1>0, MailType DEF MessageTypes
    <3>2. QueuesOK'
      BY <1>0, <2>2, <2>4, <3>1, PostType, QueuesGrow DEF QueuesOK
    <3>3. RestOK'
      BY <1>0, <2>1, <2>2, <2>4 DEF RestOK, sellerVars
    <3> QED
      BY <3>2, <3>3
  <2> QED
    BY <2>1, <2>3, <2>4
<1>2. CASE OnOrderHistoryResult(c)
  <2>1. PICK q \in results : Reads(c, q) /\ \E late \in SUBSET q.orders :
          LET orders == {r \in late : status[r] \in Pending}
          IN  /\ status' = [r \in Requests |->
                     IF r \in orders THEN "cancel_requested" ELSE status[r]]
              /\ written' = [r \in Requests |->
                     IF r \in orders THEN "cancel_requested" ELSE written[r]]
              /\ inbox' = PostToVendors("cancel_request", c, orders)
              /\ UNCHANGED <<buyer, vendor, asked, sellerVars, eta, filed>>
    BY <1>2 DEF OnOrderHistoryResult
  <2>0. PICK late \in SUBSET q.orders :
          LET orders == {r \in late : status[r] \in Pending}
          IN  /\ status' = [r \in Requests |->
                     IF r \in orders THEN "cancel_requested" ELSE status[r]]
              /\ written' = [r \in Requests |->
                     IF r \in orders THEN "cancel_requested" ELSE written[r]]
              /\ inbox' = PostToVendors("cancel_request", c, orders)
              /\ UNCHANGED <<buyer, vendor, asked, sellerVars, eta, filed>>
    BY <2>1
  <2> DEFINE orders == {r \in late : status[r] \in Pending}
  <2>2. UNCHANGED <<turn, due, wait, row>> /\ results' \subseteq results
    BY <2>1 DEF Reads
  <2>3. orders \in SUBSET Requests
    BY <1>0, <2>1 DEF RestOK, Query
  <2>4. QueuesOK'
    BY <1>0, <2>0, <2>2, <2>3, VendorsType, QueuesGrow DEF QueuesOK, MessageTypes
  <2>5. RestOK'
    BY <1>0, <2>0, <2>2 DEF RestOK, sellerVars
  <2> QED
    BY <2>4, <2>5
<1>3. CASE OnOrderAccepted(c)
  <2>1. PICK r \in Requests :
          /\ Receives(c, "order_accepted", r)
          /\ LET s == Head(inbox[c]).from
             IN  IF status[r] \in Pending
                 THEN /\ status' = [status EXCEPT ![r] = "accepted"]
                      /\ written' = [written EXCEPT ![r] = "accepted"]
                      /\ inbox' = Post(Popped(c), s, Mail("payment", c, r))
                 ELSE inbox' = Popped(c) /\ UNCHANGED <<status, written>>
          /\ UNCHANGED <<buyer, vendor, asked, sellerVars, eta, filed>>
    BY <1>3 DEF OnOrderAccepted
  <2>2. Mail("payment", c, r) \in Message
    BY <1>0, MailType DEF MessageTypes
  <2>3. QueuesOK'
    BY <1>0, <2>1, <2>2, InHand, PostType, QueuesGrow
  <2>4. RestOK'
    BY <1>0, <2>1 DEF RestOK, Receives, sellerVars
  <2> QED
    BY <2>3, <2>4
<1>4. CASE OnShipmentNotification(c)
  <2>1. QueuesOK'
    BY <1>0, <1>4, InHand, QueuesGrow DEF OnShipmentNotification
  <2>2. RestOK'
    BY <1>0, <1>4 DEF OnShipmentNotification, RestOK, Receives, sellerVars
  <2> QED
    BY <2>1, <2>2
<1>5. CASE OnCancelConfirmed(c)
  <2>1. QueuesOK'
    BY <1>0, <1>5, InHand, QueuesGrow DEF OnCancelConfirmed
  <2>2. RestOK'
    BY <1>0, <1>5 DEF OnCancelConfirmed, RestOK, Receives, sellerVars
  <2> QED
    BY <2>1, <2>2
<1>6. CASE OnCancelRejected(c)
  <2>1. QueuesOK'
    BY <1>0, <1>6, InHand, QueuesGrow DEF OnCancelRejected
  <2>2. RestOK'
    BY <1>0, <1>6 DEF OnCancelRejected, RestOK, Receives, sellerVars
  <2> QED
    BY <2>1, <2>2
<1>7. CASE ConsumerFires(c)
  <2>1. QueuesOK'
    BY <1>0, <1>7, QueuesKept DEF ConsumerFires, Fires
  <2>2. turn' \in 1..(Len(Roster) + 1)
    BY <1>0, <1>7, RosterFacts DEF ConsumerFires, Fires, Now, RestOK
  <2>3. wait' \in [Consumers -> 0..HistoryGap]
    BY <1>0, <1>7, TimingAssumption DEF ConsumerFires, RestOK
  <2>4. asked' \subseteq Query
    <3>1. HistoryChecks(c) \subseteq Query
      BY <1>0, AskType, TimingAssumption DEF HistoryChecks, Templates
    <3>2. ASSUME NEW views \in 0..MaxViews, NEW v \in 1..views
          PROVE  Ask(c, "product_details", v, {}) \in Query
      BY <1>0, AskType, TimingAssumption DEF Templates
    <3> QED
      BY <1>0, <1>7, <3>1, <3>2 DEF ConsumerFires, RestOK
  <2> QED
    BY <1>0, <1>7, <2>1, <2>2, <2>3, <2>4
    DEF ConsumerFires, Fires, RestOK, consumerVars, sellerVars
<1> QED
  BY <1>1, <1>2, <1>3, <1>4, <1>5, <1>6, <1>7 DEF ConsumerStep

(* A seller's step keeps the types.                                        *)
LEMMA SellerTypes ==
    ASSUME TypeOK, NEW s \in Sellers, SellerStep(s)
    PROVE  TypeOK'
<1> SUFFICES QueuesOK' /\ RestOK'
  BY DEF TypeOK, QueuesOK, RestOK, Boxes
<1>0. /\ QueuesOK /\ RestOK /\ s \in Agents /\ s \in Consumers \cup Sellers
      /\ Transport \in Agents /\ Government \in Agents
  BY TypeSplits DEF Agents
<1> USE DEF Stages
<1>1. CASE OnInventoryCheckResult(s)
  <2>1. PICK q \in results, r \in Requests :
          /\ Reads(s, q) /\ q.template = "inventory_check" /\ q.orders = {r}
          /\ IF stage[r] = "queued"
             THEN /\ stage' = [stage EXCEPT ![r] = "accepted"]
                  /\ book' = [book EXCEPT ![s] = Append(@, r)]
                  /\ sold' = [sold EXCEPT ![s] = @ + 1]
                  /\ inbox' = Post(inbox, buyer[r], Mail("order_accepted", s, r))
             ELSE UNCHANGED <<inbox, sellerVars>>
          /\ UNCHANGED <<consumerVars, asked, eta, filed>>
    BY <1>1 DEF OnInventoryCheckResult
  <2>2. UNCHANGED <<turn, due, wait, row>> /\ results' \subseteq results
    BY <2>1 DEF Reads
  <2>3. CASE stage[r] = "queued"
    <3>1. Mail("order_accepted", s, r) \in Message
      BY <1>0, MailType DEF MessageTypes
    <3>2. QueuesOK'
      BY <1>0, <2>1, <2>2, <2>3, <3>1, PostType, QueuesGrow DEF QueuesOK
    <3>3. book' \in [Sellers -> Seq(Requests)]
      <4>1. book[s] \in Seq(Requests) /\ book \in [Sellers -> Seq(Requests)]
        BY <1>0 DEF RestOK
      <4>2. Append(book[s], r) \in Seq(Requests)
        BY <4>1, AppendProperties
      <4> QED
        BY <2>1, <2>3, <4>1, <4>2
    <3>4. sold' \in [Sellers -> Int]
      <4>1. sold \in [Sellers -> Int] /\ sold' = [sold EXCEPT ![s] = @ + 1]
        BY <1>0, <2>1, <2>3 DEF RestOK
      <4> QED
        BY <4>1
    <3>5. RestOK'
      BY <1>0, <2>1, <2>2, <2>3, <3>3, <3>4 DEF RestOK, consumerVars
    <3> QED
      BY <3>2, <3>5
  <2>4. CASE stage[r] # "queued"
    BY <1>0, <2>1, <2>2, <2>4, QueuesKept DEF RestOK, consumerVars, sellerVars
  <2> QED
    BY <2>3, <2>4
<1>2. CASE OnPlaceOrder(s)
  <2>1. PICK r \in Requests :
          /\ Receives(s, "place_order", r)
          /\ inbox' = Popped(s)
          /\ stage' = [stage EXCEPT ![r] = "queued"]
          /\ asked' = asked \cup {Ask(s, "inventory_check", 0, {r})}
          /\ UNCHANGED <<consumerVars, book, sold, eta, filed>>
    BY <1>2 DEF OnPlaceOrder
  <2>2. QueuesOK'
    BY <1>0, <2>1, InHand, QueuesGrow
  <2>3. Ask(s, "inventory_check", 0, {r}) \in Query
    BY <1>0, AskType, TimingAssumption DEF Templates
  <2>4. RestOK'
    BY <1>0, <2>1, <2>3 DEF RestOK, Receives, consumerVars
  <2> QED
    BY <2>2, <2>4
<1>3. CASE OnPayment(s)
  <2>1. PICK r \in Requests :
          /\ Receives(s, "payment", r)
          /\ IF Payable(r)
             THEN /\ stage' = [stage EXCEPT ![r] = "paid"]
                  /\ inbox' = Post(Post(Popped(s), Transport, Mail("ship_request", s, r)),
                                   Government, Mail("order_report", s, r))
             ELSE inbox' = Popped(s) /\ UNCHANGED stage
          /\ UNCHANGED <<consumerVars, asked, book, sold, eta, filed>>
    BY <1>3 DEF OnPayment
  <2>2. /\ Mail("ship_request", s, r) \in Message
        /\ Mail("order_report", s, r) \in Message
    BY <1>0, MailType DEF MessageTypes
  <2>3. QueuesOK'
    <3> DEFINE half == Post(Popped(s), Transport, Mail("ship_request", s, r))
               full == Post(half, Government, Mail("order_report", s, r))
    <3>1. Popped(s) \in Boxes /\ due' \in [Agents -> Nat]
          /\ \A b \in Agents : due'[b] <= Len(Popped(s)[b])
      BY <1>0, <2>1, InHand
    <3>2. half \in Boxes /\ \A b \in Agents : Len(half[b]) >= Len(Popped(s)[b])
      BY <2>2, <3>1, PostType
    <3>3. full \in Boxes /\ \A b \in Agents : Len(full[b]) >= Len(half[b])
      BY <2>2, <3>2, PostType
    <3>4. \A b \in Agents : /\ Len(full[b]) \in Nat /\ Len(half[b]) \in Nat
                            /\ Len(Popped(s)[b]) \in Nat
      BY <3>1, <3>2, <3>3, LenProperties DEF Boxes
    <3>5. \A b \in Agents : Len(full[b]) >= Len(Popped(s)[b])
      BY <3>2, <3>3, <3>4
    <3> HIDE DEF full
    <3>6. CASE inbox' = full
      BY <3>1, <3>3, <3>5, <3>6, QueuesGrow
    <3>7. CASE inbox' = Popped(s)
      BY <3>1, <3>4, <3>7, QueuesGrow
    <3> QED
      BY <2>1, <3>6, <3>7 DEF full
  <2>4. RestOK'
    BY <1>0, <2>1 DEF RestOK, Receives, consumerVars
  <2> QED
    BY <2>3, <2>4
<1>4. CASE OnDeliveryComplete(s)
  <2>1. PICK r \in Requests :
          /\ Receives(s, "delivery_complete", r)
          /\ IF Matches(s, r) = {}
             THEN inbox' = Popped(s) /\ UNCHANGED stage
             ELSE \E i \in Matches(s, r) :
                    /\ stage' = [stage EXCEPT ![book[s][i]] = "delivered"]
                    /\ inbox' = Post(Popped(s), buyer[book[s][i]],
                                     Mail("shipment_notification", s, book[s][i]))
          /\ UNCHANGED <<consumerVars, asked, book, sold, eta, filed>>
    BY <1>4 DEF OnDeliveryComplete
  <2>2. CASE Matches(s, r) = {}
    <3>1. QueuesOK'
      BY <1>0, <2>1, <2>2, InHand, QueuesGrow
    <3>2. RestOK'
      BY <1>0, <2>1, <2>2 DEF RestOK, Receives, consumerVars
    <3> QED
      BY <3>1, <3>2
  <2>3. CASE Matches(s, r) # {}
    <3>1. PICK i \in Matches(s, r) :
              /\ stage' = [stage EXCEPT ![book[s][i]] = "delivered"]
              /\ inbox' = Post(Popped(s), buyer[book[s][i]],
                               Mail("shipment_notification", s, book[s][i]))
      BY <2>1, <2>3
    <3>2. book[s][i] \in Requests
      BY <1>0, ElementOfSeq DEF RestOK, Matches
    <3>3. Mail("shipment_notification", s, book[s][i]) \in Message
      BY <1>0, <3>2, MailType DEF MessageTypes
    <3>4. QueuesOK'
      <4> DEFINE sent == Mail("shipment_notification", s, book[s][i])
                 new == Post(Popped(s), buyer[book[s][i]], sent)
      <4>1. /\ Popped(s) \in Boxes /\ due' \in [Agents -> Nat]
            /\ \A b \in Agents : due'[b] <= Len(Popped(s)[b])
        BY <1>0, <2>1, InHand
      <4>2. new \in Boxes /\ \A b \in Agents : Len(new[b]) >= Len(Popped(s)[b])
        <5> HIDE DEF sent
        <5> QED BY <3>3, <4>1, PostType DEF sent
      <4>3. inbox' = new
        BY <3>1
      <4> HIDE DEF new
      <4> QED BY <4>1, <4>2, <4>3, QueuesGrow
    <3>5. RestOK'
      BY <1>0, <2>1, <3>1, <3>2 DEF RestOK, Receives, consumerVars
    <3> QED
      BY <3>4, <3>5
  <2> QED
    BY <2>2, <2>3
<1>5. CASE OnCancelRequest(s)
  <2>1. PICK r \in Requests :
          /\ Receives(s, "cancel_request", r)
          /\ LET c == Head(inbox[s]).from
                 answer == IF Cancellable(r) THEN "cancel_confirmed" ELSE "cancel_rejected"
             IN  inbox' = IF Known(r) THEN Post(Popped(s), c, Mail(answer, s, r))
                                      ELSE Popped(s)
          /\ IF Cancellable(r)
             THEN /\ stage' = [stage EXCEPT ![r] = "cancelled"]
                  /\ sold' = [sold EXCEPT ![s] = @ - 1]
             ELSE UNCHANGED <<stage, sold>>
          /\ UNCHANGED <<consumerVars, asked, book, eta, filed>>
    BY <1>5 DEF OnCancelRequest
  <2>2. /\ Mail("cancel_confirmed", s, r) \in Message
        /\ Mail("cancel_rejected", s, r) \in Message
    BY <1>0, MailType DEF MessageTypes
  <2>3. QueuesOK'
    BY <1>0, <2>1, <2>2, InHand, PostType, QueuesGrow
  <2>4. sold' \in [Sellers -> Int]
    <3>1. sold \in [Sellers -> Int]
          /\ (sold' = [sold EXCEPT ![s] = @ - 1] \/ sold' = sold)
      BY <1>0, <2>1 DEF RestOK
    <3> QED
      BY <3>1
  <2>5. RestOK'
    BY <1>0, <2>1, <2>4 DEF RestOK, Receives, consumerVars
  <2> QED
    BY <2>3, <2>5
<1>6. CASE OthersFire(s)
  <2>1. turn' \in 1..(Len(Roster) + 1)
    BY <1>0, <1>6, RosterFacts DEF OthersFire, Fires, Now, RestOK
  <2> QED
    BY <1>0, <1>6, <2>1, QueuesKept
    DEF OthersFire, Fires, RestOK, consumerVars, sellerVars
<1> QED
  BY <1>1, <1>2, <1>3, <1>4, <1>5, <1>6 DEF SellerStep

(* A step of transport, government or the engine keeps the types.          *)
LEMMA OtherTypes ==
    ASSUME TypeOK,
           \/ OnShipRequest \/ UpdateTracking \/ OnOrderReport
           \/ OthersFire(Government) \/ EndTick
    PROVE  TypeOK'
<1> SUFFICES QueuesOK' /\ RestOK'
  BY DEF TypeOK, QueuesOK, RestOK, Boxes
<1>0. QueuesOK /\ RestOK /\ Transport \in Agents /\ Government \in Agents
  BY TypeSplits DEF Agents
<1>1. CASE OnShipRequest
  <2>1. PICK r \in Requests, ticks \in BaseTransit..(BaseTransit + Jitter) :
          /\ Receives(Transport, "ship_request", r)
          /\ inbox' = Popped(Transport)
          /\ eta' = [eta EXCEPT ![r] = ticks]
          /\ UNCHANGED <<consumerVars, asked, sellerVars, filed>>
    BY <1>1 DEF OnShipRequest
  <2>2. QueuesOK'
    BY <1>0, <2>1, InHand, QueuesGrow
  <2>3. ticks \in 0..(BaseTransit + Jitter)
    BY TimingAssumption
  <2>4. RestOK'
    BY <1>0, <2>1, <2>3 DEF RestOK, Receives, consumerVars, sellerVars
  <2> QED
    BY <2>2, <2>4
<1>2. CASE UpdateTracking
  <2>1. QueuesOK'
    <3>1. Arrived \in SUBSET Requests
      BY DEF Arrived
    <3>2. PostToVendors("delivery_complete", Transport, Arrived) \in Boxes
          /\ \A a \in Agents : Len(PostToVendors("delivery_complete", Transport, Arrived)[a])
                                 >= Len(inbox[a])
      BY <1>0, <3>1, VendorsType DEF QueuesOK, MessageTypes
    <3> QED
      BY <1>0, <1>2, <3>2, QueuesGrow DEF UpdateTracking, Fires, QueuesOK
  <2>2. turn' \in 1..(Len(Roster) + 1)
    BY <1>0, <1>2, RosterFacts DEF UpdateTracking, Fires, Now, RestOK
  <2>3. eta' \in [Requests -> {NoShipment} \cup (0..(BaseTransit + Jitter))]
    BY <1>0, <1>2 DEF UpdateTracking, RestOK
  <2> QED
    BY <1>0, <1>2, <2>1, <2>2, <2>3
    DEF UpdateTracking, Fires, RestOK, consumerVars, sellerVars
<1>3. CASE OnOrderReport
  <2>1. QueuesOK'
    BY <1>0, <1>3, InHand, QueuesGrow DEF OnOrderReport
  <2>2. RestOK'
    BY <1>0, <1>3 DEF OnOrderReport, RestOK, Receives, consumerVars, sellerVars
  <2> QED
    BY <2>1, <2>2
<1>4. CASE OthersFire(Government)
  <2>1. turn' \in 1..(Len(Roster) + 1)
    BY <1>0, <1>4, RosterFacts DEF OthersFire, Fires, Now, RestOK
  <2> QED
    BY <1>0, <1>4, <2>1, QueuesKept
    DEF OthersFire, Fires, RestOK, consumerVars, sellerVars
<1>5. CASE EndTick
  <2>1. QueuesOK'
    <3>1. \A a \in Agents : Len(inbox[a]) \in Nat
      BY <1>0, LenProperties DEF QueuesOK, Boxes
    <3> QED
      BY <1>0, <1>5, <3>1 DEF EndTick, QueuesOK
  <2>2. \A q \in Query : Answer(q) \in Query
    BY DEF Answer, Query, Rows
  <2>3. results' \subseteq Query
    BY <1>0, <1>5, <2>2 DEF EndTick, RestOK
  <2>4. turn' \in 1..(Len(Roster) + 1)
    BY <1>5, RosterFacts DEF EndTick
  <2>5. wait' \in [Consumers -> 0..HistoryGap]
    BY <1>0, <1>5, TimingAssumption DEF EndTick, RestOK, CountDown
  <2>6. eta' \in [Requests -> {NoShipment} \cup (0..(BaseTransit + Jitter))]
    BY <1>0, <1>5, TimingAssumption DEF EndTick, RestOK, CountDown, NoShipment
  <2> QED
    BY <1>0, <1>5, <2>1, <2>3, <2>4, <2>5, <2>6
    DEF EndTick, RestOK, consumerVars, sellerVars
<1> QED
  BY <1>1, <1>2, <1>3, <1>4, <1>5

(* The variables keep their types, whatever the agents and the timing.     *)
THEOREM TypeCorrect == Spec => []TypeOK
<1>1. Init => TypeOK
  BY TypeInit
<1>2. TypeOK /\ [Next]_vars => TypeOK'
  <2> SUFFICES ASSUME TypeOK, [Next]_vars PROVE TypeOK'
    OBVIOUS
  <2>1. ASSUME NEW c \in Consumers, ConsumerStep(c) PROVE TypeOK'
    BY <2>1, ConsumerTypes
  <2>2. ASSUME NEW s \in Sellers, SellerStep(s) PROVE TypeOK'
    BY <2>2, SellerTypes
  <2>3. CASE OnShipRequest \/ UpdateTracking \/ OnOrderReport
             \/ OthersFire(Government) \/ EndTick
    BY <2>3, OtherTypes
  <2>4. CASE UNCHANGED vars
    BY <2>4 DEF vars, TypeOK
  <2> QED
    BY <2>1, <2>2, <2>3, <2>4 DEF Next
<1> QED
  BY <1>1, <1>2, PTL DEF Spec
-----------------------------------------------------------------------------
(* Agreement.  The store_order_id is a hash, and 0 is not a usable one: the*)
(* theorem is about requests whose ids are distinct and not 0.             *)
IdsAreUsable ==
    \A r \in Requests :
        StoreId[r] # 0 /\ \A q \in Requests : StoreId[q] = StoreId[r] => q = r

(* What the seller's record says as long as a message is under way.        *)
Sound(r) ==
    /\ Holds(inbox, "place_order", r) => stage[r] = "none" /\ status[r] # "none"
    /\ Holds(inbox, "ship_request", r) => stage[r] \in {"paid", "delivered"}
    /\ eta[r] # NoShipment => stage[r] \in {"paid", "delivered"}
    /\ Holds(inbox, "delivery_complete", r) => stage[r] \in {"paid", "delivered"}
    /\ Holds(inbox, "shipment_notification", r) => stage[r] = "delivered"
    /\ Holds(inbox, "cancel_confirmed", r) => stage[r] = "cancelled"
    /\ status[r] = "none" => stage[r] = "none"
    /\ status[r] \in Settled => stage[r] = status[r]

IInv == TypeOK /\ PlacedOnce(inbox) /\ \A r \in Requests : Sound(r)

(* Holds looks at the boxes and nothing else.                              *)
LEMMA HoldsPrime ==
    \A type, r : Holds(inbox, type, r)' <=> Holds(inbox', type, r)
BY DEF Holds

(* PlacedOnce looks at the boxes and nothing else.                         *)
LEMMA PlacedPrime == PlacedOnce(inbox)' <=> PlacedOnce(inbox')
BY DEF PlacedOnce, Places

(* The invariant holds initially: nothing is under way.                    *)
LEMMA SoundInit == Init => IInv
<1> SUFFICES ASSUME Init PROVE IInv
  OBVIOUS
<1>1. TypeOK
  BY TypeInit
<1>2. \A a \in Agents : 1..Len(inbox[a]) = {}
  BY EmptySeq DEF Init
<1>3. \A type, r : ~ Holds(inbox, type, r)
  BY <1>2 DEF Holds
<1>4. PlacedOnce(inbox)
  BY <1>2 DEF PlacedOnce
<1>5. \A r \in Requests : Sound(r)
  BY <1>3 DEF Sound, Init, Settled
<1> QED
  BY <1>1, <1>4, <1>5 DEF IInv

(* A consumer's step keeps the invariant; no consumer moves the record.    *)
LEMMA ConsumerSound ==
    ASSUME IInv, NEW c \in Consumers, ConsumerStep(c)
    PROVE  PlacedOnce(inbox') /\ \A r \in Requests : Sound(r)'
<1>0. /\ TypeOK /\ QueuesOK /\ RestOK /\ PlacedOnce(inbox) /\ inbox \in Boxes
      /\ \A r \in Requests : Sound(r)
      /\ c \in Agents
  BY TypeSplits DEF IInv, QueuesOK, Agents
<1>1. CASE OnProductDetailsResult(c)
  <2>1. UNCHANGED <<stage, eta>>
    BY <1>1 DEF OnProductDetailsResult, sellerVars
  <2>2. CASE UNCHANGED <<inbox, consumerVars>>
    BY <1>0, <2>1, <2>2, HoldsPrime DEF Sound, consumerVars
  <2>3. ASSUME NEW o \in Requests, NEW s \in Sellers \cup Strangers,
               status[o] = "none",
               status' = [status EXCEPT ![o] = "requested"],
               inbox' = Post(inbox, s, Mail("place_order", c, o))
        PROVE  PlacedOnce(inbox') /\ \A r \in Requests : Sound(r)'
    <3>1. /\ Mail("place_order", c, o) \in Message
          /\ Mail("place_order", c, o).type = "place_order"
          /\ Mail("place_order", c, o).order = o
      BY <1>0, MailType DEF MessageTypes
    <3>2. ~ Holds(inbox, "place_order", o)
      BY <1>0, <2>3 DEF Sound
    <3>3. PlacedOnce(inbox')
      BY <1>0, <2>3, <3>1, <3>2, PostOnce
    <3>4. \A type, r : Holds(inbox', type, r) =>
              Holds(inbox, type, r) \/ (type = "place_order" /\ r = o)
      BY <1>0, <2>3, <3>1, PostHolds
    <3>5. status \in [Requests -> Statuses]
      BY <1>0 DEF RestOK
    <3> QED
      BY <1>0, <2>1, <2>3, <3>3, <3>4, <3>5, HoldsPrime DEF Sound, Settled
  <2> QED
    BY <1>1, <2>2, <2>3 DEF OnProductDetailsResult
<1>2. CASE OnOrderHistoryResult(c)
  <2>1. PICK orders \in SUBSET Requests :
          /\ orders \subseteq {r \in Requests : status[r] \in Pending}
          /\ status' = [r \in Requests |->
                 IF r \in orders THEN "cancel_requested" ELSE status[r]]
          /\ inbox' = PostToVendors("cancel_request", c, orders)
          /\ UNCHANGED <<stage, eta>>
    <3>1. PICK q \in results : Reads(c, q) /\ \E late \in SUBSET q.orders :
            LET orders == {r \in late : status[r] \in Pending}
            IN  /\ status' = [r \in Requests |->
                       IF r \in orders THEN "cancel_requested" ELSE status[r]]
                /\ inbox' = PostToVendors("cancel_request", c, orders)
                /\ UNCHANGED <<stage, eta>>
      BY <1>2 DEF OnOrderHistoryResult, sellerVars
    <3>2. q.orders \subseteq Requests
      BY <1>0 DEF RestOK, Query
    <3> QED
      BY <3>1, <3>2
  <2>2. PlacedOnce(inbox')
    BY <1>0, <2>1, VendorsOnce DEF MessageTypes
  <2>3. \A type, r : Holds(inbox', type, r) =>
            Holds(inbox, type, r) \/ type = "cancel_request"
    BY <1>0, <2>1, VendorsHolds DEF MessageTypes
  <2> QED
    BY <1>0, <2>1, <2>2, <2>3, HoldsPrime DEF Sound, Settled, Pending
<1>3. CASE OnOrderAccepted(c)
  <2>1. PICK o \in Requests :
          /\ Receives(c, "order_accepted", o)
          /\ \/ /\ status[o] \in Pending
                /\ status' = [status EXCEPT ![o] = "accepted"]
                /\ inbox' = Post(Popped(c), Head(inbox[c]).from, Mail("payment", c, o))
             \/ inbox' = Popped(c) /\ status' = status
          /\ UNCHANGED <<stage, eta>>
    BY <1>3 DEF OnOrderAccepted, sellerVars
  <2>2. Popped(c) \in Boxes /\ Len(inbox[c]) > 0
    BY <1>0, <2>1, InHand
  <2>3. PlacedOnce(Popped(c)) /\ \A type, r : Holds(Popped(c), type, r) => Holds(inbox, type, r)
    BY <1>0, <2>2, PopOnce, PopHolds
  <2>4. /\ Mail("payment", c, o) \in Message
        /\ Mail("payment", c, o).type = "payment"
    BY <1>0, MailType DEF MessageTypes
  <2>5. PlacedOnce(inbox')
    BY <2>1, <2>2, <2>3, <2>4, PostOnce
  <2>6. \A type, r : Holds(inbox', type, r) => Holds(inbox, type, r) \/ type = "payment"
    BY <2>1, <2>2, <2>3, <2>4, PostHolds
  <2>7. status \in [Requests -> Statuses]
    BY <1>0 DEF RestOK
  <2> QED
    BY <1>0, <2>1, <2>5, <2>6, <2>7, HoldsPrime DEF Sound, Settled, Pending
<1>4. ASSUME NEW o \in Requests, NEW type \in MessageTypes, Receives(c, type, o),
             inbox' = Popped(c),
             status' = status \/
               \E new \in Statuses : /\ status[o] \in Pending /\ new # "none"
                                     /\ status' = [status EXCEPT ![o] = new]
                                     /\ new \in Settled => stage[o] = new,
             UNCHANGED <<stage, eta>>
      PROVE  PlacedOnce(inbox') /\ \A r \in Requests : Sound(r)'
  <2>1. Len(inbox[c]) > 0
    BY <1>0, <1>4, InHand
  <2>2. PlacedOnce(inbox') /\ \A t, r : Holds(inbox', t, r) => Holds(inbox, t, r)
    BY <1>0, <1>4, <2>1, PopOnce, PopHolds
  <2>3. status \in [Requests -> Statuses]
    BY <1>0 DEF RestOK
  <2> QED
    BY <1>0, <1>4, <2>2, <2>3, HoldsPrime DEF Sound, Pending
<1>5. CASE OnShipmentNotification(c)
  <2>1. PICK o \in Requests :
          /\ Receives(c, "shipment_notification", o)
          /\ inbox' = Popped(c)
          /\ \/ status[o] \in Pending /\ status' = [status EXCEPT ![o] = "delivered"]
             \/ status' = status
          /\ UNCHANGED <<stage, eta>>
    BY <1>5 DEF OnShipmentNotification, sellerVars
  <2>2. stage[o] = "delivered"
    BY <1>0, <2>1, InHand DEF Sound
  <2> QED
    BY <1>4, <2>1, <2>2 DEF Statuses, Settled, MessageTypes
<1>6. CASE OnCancelConfirmed(c)
  <2>1. PICK o \in Requests :
          /\ Receives(c, "cancel_confirmed", o)
          /\ inbox' = Popped(c)
          /\ status' = [status EXCEPT ![o] = IF @ \in Pending THEN "cancelled" ELSE @]
          /\ UNCHANGED <<stage, eta>>
    BY <1>6 DEF OnCancelConfirmed, sellerVars
  <2>2. stage[o] = "cancelled"
    BY <1>0, <2>1, InHand DEF Sound
  <2>3. status[o] \notin Pending => status' = status
    BY <1>0, <2>1 DEF RestOK
  <2> QED
    BY <1>4, <2>1, <2>2, <2>3 DEF Statuses, Settled, MessageTypes
<1>7. CASE OnCancelRejected(c)
  <2>1. PICK o \in Requests :
          /\ Receives(c, "cancel_rejected", o)
          /\ inbox' = Popped(c)
          /\ status' = [status EXCEPT ![o] = IF @ \in Pending THEN "accepted" ELSE @]
          /\ UNCHANGED <<stage, eta>>
    BY <1>7 DEF OnCancelRejected, sellerVars
  <2>2. status[o] \notin Pending => status' = status
    BY <1>0, <2>1 DEF RestOK
  <2>3. "accepted" \in Statuses /\ "accepted" # "none" /\ "accepted" \notin Settled
    BY DEF Statuses, Pending, Settled
  <2> QED
    BY <1>4, <2>1, <2>2, <2>3 DEF MessageTypes
<1>8. CASE ConsumerFires(c)
  BY <1>0, <1>8, HoldsPrime DEF ConsumerFires, Sound, consumerVars, sellerVars
<1> QED
  BY <1>1, <1>2, <1>3, <1>5, <1>6, <1>7, <1>8 DEF ConsumerStep

(* The seller's record moves one order on, along a path no message under   *)
(* way speaks against.                                                     *)
LEMMA SellerSound ==
    ASSUME IInv, IdsAreUsable, NEW s \in Sellers, SellerStep(s)
    PROVE  PlacedOnce(inbox') /\ \A r \in Requests : Sound(r)'
<1>0. /\ TypeOK /\ QueuesOK /\ RestOK /\ PlacedOnce(inbox) /\ inbox \in Boxes
      /\ \A r \in Requests : Sound(r)
      /\ s \in Agents /\ Transport \in Agents /\ Government \in Agents
      /\ stage \in [Requests -> Stages]
  BY TypeSplits DEF IInv, QueuesOK, RestOK, Agents
<1>1. CASE OnInventoryCheckResult(s)
  <2>1. PICK o \in Requests :
          /\ \/ /\ stage[o] = "queued"
                /\ stage' = [stage EXCEPT ![o] = "accepted"]
                /\ inbox' = Post(inbox, buyer[o], Mail("order_accepted", s, o))
             \/ UNCHANGED <<inbox, stage>>
          /\ UNCHANGED <<status, eta>>
    BY <1>1 DEF OnInventoryCheckResult, consumerVars, sellerVars
  <2>2. /\ Mail("order_accepted", s, o) \in Message
        /\ Mail("order_accepted", s, o).type = "order_accepted"
    BY <1>0, MailType DEF MessageTypes
  <2>3. PlacedOnce(inbox')
    BY <1>0, <2>1, <2>2, PostOnce
  <2>4. \A type, r : Holds(inbox', type, r) =>
            Holds(inbox, type, r) \/ type = "order_accepted"
    BY <1>0, <2>1, <2>2, PostHolds
  <2> QED
    BY <1>0, <2>1, <2>3, <2>4, HoldsPrime DEF Sound, Settled
<1>2. CASE OnPlaceOrder(s)
  <2>1. PICK o \in Requests :
          /\ Receives(s, "place_order", o)
          /\ inbox' = Popped(s)
          /\ stage' = [stage EXCEPT ![o] = "queued"]
          /\ UNCHANGED <<status, eta>>
    BY <1>2 DEF OnPlaceOrder, consumerVars
  <2>2. Len(inbox[s]) > 0 /\ Holds(inbox, "place_order", o) /\ Places(Head(inbox[s]), o)
    BY <1>0, <2>1, InHand DEF Receives, Places
  <2>3. stage[o] = "none" /\ status[o] # "none"
    BY <1>0, <2>2 DEF Sound
  <2>4. /\ PlacedOnce(inbox')
        /\ ~ Holds(inbox', "place_order", o)
        /\ \A type, r : Holds(inbox', type, r) => Holds(inbox, type, r)
    BY <1>0, <2>1, <2>2, PopOnce, PopHolds
  <2> QED
    BY <1>0, <2>1, <2>3, <2>4, HoldsPrime DEF Sound, Settled
<1>3. CASE OnPayment(s)
  <2>1. PICK o \in Requests :
          /\ Receives(s, "payment", o)
          /\ \/ /\ stage[o] = "accepted"
                /\ stage' = [stage EXCEPT ![o] = "paid"]
                /\ inbox' = Post(Post(Popped(s), Transport, Mail("ship_request", s, o)),
                                 Government, Mail("order_report", s, o))
             \/ inbox' = Popped(s) /\ stage' = stage
          /\ UNCHANGED <<status, eta>>
    BY <1>3 DEF OnPayment, Payable, consumerVars
  <2>2. Popped(s) \in Boxes /\ Len(inbox[s]) > 0
    BY <1>0, <2>1, InHand
  <2>3. PlacedOnce(Popped(s)) /\ \A type, r : Holds(Popped(s), type, r) => Holds(inbox, type, r)
    BY <1>0, <2>2, PopOnce, PopHolds
  <2> DEFINE half == Post(Popped(s), Transport, Mail("ship_request", s, o))
             full == Post(half, Government, Mail("order_report", s, o))
  <2>4. /\ Mail("ship_request", s, o) \in Message
        /\ Mail("ship_request", s, o).type = "ship_request"
        /\ Mail("ship_request", s, o).order = o
        /\ Mail("order_report", s, o) \in Message
        /\ Mail("order_report", s, o).type = "order_report"
    BY <1>0, MailType DEF MessageTypes
  <2>5. half \in Boxes /\ PlacedOnce(half)
    BY <2>2, <2>3, <2>4, PostType, PostOnce
  <2>6. PlacedOnce(full)
    BY <2>4, <2>5, PostOnce
  <2>7. \A type, r : Holds(half, type, r) =>
            Holds(inbox, type, r) \/ (type = "ship_request" /\ r = o)
    BY <2>2, <2>3, <2>4, PostHolds
  <2>8. \A type, r : Holds(full, type, r) =>
            Holds(inbox, type, r) \/ (type = "ship_request" /\ r = o) \/ type = "order_report"
    BY <2>4, <2>5, <2>7, PostHolds
  <2>9. CASE inbox' = Popped(s) /\ stage' = stage
    BY <1>0, <2>1, <2>3, <2>9, HoldsPrime DEF Sound
  <2>10. CASE stage[o] = "accepted" /\ stage' = [stage EXCEPT ![o] = "paid"] /\ inbox' = full
    BY <1>0, <2>1, <2>6, <2>8, <2>10, HoldsPrime DEF Sound, Settled
  <2> QED
    BY <2>1, <2>9, <2>10
<1>4. CASE OnDeliveryComplete(s)
  <2>1. PICK o \in Requests :
          /\ Receives(s, "delivery_complete", o)
          /\ \/ inbox' = Popped(s) /\ stage' = stage
             \/ \E i \in Matches(s, o) :
                    /\ stage' = [stage EXCEPT ![book[s][i]] = "delivered"]
                    /\ inbox' = Post(Popped(s), buyer[book[s][i]],
                                     Mail("shipment_notification", s, book[s][i]))
          /\ UNCHANGED <<status, eta>>
    BY <1>4 DEF OnDeliveryComplete, consumerVars
  <2>2. Popped(s) \in Boxes /\ Len(inbox[s]) > 0 /\ Holds(inbox, "delivery_complete", o)
    BY <1>0, <2>1, InHand
  <2>3. stage[o] \in {"paid", "delivered"}
    BY <1>0, <2>2 DEF Sound
  <2>4. PlacedOnce(Popped(s)) /\ \A type, r : Holds(Popped(s), type, r) => Holds(inbox, type, r)
    BY <1>0, <2>2, PopOnce, PopHolds
  <2>5. \A i \in Matches(s, o) : book[s][i] = o
    <3> SUFFICES ASSUME NEW i \in Matches(s, o) PROVE book[s][i] = o
      OBVIOUS
    <3>1. book[s][i] \in Requests
      BY <1>0, ElementOfSeq DEF RestOK, Matches
    <3>2. StoreId[book[s][i]] = StoreId[o]
      BY AgentsAssumption DEF Matches, OrderId, IdsAreUsable
    <3> QED
      BY <3>1, <3>2 DEF IdsAreUsable
  <2>6. /\ Mail("shipment_notification", s, o) \in Message
        /\ Mail("shipment_notification", s, o).type = "shipment_notification"
        /\ Mail("shipment_notification", s, o).order = o
    BY <1>0, MailType DEF MessageTypes
  <2>7. CASE inbox' = Popped(s) /\ stage' = stage
    BY <1>0, <2>1, <2>4, <2>7, HoldsPrime DEF Sound
  <2>8. CASE /\ stage' = [stage EXCEPT ![o] = "delivered"]
             /\ inbox' = Post(Popped(s), buyer[o], Mail("shipment_notification", s, o))
    <3>1. PlacedOnce(inbox')
      BY <2>2, <2>4, <2>6, <2>8, PostOnce
    <3>2. \A type, r : Holds(inbox', type, r) =>
              Holds(inbox, type, r) \/ (type = "shipment_notification" /\ r = o)
      BY <2>2, <2>4, <2>6, <2>8, PostHolds
    <3> QED
      BY <1>0, <2>1, <2>3, <2>8, <3>1, <3>2, HoldsPrime DEF Sound, Settled
  <2> QED
    BY <2>1, <2>5, <2>7, <2>8
<1>5. CASE OnCancelRequest(s)
  <2>1. PICK o \in Requests :
          /\ Receives(s, "cancel_request", o)
          /\ LET c == Head(inbox[s]).from
             IN  \/ inbox' = Popped(s) /\ stage' = stage
                 \/ /\ stage[o] = "accepted"
                    /\ stage' = [stage EXCEPT ![o] = "cancelled"]
                    /\ inbox' = Post(Popped(s), c, Mail("cancel_confirmed", s, o))
                 \/ /\ stage' = stage
                    /\ inbox' = Post(Popped(s), c, Mail("cancel_rejected", s, o))
          /\ UNCHANGED <<status, eta>>
    BY <1>5 DEF OnCancelRequest, Cancellable, Known, consumerVars
  <2>2. Popped(s) \in Boxes /\ Len(inbox[s]) > 0
    BY <1>0, <2>1, InHand
  <2>3. PlacedOnce(Popped(s)) /\ \A type, r : Holds(Popped(s), type, r) => Holds(inbox, type, r)
    BY <1>0, <2>2, PopOnce, PopHolds
  <2>4. /\ Mail("cancel_confirmed", s, o) \in Message
        /\ Mail("cancel_confirmed", s, o).type = "cancel_confirmed"
        /\ Mail("cancel_confirmed", s, o).order = o
        /\ Mail("cancel_rejected", s, o) \in Message
        /\ Mail("cancel_rejected", s, o).type = "cancel_rejected"
    BY <1>0, MailType DEF MessageTypes
  <2>5. CASE inbox' = Popped(s) /\ stage' = stage
    BY <1>0, <2>1, <2>3, <2>5, HoldsPrime DEF Sound
  <2>6. CASE /\ stage[o] = "accepted" /\ stage' = [stage EXCEPT ![o] = "cancelled"]
             /\ inbox' = Post(Popped(s), Head(inbox[s]).from, Mail("cancel_confirmed", s, o))
    <3>1. PlacedOnce(inbox')
      BY <2>2, <2>3, <2>4, <2>6, PostOnce
    <3>2. \A type, r : Holds(inbox', type, r) =>
              Holds(inbox, type, r) \/ (type = "cancel_confirmed" /\ r = o)
      BY <2>2, <2>3, <2>4, <2>6, PostHolds
    <3> QED
      BY <1>0, <2>1, <2>6, <3>1, <3>2, HoldsPrime DEF Sound, Settled
  <2>7. CASE /\ stage' = stage
             /\ inbox' = Post(Popped(s), Head(inbox[s]).from, Mail("cancel_rejected", s, o))
    <3>1. PlacedOnce(inbox')
      BY <2>2, <2>3, <2>4, <2>7, PostOnce
    <3>2. \A type, r : Holds(inbox', type, r) =>
              Holds(inbox, type, r) \/ type = "cancel_rejected"
      BY <2>2, <2>3, <2>4, <2>7, PostHolds
    <3> QED
      BY <1>0, <2>1, <2>7, <3>1, <3>2, HoldsPrime DEF Sound
  <2> QED
    BY <2>1, <2>5, <2>6, <2>7
<1>6. CASE OthersFire(s)
  BY <1>0, <1>6, HoldsPrime, PlacedPrime DEF OthersFire, Sound, consumerVars, sellerVars
<1> QED
  BY <1>1, <1>2, <1>3, <1>4, <1>5, <1>6 DEF SellerStep

(* No step of transport, government or the engine breaks the invariant.    *)
LEMMA OtherSound ==
    ASSUME IInv,
           \/ OnShipRequest \/ UpdateTracking \/ OnOrderReport
           \/ OthersFire(Government) \/ EndTick
    PROVE  PlacedOnce(inbox') /\ \A r \in Requests : Sound(r)'
<1>0. /\ TypeOK /\ QueuesOK /\ RestOK /\ PlacedOnce(inbox) /\ inbox \in Boxes
      /\ \A r \in Requests : Sound(r)
      /\ Transport \in Agents /\ Government \in Agents
      /\ eta \in [Requests -> {NoShipment} \cup (0..(BaseTransit + Jitter))]
  BY TypeSplits DEF IInv, QueuesOK, RestOK, Agents
<1>1. CASE OnShipRequest
  <2>1. PICK o \in Requests, ticks \in BaseTransit..(BaseTransit + Jitter) :
          /\ Receives(Transport, "ship_request", o)
          /\ inbox' = Popped(Transport)
          /\ eta' = [eta EXCEPT ![o] = ticks]
          /\ UNCHANGED <<status, stage>>
    BY <1>1 DEF OnShipRequest, consumerVars, sellerVars
  <2>2. Len(inbox[Transport]) > 0 /\ Holds(inbox, "ship_request", o)
    BY <1>0, <2>1, InHand
  <2>3. stage[o] \in {"paid", "delivered"}
    BY <1>0, <2>2 DEF Sound
  <2>4. PlacedOnce(inbox') /\ \A type, r : Holds(inbox', type, r) => Holds(inbox, type, r)
    BY <1>0, <2>1, <2>2, PopOnce, PopHolds
  <2> QED
    BY <1>0, <2>1, <2>3, <2>4, HoldsPrime DEF Sound
<1>2. CASE UpdateTracking
  <2>1. /\ inbox' = PostToVendors("delivery_complete", Transport, Arrived)
        /\ eta' = [r \in Requests |-> IF r \in Arrived THEN NoShipment ELSE eta[r]]
        /\ UNCHANGED <<status, stage>>
    BY <1>2 DEF UpdateTracking, consumerVars, sellerVars
  <2>2. Arrived \in SUBSET Requests
    BY DEF Arrived
  <2>3. \A r \in Arrived : stage[r] \in {"paid", "delivered"}
    BY <1>0 DEF Sound, Arrived, NoShipment
  <2>4. PlacedOnce(inbox')
    BY <1>0, <2>1, <2>2, VendorsOnce DEF MessageTypes
  <2>5. \A type, r : Holds(inbox', type, r) =>
            Holds(inbox, type, r) \/ (type = "delivery_complete" /\ r \in Arrived)
    BY <1>0, <2>1, <2>2, VendorsHolds DEF MessageTypes
  <2> QED
    BY <1>0, <2>1, <2>3, <2>4, <2>5, HoldsPrime DEF Sound
<1>3. CASE OnOrderReport
  <2>1. PICK o \in Requests :
          /\ Receives(Government, "order_report", o)
          /\ inbox' = Popped(Government)
          /\ UNCHANGED <<status, stage, eta>>
    BY <1>3 DEF OnOrderReport, consumerVars, sellerVars
  <2>2. Len(inbox[Government]) > 0
    BY <1>0, <2>1, InHand
  <2>3. PlacedOnce(inbox') /\ \A type, r : Holds(inbox', type, r) => Holds(inbox, type, r)
    BY <1>0, <2>1, <2>2, PopOnce, PopHolds
  <2> QED
    BY <1>0, <2>1, <2>3, HoldsPrime DEF Sound
<1>4. CASE OthersFire(Government)
  BY <1>0, <1>4, HoldsPrime, PlacedPrime DEF OthersFire, Sound, consumerVars, sellerVars
<1>5. CASE EndTick
  <2>1. \A r \in Requests : eta'[r] # NoShipment => eta[r] # NoShipment
    BY <1>0, <1>5 DEF EndTick, CountDown, NoShipment
  <2> QED
    BY <1>0, <1>5, <2>1, HoldsPrime DEF EndTick, Sound, consumerVars, sellerVars
<1> QED
  BY <1>1, <1>2, <1>3, <1>4, <1>5

(* The invariant is inductive when ids are usable.                         *)
LEMMA Inductive ==
    ASSUME IInv, IdsAreUsable, [Next]_vars
    PROVE  IInv'
<1>1. TypeOK'
  <2>1. TypeOK
    BY DEF IInv
  <2>2. CASE UNCHANGED vars
    BY <2>1, <2>2 DEF vars, TypeOK
  <2> QED
    BY <2>1, <2>2, ConsumerTypes, SellerTypes, OtherTypes DEF Next
<1>2. PlacedOnce(inbox') /\ \A r \in Requests : Sound(r)'
  <2>1. CASE UNCHANGED vars
    BY <2>1, HoldsPrime DEF IInv, vars, Sound
  <2> QED
    BY <2>1, ConsumerSound, SellerSound, OtherSound DEF Next
<1> QED
  BY <1>1, <1>2, PlacedPrime DEF IInv

(* The invariant holds throughout.                                         *)
LEMMA IInvHolds ==
    ASSUME IdsAreUsable
    PROVE  Spec => []IInv
<1>1. Init => IInv
  BY SoundInit
<1>2. IInv /\ [Next]_vars => IInv'
  BY Inductive
<1> QED
  BY <1>1, <1>2, PTL DEF Spec

(* With usable ids, consumer and seller never disagree about how an order  *)
(* ended, however cancellations, acceptances, payments and deliveries      *)
(* cross.                                                                  *)
THEOREM PartiesAgree ==
    ASSUME IdsAreUsable
    PROVE  Spec => []Agreement
<1>1. IInv => Agreement
  BY DEF IInv, Sound, Agreement
<1> QED
  BY <1>1, IInvHolds, PTL
-----------------------------------------------------------------------------
(* The pipeline takes only the steps of the contract.                      *)
Advances(from, to) ==
    \/ from = "none" /\ to = "queued"
    \/ from = "queued" /\ to = "accepted"
    \/ from = "accepted" /\ to \in {"paid", "cancelled"}
    \/ from = "paid" /\ to = "delivered"

OutcomeOf(st) == IF st \in Settled THEN st ELSE "open"

(* What a step may do to an order: nothing the contract sees, one advance  *)
(* of the seller's record, or the settling of the consumer's.              *)
Invisible == stage' = stage /\ \A r \in Requests : OutcomeOf(status'[r]) = OutcomeOf(status[r])
Advance(o) == /\ status' = status
              /\ \E to \in Stages : /\ Advances(stage[o], to)
                                    /\ stage' = [stage EXCEPT ![o] = to]
Settles(o) == /\ stage' = stage /\ status[o] \notin Settled /\ stage[o] \in Settled
              /\ status' = [status EXCEPT ![o] = stage[o]]

(* A consumer's step settles an order as recorded or is invisible.         *)
LEMMA ConsumerShape ==
    ASSUME IInv, NEW c \in Consumers, ConsumerStep(c)
    PROVE  Invisible \/ \E o \in Requests : Settles(o)
<1>0. /\ QueuesOK /\ c \in Agents /\ \A r \in Requests : Sound(r)
      /\ status \in [Requests -> Statuses]
  BY TypeSplits DEF IInv, RestOK, Agents
<1>1. ASSUME stage' = stage,
             \A r \in Requests : status'[r] = status[r] \/
                 (status[r] \notin Settled /\ status'[r] \notin Settled)
      PROVE  Invisible
  BY <1>1 DEF Invisible, OutcomeOf
<1>2. ASSUME stage' = stage, status' = status PROVE Invisible
  BY <1>1, <1>2
<1>3. CASE OnProductDetailsResult(c)
  <2>1. CASE status' = status
    BY <1>2, <1>3, <2>1 DEF OnProductDetailsResult, sellerVars
  <2>2. CASE \E r \in Requests : /\ status[r] = "none"
                                 /\ status' = [status EXCEPT ![r] = "requested"]
    BY <1>0, <1>1, <1>3, <2>2 DEF OnProductDetailsResult, sellerVars, Settled
  <2> QED
    BY <1>3, <2>1, <2>2 DEF OnProductDetailsResult, consumerVars
<1>4. CASE OnOrderHistoryResult(c)
  <2>1. stage' = stage
    BY <1>4 DEF OnOrderHistoryResult, sellerVars
  <2>2. \A r \in Requests : status'[r] = status[r]
            \/ (status[r] \in Pending /\ status'[r] = "cancel_requested")
    BY <1>4 DEF OnOrderHistoryResult
  <2> QED
    BY <1>1, <2>1, <2>2 DEF Settled, Pending
<1>5. CASE OnOrderAccepted(c)
  <2>1. stage' = stage
    BY <1>5 DEF OnOrderAccepted, sellerVars
  <2>2. \A r \in Requests : status'[r] = status[r]
            \/ (status[r] \in Pending /\ status'[r] = "accepted")
    BY <1>0, <1>5 DEF OnOrderAccepted
  <2> QED
    BY <1>1, <2>1, <2>2 DEF Settled, Pending
<1>6. CASE OnShipmentNotification(c)
  <2>1. PICK o \in Requests :
          /\ Receives(c, "shipment_notification", o)
          /\ \/ status[o] \in Pending /\ status' = [status EXCEPT ![o] = "delivered"]
             \/ status' = status
          /\ stage' = stage
    BY <1>6 DEF OnShipmentNotification, sellerVars
  <2>2. stage[o] = "delivered"
    BY <1>0, <2>1, InHand DEF Sound
  <2> QED
    BY <1>2, <2>1, <2>2 DEF Settles, Settled, Pending
<1>7. CASE OnCancelConfirmed(c)
  <2>1. PICK o \in Requests :
          /\ Receives(c, "cancel_confirmed", o)
          /\ status' = [status EXCEPT ![o] = IF @ \in Pending THEN "cancelled" ELSE @]
          /\ stage' = stage
    BY <1>7 DEF OnCancelConfirmed, sellerVars
  <2>2. stage[o] = "cancelled"
    BY <1>0, <2>1, InHand DEF Sound
  <2>3. status[o] \notin Pending => status' = status
    BY <1>0, <2>1
  <2> QED
    BY <1>2, <2>1, <2>2, <2>3 DEF Settles, Settled, Pending
<1>8. CASE OnCancelRejected(c)
  <2>1. stage' = stage
    BY <1>8 DEF OnCancelRejected, sellerVars
  <2>2. \A r \in Requests : status'[r] = status[r]
            \/ (status[r] \in Pending /\ status'[r] = "accepted")
    BY <1>0, <1>8 DEF OnCancelRejected
  <2> QED
    BY <1>1, <2>1, <2>2 DEF Settled, Pending
<1>9. CASE ConsumerFires(c)
  BY <1>2, <1>9 DEF ConsumerFires, consumerVars, sellerVars
<1> QED
  BY <1>3, <1>4, <1>5, <1>6, <1>7, <1>8, <1>9 DEF ConsumerStep

(* A seller's step moves one order along a contract edge or is invisible.  *)
LEMMA SellerShape ==
    ASSUME IInv, IdsAreUsable, NEW s \in Sellers, SellerStep(s)
    PROVE  Invisible \/ \E o \in Requests : Advance(o)
<1>0. /\ QueuesOK /\ s \in Agents /\ \A r \in Requests : Sound(r)
      /\ stage \in [Requests -> Stages] /\ book \in [Sellers -> Seq(Requests)]
  BY TypeSplits DEF IInv, RestOK, Agents
<1>1. status' = status
  BY DEF SellerStep, OnInventoryCheckResult, OnPlaceOrder, OnPayment, OnDeliveryComplete,
         OnCancelRequest, OthersFire, consumerVars
<1>2. ASSUME stage' = stage PROVE Invisible
  BY <1>1, <1>2 DEF Invisible
<1>3. ASSUME NEW o \in Requests, NEW to \in Stages, Advances(stage[o], to),
             stage' = [stage EXCEPT ![o] = to]
      PROVE  Advance(o)
  BY <1>1, <1>3 DEF Advance
<1>4. CASE OnInventoryCheckResult(s)
  BY <1>2, <1>3, <1>4 DEF OnInventoryCheckResult, sellerVars, Advances, Stages
<1>5. CASE OnPlaceOrder(s)
  <2>1. PICK o \in Requests : /\ Receives(s, "place_order", o)
                              /\ stage' = [stage EXCEPT ![o] = "queued"]
    BY <1>5 DEF OnPlaceOrder
  <2>2. stage[o] = "none"
    BY <1>0, <2>1, InHand DEF Sound
  <2> QED
    BY <1>3, <2>1, <2>2 DEF Advances, Stages
<1>6. CASE OnPayment(s)
  BY <1>2, <1>3, <1>6 DEF OnPayment, Payable, Advances, Stages
<1>7. CASE OnDeliveryComplete(s)
  <2>1. PICK o \in Requests :
          /\ Receives(s, "delivery_complete", o)
          /\ \/ stage' = stage
             \/ \E i \in Matches(s, o) : stage' = [stage EXCEPT ![book[s][i]] = "delivered"]
    BY <1>7 DEF OnDeliveryComplete
  <2>2. stage[o] \in {"paid", "delivered"}
    BY <1>0, <2>1, InHand DEF Sound
  <2>3. \A i \in Matches(s, o) : book[s][i] = o
    <3> SUFFICES ASSUME NEW i \in Matches(s, o) PROVE book[s][i] = o
      OBVIOUS
    <3>1. book[s][i] \in Requests
      BY <1>0, ElementOfSeq DEF Matches
    <3>2. StoreId[book[s][i]] = StoreId[o]
      BY DEF Matches, OrderId, IdsAreUsable
    <3> QED
      BY <3>1, <3>2 DEF IdsAreUsable
  <2>4. CASE stage' = [stage EXCEPT ![o] = "delivered"] /\ stage[o] = "paid"
    BY <1>3, <2>4 DEF Advances, Stages
  <2>5. CASE stage' = [stage EXCEPT ![o] = "delivered"] /\ stage[o] = "delivered"
    BY <1>0, <1>2, <2>5
  <2> QED
    BY <1>2, <2>1, <2>2, <2>3, <2>4, <2>5
<1>8. CASE OnCancelRequest(s)
  BY <1>2, <1>3, <1>8 DEF OnCancelRequest, Cancellable, Advances, Stages
<1>9. CASE OthersFire(s)
  BY <1>2, <1>9 DEF OthersFire, sellerVars
<1> QED
  BY <1>4, <1>5, <1>6, <1>7, <1>8, <1>9 DEF SellerStep

(* Every step of the pipeline is a step of the contract or invisible to it.*)
LEMMA StepFollows ==
    ASSUME IInv, IdsAreUsable, [Next]_vars
    PROVE  [Contract!ContractNext]_(Contract!contractVars)
<1>0. stage \in [Requests -> Stages] /\ status \in [Requests -> Statuses]
  BY DEF IInv, TypeOK
<1>1. Invisible \/ \E o \in Requests : Advance(o) \/ Settles(o)
  <2>1. CASE UNCHANGED vars
    BY <2>1 DEF vars, Invisible
  <2>2. CASE OnShipRequest \/ UpdateTracking \/ OnOrderReport
             \/ OthersFire(Government) \/ EndTick
    BY <2>2 DEF OnShipRequest, UpdateTracking, OnOrderReport, OthersFire, EndTick,
                consumerVars, sellerVars, Invisible
  <2> QED
    BY <2>1, <2>2, ConsumerShape, SellerShape DEF Next
<1>2. CASE Invisible
  BY <1>2 DEF Invisible, OutcomeOf, Contract!contractVars
<1>3. ASSUME NEW o \in Requests, Advance(o)
      PROVE  Contract!ContractNext
  <2>1. PICK to \in Stages : Advances(stage[o], to) /\ stage' = [stage EXCEPT ![o] = to]
                             /\ status' = status
    BY <1>3 DEF Advance
  <2>2. [r \in Requests |-> Deal[stage'[r]]]
          = [[r \in Requests |-> Deal[stage[r]]] EXCEPT ![o] = Deal[to]]
    BY <1>0, <2>1
  <2>3. Contract!Moves(o, Deal[stage[o]], Deal[to])
    BY <2>1, <2>2 DEF Contract!Moves
  <2>4. \/ Contract!Place(o) \/ Contract!Reserve(o) \/ Contract!Pay(o)
        \/ Contract!Withdraw(o) \/ Contract!Deliver(o)
    BY <2>1, <2>3 DEF Advances, Deal, Contract!Place, Contract!Reserve, Contract!Pay,
                      Contract!Withdraw, Contract!Deliver
  <2> QED
    BY <2>4 DEF Contract!ContractNext
<1>4. ASSUME NEW o \in Requests, Settles(o)
      PROVE  Contract!ContractNext
  <2> DEFINE deal == [r \in Requests |-> Deal[stage[r]]]
             outcome == [r \in Requests |-> IF status[r] \in Settled THEN status[r] ELSE "open"]
  <2>1. outcome' = [outcome EXCEPT ![o] = stage[o]]
    BY <1>0, <1>4 DEF Settles
  <2>2. outcome[o] = "open" /\ deal' = deal
    BY <1>4 DEF Settles
  <2>3. \/ deal[o] = "delivered" /\ stage[o] = "delivered"
        \/ deal[o] = "withdrawn" /\ stage[o] = "cancelled"
    BY <1>4 DEF Settles, Settled, Deal
  <2>4. /\ outcome[o] = "open"
        /\ \/ deal[o] = "delivered" /\ outcome' = [outcome EXCEPT ![o] = "delivered"]
           \/ deal[o] = "withdrawn" /\ outcome' = [outcome EXCEPT ![o] = "cancelled"]
        /\ UNCHANGED deal
    <3> HIDE DEF deal, outcome
    <3> QED
      BY <2>1, <2>2, <2>3
  <2>5. Contract!Settle(o)
    BY <2>4, Zenon DEF Contract!Settle, Contract!Open
  <2> QED
    BY <2>5 DEF Contract!ContractNext
<1> QED
  BY <1>1, <1>2, <1>3, <1>4

(* With usable ids the pipeline implements the safety part of the contract *)
(* of a purchase: reserved once, paid or given back, delivered only when   *)
(* paid, settled once and as the seller's record says.                     *)
THEOREM Refinement ==
    ASSUME IdsAreUsable
    PROVE  Spec => FollowsContract
<1>1. Init => Contract!ContractInit
  BY DEF Init, Deal, Settled, Contract!ContractInit, Contract!Open
<1>2. IInv /\ [Next]_vars => [Contract!ContractNext]_(Contract!contractVars)
  BY StepFollows
<1> QED
  BY <1>1, <1>2, IInvHolds, PTL DEF Spec, FollowsContract
-----------------------------------------------------------------------------
(***************************************************************************)
(* The ledgers: the stock, the freight and the government's reports.       *)
(*                                                                         *)
(* They hold because what is about an order comes to the seller it was     *)
(* placed with, who has it in its book: the first part proves that.  The   *)
(* second counts messages: posting one adds one to the messages of its     *)
(* type about its order, reading one takes one away, whatever else lies in *)
(* the boxes.                                                              *)
(***************************************************************************)

-----------------------------------------------------------------------------
(* Addressing.                                                             *)

ToVendor == {"place_order", "payment", "cancel_request", "delivery_complete"}

InBox(boxes, a, m) == \E i \in 1..Len(boxes[a]) : boxes[a][i] = m

(* A message to a seller is with the vendor of its order; an acceptance    *)
(* comes from there.                                                       *)
Fine(a, m) ==
    /\ status[m.order] # "none"
    /\ m.type \in ToVendor => vendor[m.order] = a
    /\ m.type = "order_accepted" => vendor[m.order] = m.from

FineQuery(q) ==
    q.template = "inventory_check" =>
        \A r \in q.orders : vendor[r] = q.agent /\ status[r] # "none"

Addressed ==
    /\ \A a \in Agents : \A m \in Message : InBox(inbox, a, m) => Fine(a, m)
    /\ \A q \in asked \cup results : FineQuery(q)

(* The seller of an order knows it, and has it in its book once accepted.  *)
AtSeller(r) ==
    /\ stage[r] # "none" => vendor[r] \in Sellers
    /\ Known(r) => \E i \in 1..Len(book[vendor[r]]) : book[vendor[r]][i] = r

AInv == IInv /\ Addressed /\ \A r \in Requests : AtSeller(r)

(* What is in a box after a posting was there before or is the one posted. *)
LEMMA PostIn ==
    ASSUME NEW boxes \in Boxes, NEW to, NEW m, NEW a \in Agents, NEW x,
           InBox(Post(boxes, to, m), a, x)
    PROVE  InBox(boxes, a, x) \/ (a = to /\ x = m)
<1>1. CASE to \notin Agents
  BY <1>1 DEF Post
<1>2. CASE to \in Agents /\ a # to
  BY <1>2 DEF Post, Boxes, InBox
<1>3. CASE to \in Agents /\ a = to
  <2>1. Post(boxes, to, m)[a] = Append(boxes[a], m)
    BY <1>3 DEF Post, Boxes
  <2>2. boxes[a] \in Seq(Message) /\ Len(boxes[a]) \in Nat
    BY LenProperties DEF Boxes
  <2>3. PICK i \in 1..Len(Append(boxes[a], m)) : Append(boxes[a], m)[i] = x
    BY <2>1 DEF InBox
  <2> QED
    BY <1>3, <2>2, <2>3 DEF InBox
<1> QED
  BY <1>1, <1>2, <1>3

(* What is in a box after one message was read was there before.           *)
LEMMA PopIn ==
    ASSUME inbox \in Boxes, NEW o \in Agents, Len(inbox[o]) > 0, NEW a \in Agents,
           NEW x, InBox(Popped(o), a, x)
    PROVE  InBox(inbox, a, x)
<1>1. CASE a = o
  <2>1. PICK i \in 1..Len(Popped(o)[o]) : Popped(o)[o][i] = x
    BY <1>1 DEF InBox
  <2>2. inbox[o][i + 1] = x /\ i + 1 \in 1..Len(inbox[o])
    BY <2>1, PopShifts
  <2> QED BY <1>1, <2>2 DEF InBox
<1>2. CASE a # o
  BY <1>2, PopShifts DEF InBox
<1> QED
  BY <1>1, <1>2

(* The message that is read is in the box of its reader.                   *)
LEMMA HeadIn ==
    ASSUME inbox \in Boxes, NEW o \in Agents, Len(inbox[o]) > 0
    PROVE  InBox(inbox, o, Head(inbox[o]))
BY PopShifts DEF InBox

(* The enumeration of a set of orders has each of them once.               *)
LEMMA EachOnce ==
    ASSUME NEW S \in SUBSET Requests
    PROVE  /\ \A r \in S : \E i \in 1..Len(SetToSeq(S)) : SetToSeq(S)[i] = r
           /\ \A i, j \in 1..Len(SetToSeq(S)) : SetToSeq(S)[i] = SetToSeq(S)[j] => i = j
<1> DEFINE n == Cardinality(S)
<1>1. IsFiniteSet(S)
  BY AgentsAssumption, FS_Subset
<1>2. n \in Nat /\ ExistsBijection(1..n, S)
  BY <1>1, FS_CardinalityType
<1>3. \E f \in [1..n -> S] : IsInjective(f)
  <2>1. PICK f \in [1..n -> S] : \A i, j \in 1..n : f[i] = f[j] => i = j
    BY <1>2 DEF ExistsBijection, Bijection, Injection, IsInjective
  <2> QED
    BY <2>1 DEF IsInjective
<1>4. SetToSeq(S) \in [1..n -> S] /\ IsInjective(SetToSeq(S))
  BY <1>3 DEF SetToSeq
<1>5. Len(SetToSeq(S)) = n
  BY <1>2, <1>4, LenProperties, IsASeq
<1> DEFINE f == SetToSeq(S)
<1> HIDE DEF f
<1>6. f \in Injection(1..n, S)
  BY <1>4 DEF f, Injection, IsInjective
<1>7. IsFiniteSet(1..n) /\ Cardinality(1..n) = n
  BY <1>2, FS_Interval
<1>8. f \in Surjection(1..n, S)
  BY <1>1, <1>6, <1>7, FS_Injection
<1>9. \A r \in S : \E i \in 1..n : f[i] = r
  BY <1>8 DEF Surjection
<1> QED
  BY <1>4, <1>5, <1>9 DEF f, IsInjective

ToTell(orders, a) == SetToSeq({r \in orders : vendor[r] = a})

(* Posting to vendors appends one message for each order of theirs.        *)
LEMMA VendorsShape ==
    ASSUME inbox \in Boxes, NEW type \in MessageTypes, NEW f \in Agents,
           NEW orders \in SUBSET Requests, NEW a \in Agents
    PROVE  LET told == ToTell(orders, a)
               box == PostToVendors(type, f, orders)[a]
           IN  /\ Len(inbox[a]) \in Nat /\ Len(told) \in Nat
               /\ Len(box) = Len(inbox[a]) + Len(told)
               /\ \A i \in 1..Len(inbox[a]) : box[i] = inbox[a][i]
               /\ \A i \in 1..Len(told) : /\ told[i] \in orders /\ vendor[told[i]] = a
                                         /\ box[Len(inbox[a]) + i] = Mail(type, f, told[i])
<1> DEFINE S == {r \in orders : vendor[r] = a}
           told == ToTell(orders, a)
           new == [i \in 1..Len(told) |-> Mail(type, f, told[i])]
           box == PostToVendors(type, f, orders)[a]
<1>1. Len(told) \in Nat /\ \A i \in 1..Len(told) : told[i] \in S
  <2>1. S \in SUBSET Requests /\ told = SetToSeq(S)
    BY DEF ToTell
  <2> QED
    BY <2>1, Enumeration
<1>2. inbox[a] \in Seq(Message) /\ Len(inbox[a]) \in Nat
  BY LenProperties DEF Boxes
<1>3. new \in Seq(Message) /\ Len(new) = Len(told)
  <2>1. \A i \in 1..Len(told) : Mail(type, f, told[i]) \in Message
    BY <1>1, MailType
  <2>2. new \in [1..Len(told) -> Message] /\ DOMAIN new = 1..Len(told)
    BY <2>1
  <2> HIDE DEF told
  <2>3. new \in Seq(Message)
    BY <1>1, <2>2, IsASeq
  <2> QED
    BY <1>1, <2>2, <2>3, LenProperties
<1>4. box = inbox[a] \o new
  BY DEF PostToVendors, ToTell
<1> HIDE DEF told
<1>5. \A i \in 1..Len(told) : new[i] = Mail(type, f, told[i])
  OBVIOUS
<1> HIDE DEF new, box
<1>6. /\ Len(box) = Len(inbox[a]) + Len(new)
      /\ \A j \in 1..(Len(inbox[a]) + Len(new)) :
            box[j] = IF j <= Len(inbox[a]) THEN inbox[a][j] ELSE new[j - Len(inbox[a])]
  <2>1. SUFFICES ASSUME NEW s \in Seq(Message), NEW t \in Seq(Message)
                 PROVE  /\ Len(s \o t) = Len(s) + Len(t)
                        /\ \A j \in 1..(Len(s) + Len(t)) :
                              (s \o t)[j] = IF j <= Len(s) THEN s[j] ELSE t[j - Len(s)]
    BY <1>2, <1>3, <1>4, Zenon
  <2> QED
    BY ConcatProperties
<1>7. \A i \in 1..Len(inbox[a]) : box[i] = inbox[a][i]
  BY <1>1, <1>2, <1>3, <1>6
<1>8. ASSUME NEW i \in 1..Len(told)
      PROVE  box[Len(inbox[a]) + i] = Mail(type, f, told[i])
  <2>1. /\ Len(inbox[a]) + i \in 1..(Len(inbox[a]) + Len(new))
        /\ ~ (Len(inbox[a]) + i <= Len(inbox[a]))
        /\ Len(inbox[a]) + i - Len(inbox[a]) = i
    BY <1>1, <1>2, <1>3
  <2> QED
    BY <1>5, <1>6, <2>1, SMTT(30)
<1> QED
  BY <1>1, <1>2, <1>3, <1>6, <1>7, <1>8 DEF told, box

(* What is posted to vendors goes to the vendor of the order.              *)
LEMMA VendorsIn ==
    ASSUME inbox \in Boxes, NEW type \in MessageTypes, NEW f \in Agents,
           NEW orders \in SUBSET Requests, NEW a \in Agents, NEW x,
           InBox(PostToVendors(type, f, orders), a, x)
    PROVE  \/ InBox(inbox, a, x)
           \/ \E r \in orders : vendor[r] = a /\ x = Mail(type, f, r)
<1> DEFINE box == PostToVendors(type, f, orders)[a]
           told == ToTell(orders, a)
<1>1. PICK i \in 1..Len(box) : box[i] = x
  BY DEF InBox
<1>2. /\ Len(inbox[a]) \in Nat /\ Len(told) \in Nat
      /\ Len(box) = Len(inbox[a]) + Len(told)
      /\ \A j \in 1..Len(inbox[a]) : box[j] = inbox[a][j]
      /\ \A j \in 1..Len(told) : /\ told[j] \in orders /\ vendor[told[j]] = a
                                /\ box[Len(inbox[a]) + j] = Mail(type, f, told[j])
  BY VendorsShape
<1> HIDE DEF box, told
<1>3. CASE i \in 1..Len(inbox[a])
  BY <1>1, <1>2, <1>3 DEF InBox
<1>4. CASE i \notin 1..Len(inbox[a])
  <2>1. i - Len(inbox[a]) \in 1..Len(told) /\ i = Len(inbox[a]) + (i - Len(inbox[a]))
    BY <1>1, <1>2, <1>4
  <2> QED
    BY <1>1, <1>2, <2>1
<1> QED
  BY <1>3, <1>4

(* An answer to a message that was read.                                   *)
LEMMA AnswerIn ==
    ASSUME inbox \in Boxes, NEW o \in Agents, Len(inbox[o]) > 0, NEW to, NEW m,
           NEW a \in Agents, NEW x, InBox(Post(Popped(o), to, m), a, x)
    PROVE  InBox(inbox, a, x) \/ (a = to /\ x = m)
<1>1. Popped(o) \in Boxes
  BY PopShifts
<1>2. InBox(Popped(o), a, x) \/ (a = to /\ x = m)
  BY <1>1, PostIn
<1> QED
  BY <1>2, PopIn

(* Orders once placed keep their vendor, so it is enough to look at what   *)
(* a step adds to the boxes and the queries.                               *)
LEMMA AddressedStep ==
    ASSUME TypeOK, Addressed,
           \A r \in Requests : status[r] # "none" =>
               status'[r] # "none" /\ vendor'[r] = vendor[r],
           \A a \in Agents : \A m \in Message :
               InBox(inbox', a, m) => InBox(inbox, a, m) \/ Fine(a, m)',
           \A q \in asked' \cup results' : q \in asked \cup results \/ FineQuery(q)'
    PROVE  Addressed'
<1>1. ASSUME NEW a \in Agents, NEW m \in Message, InBox(inbox, a, m)' PROVE Fine(a, m)'
  <2>1. InBox(inbox, a, m) => Fine(a, m)
    BY DEF Addressed
  <2>2. m.order \in Requests
    BY DEF Message
  <2> QED
    BY <1>1, <2>1, <2>2 DEF Fine, InBox
<1>2. ASSUME NEW q \in asked' \cup results' PROVE FineQuery(q)'
  <2>1. CASE q \in asked \cup results
    <3>1. FineQuery(q) /\ q.orders \in SUBSET Requests
      BY <2>1 DEF Addressed, TypeOK, Query
    <3> QED
      BY <3>1 DEF FineQuery
  <2> QED
    BY <1>2, <2>1
<1> QED
  BY <1>1, <1>2 DEF Addressed

(* No consumer touches the seller's record.                                *)
LEMMA ConsumerAtSeller ==
    ASSUME UNCHANGED sellerVars, \A r \in Requests : AtSeller(r),
           \A r \in Requests : stage[r] # "none" => vendor'[r] = vendor[r]
    PROVE  \A r \in Requests : AtSeller(r)'
BY DEF AtSeller, Known, sellerVars

(* What the consumers send goes to the vendors.                            *)
LEMMA ConsumerAddressed ==
    ASSUME AInv, NEW c \in Consumers, ConsumerStep(c)
    PROVE  Addressed' /\ \A r \in Requests : AtSeller(r)'
<1>0. /\ TypeOK /\ QueuesOK /\ RestOK /\ inbox \in Boxes /\ Addressed
      /\ \A r \in Requests : AtSeller(r) /\ Sound(r)
      /\ c \in Agents /\ status \in [Requests -> Statuses]
      /\ vendor \in [Requests -> Sellers \cup Strangers \cup {NoAgent}]
  BY TypeSplits DEF AInv, IInv, QueuesOK, RestOK, Agents
<1>1. ASSUME UNCHANGED <<vendor, sellerVars>>, asked' = asked, results' \subseteq results,
             \A r \in Requests : status[r] # "none" => status'[r] # "none",
             \A a \in Agents : \A m \in Message :
                 InBox(inbox', a, m) => InBox(inbox, a, m) \/ Fine(a, m)'
      PROVE  Addressed' /\ \A r \in Requests : AtSeller(r)'
  BY <1>0, <1>1, AddressedStep, ConsumerAtSeller
<1>2. CASE OnProductDetailsResult(c)
  <2>1. asked' = asked /\ results' \subseteq results /\ UNCHANGED sellerVars
    BY <1>2 DEF OnProductDetailsResult, Reads
  <2>2. CASE UNCHANGED <<inbox, consumerVars>>
    BY <1>1, <2>1, <2>2 DEF consumerVars
  <2>3. ASSUME NEW o \in Requests, NEW s \in Sellers \cup Strangers,
               status[o] = "none",
               status' = [status EXCEPT ![o] = "requested"],
               vendor' = [vendor EXCEPT ![o] = s],
               inbox' = Post(inbox, s, Mail("place_order", c, o))
        PROVE  Addressed' /\ \A r \in Requests : AtSeller(r)'
    <3>1. \A r \in Requests : status[r] # "none" =>
              status'[r] # "none" /\ vendor'[r] = vendor[r]
      BY <1>0, <2>3
    <3>2. stage[o] = "none"
      BY <1>0, <2>3 DEF Sound
    <3>3. ASSUME NEW a \in Agents, NEW m \in Message, InBox(inbox', a, m)
          PROVE  InBox(inbox, a, m) \/ Fine(a, m)'
      <4>1. InBox(inbox, a, m) \/ (a = s /\ m = Mail("place_order", c, o))
        BY <1>0, <2>3, <3>3, PostIn
      <4>2. status'[o] = "requested" /\ vendor'[o] = s
        BY <1>0, <2>3
      <4> QED
        BY <4>1, <4>2 DEF Fine, Mail
    <3>4. Addressed'
      BY <1>0, <2>1, <3>1, <3>3, AddressedStep
    <3> QED
      BY <1>0, <2>1, <2>3, <3>2, <3>4, ConsumerAtSeller
  <2> QED
    BY <1>2, <2>2, <2>3 DEF OnProductDetailsResult
<1>3. CASE OnOrderHistoryResult(c)
  <2>1. PICK orders \in SUBSET Requests :
          /\ \A r \in orders : status[r] \in Pending
          /\ status' = [r \in Requests |->
                 IF r \in orders THEN "cancel_requested" ELSE status[r]]
          /\ inbox' = PostToVendors("cancel_request", c, orders)
          /\ UNCHANGED <<vendor, asked, sellerVars>> /\ results' \subseteq results
    <3>0. PICK q \in results : /\ Reads(c, q)
                              /\ \E late \in SUBSET q.orders :
                                   LET orders == {r \in late : status[r] \in Pending}
                                   IN  /\ status' = [r \in Requests |->
                                           IF r \in orders THEN "cancel_requested"
                                           ELSE status[r]]
                                       /\ inbox' = PostToVendors("cancel_request", c, orders)
      BY <1>3 DEF OnOrderHistoryResult
    <3>1. PICK late \in SUBSET q.orders :
            /\ status' = [r \in Requests |->
                 IF r \in {x \in late : status[x] \in Pending}
                 THEN "cancel_requested" ELSE status[r]]
            /\ inbox' = PostToVendors("cancel_request", c,
                                      {x \in late : status[x] \in Pending})
            /\ UNCHANGED <<vendor, asked, sellerVars>> /\ results' \subseteq results
      BY <1>3, <3>0 DEF OnOrderHistoryResult, Reads
    <3>2. {x \in late : status[x] \in Pending} \in SUBSET Requests
      BY <1>0, <3>1 DEF RestOK, Query
    <3> QED
      BY <3>1, <3>2
  <2>2. ASSUME NEW a \in Agents, NEW m \in Message, InBox(inbox', a, m)
        PROVE  InBox(inbox, a, m) \/ Fine(a, m)'
    <3>1. \/ InBox(inbox, a, m)
          \/ \E r \in orders : vendor[r] = a /\ m = Mail("cancel_request", c, r)
      BY <1>0, <2>1, <2>2, VendorsIn DEF MessageTypes
    <3> QED
      BY <2>1, <3>1 DEF Fine, Mail
  <2> QED
    BY <1>1, <2>1, <2>2 DEF Pending
<1>4. ASSUME NEW type, NEW o \in Requests, Receives(c, type, o),
             UNCHANGED <<vendor, asked, sellerVars>>,
             \A r \in Requests : status[r] # "none" => status'[r] # "none",
             \/ inbox' = Popped(c)
             \/ /\ inbox' = Post(Popped(c), Head(inbox[c]).from, Mail("payment", c, o))
                /\ type = "order_accepted"
      PROVE  Addressed' /\ \A r \in Requests : AtSeller(r)'
  <2>1. Len(inbox[c]) > 0 /\ Head(inbox[c]) \in Message /\ results' \subseteq results
    BY <1>0, <1>4, InHand DEF Receives
  <2>2. Fine(c, Head(inbox[c]))
    BY <1>0, <2>1, HeadIn DEF Addressed
  <2>3. ASSUME NEW a \in Agents, NEW m \in Message, InBox(inbox', a, m)
        PROVE  InBox(inbox, a, m) \/ Fine(a, m)'
    <3>1. CASE inbox' = Popped(c)
      BY <1>0, <2>1, <2>3, <3>1, PopIn
    <3>2. CASE /\ inbox' = Post(Popped(c), Head(inbox[c]).from, Mail("payment", c, o))
               /\ type = "order_accepted"
      <4>1. InBox(inbox, a, m) \/ (a = Head(inbox[c]).from /\ m = Mail("payment", c, o))
        BY <1>0, <2>1, <2>3, <3>2, AnswerIn
      <4>2. status[o] # "none" /\ vendor[o] = Head(inbox[c]).from
        BY <1>4, <2>2, <3>2 DEF Fine, Receives
      <4> QED
        BY <1>4, <4>1, <4>2 DEF Fine, Mail
    <3> QED
      BY <1>4, <3>1, <3>2
  <2> QED
    BY <1>1, <1>4, <2>1, <2>3
<1>5. CASE OnOrderAccepted(c)
  BY <1>0, <1>4, <1>5 DEF OnOrderAccepted
<1>6. CASE OnShipmentNotification(c)
  BY <1>0, <1>4, <1>6 DEF OnShipmentNotification
<1>7. CASE OnCancelConfirmed(c)
  BY <1>0, <1>4, <1>7 DEF OnCancelConfirmed
<1>8. CASE OnCancelRejected(c)
  BY <1>0, <1>4, <1>8 DEF OnCancelRejected
<1>9. CASE ConsumerFires(c)
  <2>1. /\ UNCHANGED <<inbox, status, vendor, results, sellerVars>>
        /\ \A q \in asked' : q \in asked \/ q.template # "inventory_check"
    BY <1>9 DEF ConsumerFires, Fires, HistoryChecks, Ask, consumerVars
  <2>2. Addressed'
    BY <1>0, <2>1, AddressedStep DEF FineQuery
  <2> QED
    BY <1>0, <2>1, <2>2, ConsumerAtSeller
<1> QED
  BY <1>2, <1>3, <1>5, <1>6, <1>7, <1>8, <1>9 DEF ConsumerStep

(* With usable ids a delivery matches the order it is about and no other.  *)
LEMMA OnlyMatch ==
    ASSUME TypeOK, IdsAreUsable, NEW s \in Sellers, NEW o \in Requests,
           NEW i \in Matches(s, o)
    PROVE  book[s][i] = o
<1>1. book[s][i] \in Requests
  BY ElementOfSeq DEF TypeOK, Matches
<1>2. StoreId[book[s][i]] = StoreId[o]
  BY DEF Matches, OrderId, IdsAreUsable
<1> QED
  BY <1>1, <1>2 DEF IdsAreUsable

(* A known order stays in its seller's book, which only grows.             *)
LEMMA SellerAtSeller ==
    ASSUME TypeOK, \A r \in Requests : AtSeller(r), vendor' = vendor,
           \A s \in Sellers : \A i \in 1..Len(book[s]) :
               i \in 1..Len(book'[s]) /\ book'[s][i] = book[s][i],
           NEW o \in Requests, vendor[o] \in Sellers,
           \A r \in Requests \ {o} : stage'[r] = stage[r],
           Known(o) \/ ~ Known(o)' \/ \E i \in 1..Len(book'[vendor[o]]) : book'[vendor[o]][i] = o
    PROVE  \A r \in Requests : AtSeller(r)'
<1> SUFFICES ASSUME NEW r \in Requests PROVE AtSeller(r)'
  OBVIOUS
<1>1. CASE r = o
  BY <1>1 DEF AtSeller
<1>2. CASE r # o
  BY <1>2 DEF AtSeller, Known
<1> QED
  BY <1>1, <1>2

(* A seller gets messages about its own orders only and answers no vendor; *)
(* its acceptance says who it is.                                          *)
LEMMA SellerAddressed ==
    ASSUME AInv, IdsAreUsable, NEW s \in Sellers, SellerStep(s)
    PROVE  Addressed' /\ \A r \in Requests : AtSeller(r)'
<1>0. /\ TypeOK /\ QueuesOK /\ RestOK /\ inbox \in Boxes /\ Addressed
      /\ \A r \in Requests : AtSeller(r) /\ Sound(r)
      /\ s \in Agents /\ Transport \in Agents /\ Government \in Agents
      /\ stage \in [Requests -> Stages] /\ book \in [Sellers -> Seq(Requests)]
      /\ \A t \in Sellers : Len(book[t]) \in Nat
  BY TypeSplits, LenProperties DEF AInv, IInv, QueuesOK, RestOK, Agents
<1>1. UNCHANGED consumerVars
  BY DEF SellerStep, OnInventoryCheckResult, OnPlaceOrder, OnPayment,
         OnDeliveryComplete, OnCancelRequest, OthersFire
<1>2. ASSUME NEW o \in Requests, vendor[o] = s, book' = book,
             \A r \in Requests \ {o} : stage'[r] = stage[r], Known(o) \/ ~ Known(o)'
      PROVE  \A r \in Requests : AtSeller(r)'
  BY <1>0, <1>1, <1>2, SellerAtSeller DEF consumerVars
<1>3. ASSUME \A a \in Agents : \A m \in Message :
                 InBox(inbox', a, m) => InBox(inbox, a, m) \/ Fine(a, m),
             \A q \in asked' \cup results' : q \in asked \cup results \/ FineQuery(q)
      PROVE  Addressed'
  <2>1. /\ \A a \in Agents : \A m \in Message : Fine(a, m)' <=> Fine(a, m)
        /\ \A q : FineQuery(q)' <=> FineQuery(q)
    BY <1>1 DEF Fine, FineQuery, consumerVars
  <2> QED
    BY <1>0, <1>1, <1>3, <2>1, AddressedStep DEF consumerVars
<1>4. ASSUME NEW type \in ToVendor, NEW o \in Requests, Receives(s, type, o)
      PROVE  vendor[o] = s /\ status[o] # "none" /\ Len(inbox[s]) > 0 /\ results' = results
  <2>1. Len(inbox[s]) > 0 /\ Head(inbox[s]) \in Message
    BY <1>0, <1>4, InHand
  <2>2. Fine(s, Head(inbox[s]))
    BY <1>0, <2>1, HeadIn DEF Addressed
  <2> QED
    BY <1>4, <2>1, <2>2 DEF Fine, Receives
<1>5. CASE OnInventoryCheckResult(s)
  <2>1. PICK q \in results, o \in Requests :
          /\ q.agent = s /\ q.template = "inventory_check" /\ q.orders = {o}
          /\ \/ /\ stage[o] = "queued"
                /\ stage' = [stage EXCEPT ![o] = "accepted"]
                /\ book' = [book EXCEPT ![s] = Append(@, o)]
                /\ inbox' = Post(inbox, buyer[o], Mail("order_accepted", s, o))
             \/ UNCHANGED <<inbox, sellerVars>>
          /\ results' \subseteq results /\ asked' = asked
    BY <1>5 DEF OnInventoryCheckResult, Reads
  <2>2. vendor[o] = s /\ status[o] # "none"
    BY <1>0, <2>1 DEF Addressed, FineQuery
  <2>3. CASE UNCHANGED <<inbox, sellerVars>>
    BY <1>2, <1>3, <2>1, <2>2, <2>3 DEF sellerVars, Known
  <2>4. CASE /\ stage' = [stage EXCEPT ![o] = "accepted"]
             /\ book' = [book EXCEPT ![s] = Append(@, o)]
             /\ inbox' = Post(inbox, buyer[o], Mail("order_accepted", s, o))
    <3>1. ASSUME NEW a \in Agents, NEW m \in Message, InBox(inbox', a, m)
          PROVE  InBox(inbox, a, m) \/ Fine(a, m)
      <4>1. InBox(inbox, a, m) \/ m = Mail("order_accepted", s, o)
        BY <1>0, <2>4, <3>1, PostIn
      <4> QED
        BY <2>2, <4>1 DEF Fine, Mail, ToVendor
    <3>2. Addressed'
      BY <1>3, <2>1, <3>1
    <3>3. /\ book[s] \in Seq(Requests)
          /\ book'[s] = Append(book[s], o) /\ \A t \in Sellers \ {s} : book'[t] = book[t]
      BY <1>0, <2>4
    <3>4. /\ Len(book'[s]) = Len(book[s]) + 1
          /\ \A i \in 1..Len(book[s]) : book'[s][i] = book[s][i]
          /\ book'[s][Len(book[s]) + 1] = o
      BY <3>3, AppendProperties
    <3>5. \A t \in Sellers : \A i \in 1..Len(book[t]) :
              i \in 1..Len(book'[t]) /\ book'[t][i] = book[t][i]
      <4>1. \A i \in 1..Len(book[s]) : i \in 1..Len(book'[s]) /\ book'[s][i] = book[s][i]
        BY <1>0, <3>4
      <4>2. ASSUME NEW t \in Sellers, t # s, NEW i \in 1..Len(book[t])
            PROVE  i \in 1..Len(book'[t]) /\ book'[t][i] = book[t][i]
        BY <3>3, <4>2
      <4> QED
        BY <4>1, <4>2
    <3>6. Len(book[s]) + 1 \in 1..Len(book'[s])
      BY <1>0, <3>4
    <3>7. \A r \in Requests \ {o} : stage'[r] = stage[r]
      BY <1>0, <2>4
    <3>8. vendor' = vendor
      BY <1>1 DEF consumerVars
    <3>9. \A r \in Requests : AtSeller(r)'
      BY <1>0, <2>2, <3>4, <3>5, <3>6, <3>7, <3>8, SellerAtSeller
    <3> QED
      BY <3>2, <3>9
  <2> QED
    BY <2>1, <2>3, <2>4
<1>6. CASE OnPlaceOrder(s)
  <2>1. PICK o \in Requests :
          /\ Receives(s, "place_order", o) /\ inbox' = Popped(s)
          /\ stage' = [stage EXCEPT ![o] = "queued"] /\ book' = book
          /\ asked' = asked \cup {Ask(s, "inventory_check", 0, {o})}
    BY <1>6 DEF OnPlaceOrder
  <2>2. vendor[o] = s /\ status[o] # "none" /\ Len(inbox[s]) > 0 /\ results' = results
    BY <1>4, <2>1 DEF ToVendor
  <2>3. \A a \in Agents : \A m : InBox(inbox', a, m) => InBox(inbox, a, m)
    BY <1>0, <2>1, <2>2, PopIn
  <2>4. FineQuery(Ask(s, "inventory_check", 0, {o}))
    BY <2>2 DEF FineQuery, Ask
  <2>5. Addressed'
    BY <1>3, <2>1, <2>2, <2>3, <2>4
  <2>6. ~ Known(o)' /\ \A r \in Requests \ {o} : stage'[r] = stage[r]
    BY <1>0, <2>1 DEF Known
  <2> QED
    BY <1>2, <2>1, <2>2, <2>5, <2>6
<1>7. CASE OnPayment(s)
  <2>1. PICK o \in Requests :
          /\ Receives(s, "payment", o)
          /\ \/ /\ stage[o] = "accepted" /\ stage' = [stage EXCEPT ![o] = "paid"]
                /\ inbox' = Post(Post(Popped(s), Transport, Mail("ship_request", s, o)),
                                 Government, Mail("order_report", s, o))
             \/ inbox' = Popped(s) /\ stage' = stage
          /\ UNCHANGED <<asked, book>>
    BY <1>7 DEF OnPayment, Payable
  <2>2. vendor[o] = s /\ status[o] # "none" /\ Len(inbox[s]) > 0 /\ results' = results
    BY <1>4, <2>1 DEF ToVendor
  <2>3. ASSUME NEW a \in Agents, NEW m \in Message, InBox(inbox', a, m)
        PROVE  InBox(inbox, a, m) \/ Fine(a, m)
    <3> DEFINE half == Post(Popped(s), Transport, Mail("ship_request", s, o))
    <3>1. CASE inbox' = Popped(s)
      BY <1>0, <2>2, <2>3, <3>1, PopIn
    <3>2. CASE inbox' = Post(half, Government, Mail("order_report", s, o))
      <4>1. half \in Boxes
        BY <1>0, <2>1, InHand, PostType, MailType DEF MessageTypes
      <4>2. InBox(half, a, m) \/ m = Mail("order_report", s, o)
        BY <2>3, <3>2, <4>1, PostIn
      <4>3. InBox(half, a, m) => InBox(inbox, a, m) \/ m = Mail("ship_request", s, o)
        BY <1>0, <2>2, AnswerIn
      <4> QED
        BY <2>2, <4>2, <4>3 DEF Fine, Mail, ToVendor
    <3> QED
      BY <2>1, <3>1, <3>2
  <2>4. Addressed'
    BY <1>3, <2>1, <2>2, <2>3
  <2> QED
    BY <1>0, <1>2, <2>1, <2>2, <2>4 DEF Known
<1>8. CASE OnDeliveryComplete(s)
  <2>1. PICK o \in Requests :
          /\ Receives(s, "delivery_complete", o)
          /\ \/ inbox' = Popped(s) /\ stage' = stage
             \/ \E i \in Matches(s, o) :
                    /\ stage' = [stage EXCEPT ![book[s][i]] = "delivered"]
                    /\ inbox' = Post(Popped(s), buyer[book[s][i]],
                                     Mail("shipment_notification", s, book[s][i]))
          /\ UNCHANGED <<asked, book>>
    BY <1>8 DEF OnDeliveryComplete
  <2>2. vendor[o] = s /\ status[o] # "none" /\ Len(inbox[s]) > 0 /\ results' = results
    BY <1>4, <2>1 DEF ToVendor
  <2>3. stage[o] \in {"paid", "delivered"}
    BY <1>0, <2>1, InHand DEF Sound
  <2>4. \A i \in Matches(s, o) : book[s][i] = o
    BY <1>0, OnlyMatch
  <2>5. ASSUME NEW a \in Agents, NEW m \in Message, InBox(inbox', a, m)
        PROVE  InBox(inbox, a, m) \/ Fine(a, m)
    <3>1. CASE inbox' = Popped(s)
      BY <1>0, <2>2, <2>5, <3>1, PopIn
    <3>2. CASE inbox' = Post(Popped(s), buyer[o], Mail("shipment_notification", s, o))
      <4>1. InBox(inbox, a, m) \/ m = Mail("shipment_notification", s, o)
        BY <1>0, <2>2, <2>5, <3>2, AnswerIn
      <4> QED
        BY <2>2, <4>1 DEF Fine, Mail, ToVendor
    <3> QED
      BY <2>1, <2>4, <3>1, <3>2
  <2>6. Addressed'
    BY <1>3, <2>1, <2>2, <2>5
  <2> QED
    BY <1>0, <1>2, <2>1, <2>2, <2>3, <2>4, <2>6 DEF Known
<1>9. CASE OnCancelRequest(s)
  <2>1. PICK o \in Requests :
          /\ Receives(s, "cancel_request", o)
          /\ \/ inbox' = Popped(s)
             \/ \E t \in {"cancel_confirmed", "cancel_rejected"} :
                  inbox' = Post(Popped(s), Head(inbox[s]).from, Mail(t, s, o))
          /\ \/ stage[o] = "accepted" /\ stage' = [stage EXCEPT ![o] = "cancelled"]
             \/ stage' = stage
          /\ UNCHANGED <<asked, book>>
    BY <1>9 DEF OnCancelRequest, Cancellable
  <2>2. vendor[o] = s /\ status[o] # "none" /\ Len(inbox[s]) > 0 /\ results' = results
    BY <1>4, <2>1 DEF ToVendor
  <2>3. ASSUME NEW a \in Agents, NEW m \in Message, InBox(inbox', a, m)
        PROVE  InBox(inbox, a, m) \/ Fine(a, m)
    <3>1. CASE inbox' = Popped(s)
      BY <1>0, <2>2, <2>3, <3>1, PopIn
    <3>2. ASSUME NEW t \in {"cancel_confirmed", "cancel_rejected"},
                 inbox' = Post(Popped(s), Head(inbox[s]).from, Mail(t, s, o))
          PROVE  InBox(inbox, a, m) \/ Fine(a, m)
      <4>1. InBox(inbox, a, m) \/ m = Mail(t, s, o)
        BY <1>0, <2>2, <2>3, <3>2, AnswerIn
      <4> QED
        BY <2>2, <4>1 DEF Fine, Mail, ToVendor
    <3> QED
      BY <2>1, <3>1, <3>2
  <2>4. Addressed'
    BY <1>3, <2>1, <2>2, <2>3
  <2> QED
    BY <1>0, <1>2, <2>1, <2>2, <2>4 DEF Known
<1>10. CASE OthersFire(s)
  <2>1. UNCHANGED <<inbox, asked, results, stage, book>>
    BY <1>10 DEF OthersFire, Fires, sellerVars
  <2>2. Addressed'
    BY <1>3, <2>1
  <2> QED
    BY <1>0, <1>1, <2>1, <2>2 DEF AtSeller, Known, consumerVars
<1> QED
  BY <1>5, <1>6, <1>7, <1>8, <1>9, <1>10 DEF SellerStep

(* Transport tells the vendor; nothing else here posts anything.           *)
LEMMA OtherAddressed ==
    ASSUME AInv,
           \/ OnShipRequest \/ UpdateTracking \/ OnOrderReport
           \/ OthersFire(Government) \/ EndTick
    PROVE  Addressed' /\ \A r \in Requests : AtSeller(r)'
<1>0. /\ TypeOK /\ QueuesOK /\ inbox \in Boxes /\ Addressed
      /\ \A r \in Requests : AtSeller(r) /\ Sound(r)
      /\ Transport \in Agents /\ Government \in Agents
  BY TypeSplits DEF AInv, IInv, QueuesOK, Agents
<1>1. UNCHANGED <<consumerVars, sellerVars>>
  BY DEF OnShipRequest, UpdateTracking, OnOrderReport, OthersFire, EndTick
<1>2. \A r \in Requests : AtSeller(r)'
  BY <1>0, <1>1 DEF AtSeller, Known, consumerVars, sellerVars
<1>3. /\ \A a \in Agents : \A m \in Message : Fine(a, m)' <=> Fine(a, m)
      /\ \A q : FineQuery(q)' <=> FineQuery(q)
  BY <1>1 DEF Fine, FineQuery, consumerVars
<1>4. ASSUME \A a \in Agents : \A m \in Message :
                 InBox(inbox', a, m) => InBox(inbox, a, m) \/ Fine(a, m),
             \A q \in asked' \cup results' : q \in asked \cup results \/ FineQuery(q)
      PROVE  Addressed'
  BY <1>0, <1>1, <1>3, <1>4, AddressedStep DEF consumerVars
<1>5. ASSUME NEW g \in {Transport, Government}, NEW type, NEW o \in Requests,
             Receives(g, type, o), inbox' = Popped(g), asked' = asked
      PROVE  Addressed'
  <2>1. Len(inbox[g]) > 0 /\ results' = results
    BY <1>0, <1>5, InHand DEF Receives
  <2> QED
    BY <1>0, <1>4, <1>5, <2>1, PopIn
<1>6. CASE OnShipRequest
  BY <1>2, <1>5, <1>6 DEF OnShipRequest
<1>7. CASE UpdateTracking
  <2>1. /\ inbox' = PostToVendors("delivery_complete", Transport, Arrived)
        /\ UNCHANGED <<asked, results>>
    BY <1>7 DEF UpdateTracking, Fires
  <2>2. Arrived \in SUBSET Requests
    BY DEF Arrived
  <2>3. \A r \in Arrived : status[r] # "none"
    BY <1>0 DEF Sound, Arrived, NoShipment
  <2>4. ASSUME NEW a \in Agents, NEW m \in Message, InBox(inbox', a, m)
        PROVE  InBox(inbox, a, m) \/ Fine(a, m)
    <3>1. \/ InBox(inbox, a, m)
          \/ \E r \in Arrived : vendor[r] = a /\ m = Mail("delivery_complete", Transport, r)
      BY <1>0, <2>1, <2>2, <2>4, VendorsIn DEF MessageTypes
    <3> QED
      BY <2>3, <3>1 DEF Fine, Mail
  <2> QED
    BY <1>2, <1>4, <2>1, <2>4
<1>8. CASE OnOrderReport
  BY <1>2, <1>5, <1>8 DEF OnOrderReport
<1>9. CASE OthersFire(Government)
  BY <1>2, <1>4, <1>9 DEF OthersFire, Fires
<1>10. CASE EndTick
  <2>1. inbox' = inbox /\ asked' = {} /\ results' = {Answer(q) : q \in asked}
    BY <1>10 DEF EndTick
  <2>2. ASSUME NEW q \in asked PROVE FineQuery(Answer(q))
    <3>1. CASE q.template = "order_history"
      BY <1>0, <2>2, <3>1 DEF FineQuery, Answer, TypeOK, Query
    <3>2. CASE q.template # "order_history"
      BY <1>0, <2>2, <3>2 DEF FineQuery, Answer, Addressed
    <3> QED
      BY <3>1, <3>2
  <2> QED
    BY <1>2, <1>4, <2>1, <2>2
<1> QED
  BY <1>6, <1>7, <1>8, <1>9, <1>10

(* What is addressed holds throughout.                                     *)
LEMMA AInvHolds ==
    ASSUME IdsAreUsable
    PROVE  Spec => []AInv
<1>1. Init => AInv
  <2> SUFFICES ASSUME Init PROVE AInv
    OBVIOUS
  <2>1. IInv
    BY SoundInit
  <2>2. \A a \in Agents : 1..Len(inbox[a]) = {}
    BY EmptySeq DEF Init
  <2>3. Addressed
    BY <2>2 DEF Init, Addressed, InBox
  <2>4. \A r \in Requests : AtSeller(r)
    BY DEF Init, AtSeller, Known
  <2> QED
    BY <2>1, <2>3, <2>4 DEF AInv
<1>2. AInv /\ [Next]_vars => AInv'
  <2> SUFFICES ASSUME AInv, [Next]_vars PROVE AInv'
    OBVIOUS
  <2>1. IInv'
    BY Inductive DEF AInv
  <2>2. CASE UNCHANGED vars
    <3>1. Addressed'
      BY <2>2 DEF AInv, vars, Addressed, InBox, Fine, FineQuery
    <3>2. \A r \in Requests : AtSeller(r)'
      BY <2>2 DEF AInv, vars, AtSeller, Known
    <3> QED
      BY <2>1, <3>1, <3>2 DEF AInv
  <2>3. CASE Next
    <3>1. Addressed' /\ \A r \in Requests : AtSeller(r)'
      BY <2>3, ConsumerAddressed, SellerAddressed, OtherAddressed DEF Next
    <3> QED
      BY <2>1, <3>1 DEF AInv
  <2> QED
    BY <2>2, <2>3
<1> QED
  BY <1>1, <1>2, PTL DEF Spec
-----------------------------------------------------------------------------
(* The stock.                                                              *)

(* The stages in which an order holds stock, and the orders of a seller    *)
(* that do.                                                                *)
Live == {"accepted", "paid", "delivered"}
Holding(s) == {r \in Requests : vendor[r] = s /\ stage[r] \in Live}

(* Only requests hold stock, and of these there are finitely many.         *)
LEMMA HoldingIsFinite ==
    ASSUME NEW s PROVE IsFiniteSet(Holding(s)) /\ Cardinality(Holding(s)) \in Nat
<1>1. Holding(s) \subseteq Requests
  BY DEF Holding
<1> QED
  BY <1>1, AgentsAssumption, FS_Subset, FS_CardinalityType

(* The ledger looks at who holds stock and nothing else.                   *)
LEMMA BalanceIs == InventoryBalances <=> \A s \in Sellers : sold[s] = Cardinality(Holding(s))
BY DEF InventoryBalances, Holding, Live

(* The same for the state after a step.                                    *)
LEMMA BalancePrime ==
    ASSUME \A s \in Sellers : sold'[s] = Cardinality(Holding(s)')
    PROVE  InventoryBalances'
BY DEF InventoryBalances, Holding, Live

(* A step that moves no order in or out of these stages.                   *)
LEMMA NothingMoves ==
    ASSUME AInv, InventoryBalances, sold' = sold,
           \A r \in Requests : stage'[r] \in Live <=> stage[r] \in Live,
           \A r \in Requests : stage[r] # "none" => vendor'[r] = vendor[r]
    PROVE  InventoryBalances'
<1>1. \A s \in Sellers : Holding(s)' = Holding(s)
  BY DEF Holding, Live
<1> QED
  BY <1>1, BalanceIs, BalancePrime

(* An order of s that begins to hold stock, and s counts it.               *)
LEMMA OneMore ==
    ASSUME AInv, InventoryBalances, vendor' = vendor, NEW s \in Sellers, NEW o \in Requests,
           vendor[o] = s, stage[o] \notin Live, stage'[o] \in Live,
           \A r \in Requests \ {o} : stage'[r] = stage[r],
           sold' = [sold EXCEPT ![s] = @ + 1]
    PROVE  InventoryBalances'
<1>1. \A t \in Sellers \ {s} : Holding(t)' = Holding(t)
  BY DEF Holding
<1>2. Holding(s)' = Holding(s) \cup {o} /\ o \notin Holding(s)
  BY DEF Holding
<1>3. Cardinality(Holding(s)') = Cardinality(Holding(s)) + 1
  BY <1>2, HoldingIsFinite, FS_AddElement
<1>4. sold \in [Sellers -> Int]
  BY DEF AInv, IInv, TypeOK
<1>5. \A t \in Sellers : sold'[t] = Cardinality(Holding(t)')
  BY <1>1, <1>3, <1>4, BalanceIs
<1> QED
  BY <1>5, BalancePrime

(* An order of s that no longer holds stock, and s takes it back.          *)
LEMMA OneLess ==
    ASSUME AInv, InventoryBalances, vendor' = vendor, NEW s \in Sellers, NEW o \in Requests,
           vendor[o] = s, stage[o] \in Live, stage'[o] \notin Live,
           \A r \in Requests \ {o} : stage'[r] = stage[r],
           sold' = [sold EXCEPT ![s] = @ - 1]
    PROVE  InventoryBalances'
<1>1. \A t \in Sellers \ {s} : Holding(t)' = Holding(t)
  BY DEF Holding
<1>2. Holding(s)' = Holding(s) \ {o} /\ o \in Holding(s)
  BY DEF Holding
<1>3. Cardinality(Holding(s)') = Cardinality(Holding(s)) - 1
  BY <1>2, HoldingIsFinite, FS_RemoveElement
<1>4. sold \in [Sellers -> Int]
  BY DEF AInv, IInv, TypeOK
<1>5. \A t \in Sellers : sold'[t] = Cardinality(Holding(t)')
  BY <1>1, <1>3, <1>4, BalanceIs
<1> QED
  BY <1>5, BalancePrime

(* A request is only ever placed once.                                     *)
LEMMA VendorStays ==
    ASSUME AInv, [Next]_vars, NEW r \in Requests, stage[r] # "none"
    PROVE  vendor'[r] = vendor[r]
<1>1. status[r] # "none"
  BY DEF AInv, IInv, Sound
<1>2. vendor \in [Requests -> Sellers \cup Strangers \cup {NoAgent}]
  BY DEF AInv, IInv, TypeOK
<1>3. CASE \E c \in Consumers : OnProductDetailsResult(c)
  <2>1. \/ vendor' = vendor
        \/ \E q \in Requests : \E s : status[q] = "none" /\ vendor' = [vendor EXCEPT ![q] = s]
    BY <1>3 DEF OnProductDetailsResult, consumerVars
  <2> QED
    BY <1>1, <1>2, <2>1
<1>4. CASE \E c \in Consumers : ConsumerStep(c) /\ ~ OnProductDetailsResult(c)
  BY <1>4 DEF ConsumerStep, OnOrderHistoryResult, OnOrderAccepted, OnShipmentNotification,
              OnCancelConfirmed, OnCancelRejected, ConsumerFires, consumerVars
<1>5. CASE \E s \in Sellers : SellerStep(s)
  BY <1>5 DEF SellerStep, OnInventoryCheckResult, OnPlaceOrder, OnPayment,
              OnDeliveryComplete, OnCancelRequest, OthersFire, consumerVars
<1>6. CASE OnShipRequest \/ UpdateTracking \/ OnOrderReport \/ OthersFire(Government) \/ EndTick
  BY <1>6 DEF OnShipRequest, UpdateTracking, OnOrderReport, OthersFire, EndTick, consumerVars
<1>7. CASE UNCHANGED vars
  BY <1>7 DEF vars
<1> QED
  BY <1>3, <1>4, <1>5, <1>6, <1>7 DEF Next

(* A message to a seller is about one of its orders.                       *)
LEMMA OwnOrder ==
    ASSUME AInv, NEW s \in Sellers, NEW type \in ToVendor, NEW o \in Requests,
           Receives(s, type, o)
    PROVE  vendor[o] = s
<1>1. QueuesOK /\ inbox \in Boxes /\ s \in Agents
  BY TypeSplits DEF AInv, IInv, QueuesOK, Agents
<1>2. Len(inbox[s]) > 0 /\ Head(inbox[s]) \in Message
  BY <1>1, InHand
<1>3. Fine(s, Head(inbox[s]))
  BY <1>1, <1>2, HeadIn DEF AInv, Addressed
<1> QED
  BY <1>3 DEF Fine, Receives

(* A seller counts every order that begins or ceases to hold stock.        *)
LEMMA SellerBalances ==
    ASSUME AInv, IdsAreUsable, InventoryBalances, NEW s \in Sellers, SellerStep(s)
    PROVE  InventoryBalances'
<1>0. /\ TypeOK /\ QueuesOK /\ s \in Agents /\ \A r \in Requests : Sound(r)
      /\ stage \in [Requests -> Stages]
  BY TypeSplits DEF AInv, IInv, TypeOK, Agents
<1>1. vendor' = vendor
  BY DEF SellerStep, OnInventoryCheckResult, OnPlaceOrder, OnPayment,
         OnDeliveryComplete, OnCancelRequest, OthersFire, consumerVars
<1>2. ASSUME sold' = sold, NEW o \in Requests,
             \A r \in Requests \ {o} : stage'[r] = stage[r],
             stage'[o] \in Live <=> stage[o] \in Live
      PROVE  InventoryBalances'
  BY <1>1, <1>2, NothingMoves
<1>3. CASE OnInventoryCheckResult(s)
  <2>1. PICK q \in results, o \in Requests :
          /\ q.agent = s /\ q.template = "inventory_check" /\ q.orders = {o}
          /\ \/ /\ stage[o] = "queued" /\ stage' = [stage EXCEPT ![o] = "accepted"]
                /\ sold' = [sold EXCEPT ![s] = @ + 1]
             \/ UNCHANGED sellerVars
    BY <1>3 DEF OnInventoryCheckResult, Reads
  <2>2. vendor[o] = s
    BY <2>1 DEF AInv, Addressed, FineQuery
  <2>3. CASE UNCHANGED sellerVars
    BY <1>2, <2>3 DEF sellerVars
  <2> QED
    BY <1>0, <1>1, <2>1, <2>2, <2>3, OneMore DEF Live
<1>4. CASE OnPlaceOrder(s)
  <2>1. PICK o \in Requests :
          /\ Receives(s, "place_order", o) /\ sold' = sold
          /\ stage' = [stage EXCEPT ![o] = "queued"]
    BY <1>4 DEF OnPlaceOrder
  <2>2. stage[o] = "none"
    BY <1>0, <2>1, InHand DEF Sound
  <2> QED
    BY <1>0, <1>2, <2>1, <2>2 DEF Live
<1>5. CASE OnPayment(s)
  <2>1. /\ sold' = sold
        /\ \E o \in Requests : \/ stage[o] = "accepted" /\ stage' = [stage EXCEPT ![o] = "paid"]
                               \/ stage' = stage
    BY <1>5 DEF OnPayment, Payable
  <2> QED
    BY <1>0, <1>2, <2>1 DEF Live
<1>6. CASE OnDeliveryComplete(s)
  <2>1. PICK o \in Requests :
          /\ Receives(s, "delivery_complete", o) /\ sold' = sold
          /\ \/ stage' = stage
             \/ \E i \in Matches(s, o) : stage' = [stage EXCEPT ![book[s][i]] = "delivered"]
    BY <1>6 DEF OnDeliveryComplete
  <2>2. stage[o] \in {"paid", "delivered"}
    BY <1>0, <2>1, InHand DEF Sound
  <2>3. stage' = stage \/ stage' = [stage EXCEPT ![o] = "delivered"]
    BY <1>0, <2>1, OnlyMatch
  <2> QED
    BY <1>0, <1>2, <2>1, <2>2, <2>3 DEF Live
<1>7. CASE OnCancelRequest(s)
  <2>1. PICK o \in Requests :
          /\ Receives(s, "cancel_request", o)
          /\ \/ /\ stage[o] = "accepted" /\ stage' = [stage EXCEPT ![o] = "cancelled"]
                /\ sold' = [sold EXCEPT ![s] = @ - 1]
             \/ UNCHANGED <<stage, sold>>
    BY <1>7 DEF OnCancelRequest, Cancellable
  <2>2. vendor[o] = s
    BY <2>1, OwnOrder DEF ToVendor
  <2>3. CASE UNCHANGED <<stage, sold>>
    BY <1>2, <2>3
  <2> QED
    BY <1>0, <1>1, <2>1, <2>2, <2>3, OneLess DEF Live
<1>8. CASE OthersFire(s)
  BY <1>1, <1>8, NothingMoves DEF OthersFire, sellerVars
<1> QED
  BY <1>3, <1>4, <1>5, <1>6, <1>7, <1>8 DEF SellerStep

(* With usable ids the units taken from a seller's stock are those its     *)
(* orders hold that are accepted and not cancelled, however cancellations  *)
(* cross acceptances and payments (on_inventory_check_result and           *)
(* on_cancel_request).                                                     *)
THEOREM StockIsAccountedFor ==
    ASSUME IdsAreUsable
    PROVE  Spec => []InventoryBalances
<1>1. Init => InventoryBalances
  <2> SUFFICES ASSUME Init, NEW s \in Sellers PROVE sold[s] = Cardinality(Holding(s))
    BY BalanceIs
  <2>1. Holding(s) = {}
    BY DEF Init, Holding, Live
  <2> QED
    BY <2>1, FS_EmptySet DEF Init
<1>2. AInv /\ InventoryBalances /\ [Next]_vars => InventoryBalances'
  <2> SUFFICES ASSUME AInv, InventoryBalances, [Next]_vars PROVE InventoryBalances'
    OBVIOUS
  <2>1. \A r \in Requests : stage[r] # "none" => vendor'[r] = vendor[r]
    BY VendorStays
  <2>2. CASE \E s \in Sellers : SellerStep(s)
    BY <2>2, SellerBalances
  <2>3. ASSUME UNCHANGED sellerVars PROVE InventoryBalances'
    BY <2>1, <2>3, NothingMoves DEF sellerVars
  <2>4. CASE \E c \in Consumers : ConsumerStep(c)
    BY <2>3, <2>4 DEF ConsumerStep, OnProductDetailsResult, OnOrderHistoryResult,
           OnOrderAccepted, OnShipmentNotification, OnCancelConfirmed, OnCancelRejected,
           ConsumerFires
  <2>5. CASE OnShipRequest \/ UpdateTracking \/ OnOrderReport
             \/ OthersFire(Government) \/ EndTick
    BY <2>3, <2>5 DEF OnShipRequest, UpdateTracking, OnOrderReport, OthersFire, EndTick
  <2>6. CASE UNCHANGED vars
    BY <2>3, <2>6 DEF vars, sellerVars
  <2> QED
    BY <2>2, <2>4, <2>5, <2>6 DEF Next
<1> QED
  BY <1>1, <1>2, AInvHolds, PTL DEF Spec
-----------------------------------------------------------------------------
(* Counting messages.                                                      *)

(* Where the messages of a type about an order lie.                        *)
IsAt(boxes, type, r, a, i) ==
    i \in 1..Len(boxes[a]) /\ boxes[a][i].type = type /\ boxes[a][i].order = r
Slots(boxes, type, r) == {p \in Agents \X Nat : IsAt(boxes, type, r, p[1], p[2])}

Finite(boxes) == \A type, r : IsFiniteSet(Slots(boxes, type, r))
Count(boxes, type, r) == Cardinality(Slots(boxes, type, r))

One(condition) == IF condition THEN 1 ELSE 0

(* What the properties count.                                              *)
LEMMA CountIs ==
    ASSUME inbox \in Boxes, NEW type, NEW r
    PROVE  UnderWay(type, r) = Count(inbox, type, r)
<1> DEFINE found == UNION {{<<a, i>> : i \in {j \in DOMAIN inbox[a] :
                inbox[a][j].type = type /\ inbox[a][j].order = r}} : a \in Agents}
<1>1. \A a \in Agents : DOMAIN inbox[a] = 1..Len(inbox[a]) /\ Len(inbox[a]) \in Nat
  BY LenProperties DEF Boxes
<1>2. ASSUME NEW p PROVE p \in found <=> p \in Slots(inbox, type, r)
  <2>1. p \in found <=> \E a \in Agents : \E i \in DOMAIN inbox[a] :
            /\ inbox[a][i].type = type /\ inbox[a][i].order = r /\ p = <<a, i>>
    OBVIOUS
  <2>2. p \in Slots(inbox, type, r) <=> \E a \in Agents, i \in Nat :
            p = <<a, i>> /\ IsAt(inbox, type, r, a, i)
    BY DEF Slots
  <2> HIDE DEF found
  <2> QED
    BY <1>1, <2>1, <2>2 DEF IsAt
<1>3. found = Slots(inbox, type, r)
  BY <1>2
<1> QED
  BY <1>3 DEF UnderWay, Count

(* Finitely many messages can be counted.                                  *)
LEMMA CountType ==
    ASSUME NEW boxes, Finite(boxes), NEW type, NEW r
    PROVE  Count(boxes, type, r) \in Nat
BY FS_CardinalityType DEF Count, Finite

(* A message that is somewhere counts.                                     *)
LEMMA CountPositive ==
    ASSUME NEW boxes, Finite(boxes), NEW type, NEW r, NEW a \in Agents, NEW i \in Nat,
           IsAt(boxes, type, r, a, i)
    PROVE  Count(boxes, type, r) >= 1
<1>1. <<a, i>> \in Slots(boxes, type, r)
  BY DEF Slots
<1>2. Count(boxes, type, r) # 0
  BY <1>1, FS_EmptySet DEF Count, Finite
<1> QED
  BY <1>2, CountType

(* Posting a message adds one to those like it.                            *)
LEMMA PostCounts ==
    ASSUME NEW boxes \in Boxes, Finite(boxes), NEW to, NEW m
    PROVE  /\ Finite(Post(boxes, to, m))
           /\ \A type, r : Count(Post(boxes, to, m), type, r) = Count(boxes, type, r)
                  + One(to \in Agents /\ m.type = type /\ m.order = r)
<1> DEFINE new == Post(boxes, to, m)
<1>1. CASE to \notin Agents
  BY <1>1, CountType DEF Post, One
<1>2. ASSUME to \in Agents, NEW type, NEW r
      PROVE  /\ IsFiniteSet(Slots(new, type, r))
             /\ Count(new, type, r) = Count(boxes, type, r)
                    + One(m.type = type /\ m.order = r)
  <2> DEFINE n == Len(boxes[to]) + 1
             x == <<to, n>>
  <2>1. /\ Len(boxes[to]) \in Nat /\ n \in Nat /\ n \notin 1..Len(boxes[to])
        /\ new[to] = Append(boxes[to], m) /\ \A a \in Agents \ {to} : new[a] = boxes[a]
    BY <1>2, LenProperties DEF Post, Boxes
  <2>2. /\ Len(new[to]) = n /\ new[to][n] = m
        /\ \A i \in 1..Len(boxes[to]) : new[to][i] = boxes[to][i]
    BY <1>2, <2>1, AppendProperties DEF Boxes
  <2>3. ASSUME NEW a \in Agents, NEW i \in Nat
        PROVE  IsAt(new, type, r, a, i) <=>
                   \/ IsAt(boxes, type, r, a, i)
                   \/ a = to /\ i = n /\ m.type = type /\ m.order = r
    <3>1. CASE a # to
      BY <2>1, <3>1 DEF IsAt
    <3>2. CASE a = to
      <4>1. i \in 1..Len(new[to]) <=> i \in 1..Len(boxes[to]) \/ i = n
        BY <2>1, <2>2
      <4> QED
        BY <2>1, <2>2, <3>2, <4>1 DEF IsAt
    <3> QED
      BY <3>1, <3>2
  <2>4. x \notin Slots(boxes, type, r)
    BY <2>1 DEF Slots, IsAt
  <2>5. ASSUME m.type = type, m.order = r
        PROVE  Slots(new, type, r) = Slots(boxes, type, r) \cup {x}
    <3>1. x \in Agents \X Nat /\ x[1] = to /\ x[2] = n
      BY <1>2, <2>1
    <3> HIDE DEF n, new
    <3>2. ASSUME NEW p \in Agents \X Nat
          PROVE  p \in Slots(new, type, r) <=> p \in Slots(boxes, type, r) \/ p = x
      <4>1. p[1] \in Agents /\ p[2] \in Nat /\ p = <<p[1], p[2]>>
        OBVIOUS
      <4>2. p = x <=> p[1] = to /\ p[2] = n
        BY <4>1
      <4> QED
        BY <2>3, <2>5, <4>1, <4>2 DEF Slots
    <3> QED
      BY <3>1, <3>2 DEF Slots
  <2>6. ASSUME ~ (m.type = type /\ m.order = r)
        PROVE  Slots(new, type, r) = Slots(boxes, type, r)
    BY <2>3, <2>6 DEF Slots
  <2>7. IsFiniteSet(Slots(boxes, type, r)) /\ Count(boxes, type, r) \in Nat
    BY CountType DEF Finite
  <2>8. CASE m.type = type /\ m.order = r
    BY <2>4, <2>5, <2>7, <2>8, FS_AddElement DEF Count, One
  <2>9. CASE ~ (m.type = type /\ m.order = r)
    BY <2>6, <2>7, <2>9 DEF Count, One
  <2> QED
    BY <2>8, <2>9
<1> QED
  BY <1>1, <1>2 DEF Finite

(* Pairs are equal in both places.                                         *)
LEMMA EqualPairs ==
    ASSUME NEW a, NEW b, NEW c, NEW d, <<a, b>> = <<c, d>> PROVE a = c /\ b = d
OBVIOUS

(* Reading a message takes one from those like it.                         *)
LEMMA ReadCounts ==
    ASSUME QueuesOK, Finite(inbox), NEW o \in Agents, NEW t, NEW q, Receives(o, t, q)
    PROVE  /\ Finite(Popped(o)) /\ Count(inbox, t, q) >= 1
           /\ \A type, r : Count(Popped(o), type, r) = Count(inbox, type, r)
                  - One(type = t /\ r = q)
<1> DEFINE new == Popped(o)
           x == <<o, 1>>
<1>1. /\ inbox \in Boxes /\ Len(inbox[o]) > 0 /\ new \in Boxes
      /\ inbox[o][1].type = t /\ inbox[o][1].order = q
  BY InHand, PopShifts DEF QueuesOK, Receives
<1>2. /\ Len(inbox[o]) \in Nat /\ Len(new[o]) = Len(inbox[o]) - 1
      /\ \A i \in 1..Len(new[o]) : new[o][i] = inbox[o][i + 1]
      /\ \A b \in Agents \ {o} : new[b] = inbox[b]
  BY <1>1, PopShifts, LenProperties DEF Boxes
<1> HIDE DEF new
<1>3. ASSUME NEW type, NEW r
      PROVE  /\ IsFiniteSet(Slots(new, type, r))
             /\ Count(new, type, r) = Count(inbox, type, r) - One(type = t /\ r = q)
  <2> DEFINE old == Slots(inbox, type, r) \ {x}
             f == [p \in old |-> <<p[1], IF p[1] = o THEN p[2] - 1 ELSE p[2]>>]
  <2>1. ASSUME NEW p \in old
        PROVE  /\ p[1] \in Agents /\ p[2] \in Nat /\ p = <<p[1], p[2]>>
               /\ IsAt(inbox, type, r, p[1], p[2])
               /\ p[1] = o => p[2] > 1
    <3>1. p \in Agents \X Nat /\ IsAt(inbox, type, r, p[1], p[2]) /\ p # x
      BY DEF Slots
    <3>2. p[1] \in Agents /\ p[2] \in Nat /\ p = <<p[1], p[2]>>
      BY <3>1
    <3>3. p[1] = o => p[2] # 1
      BY <3>1, <3>2
    <3>4. p[2] \in 1..Len(inbox[p[1]])
      BY <3>1 DEF IsAt
    <3> QED
      BY <1>2, <3>1, <3>2, <3>3, <3>4
  <2>2. ASSUME NEW p \in old PROVE f[p] \in Slots(new, type, r)
    <3>1. CASE p[1] = o
      <4>1. p[2] \in 1..Len(inbox[o]) /\ inbox[o][p[2]].type = type
            /\ inbox[o][p[2]].order = r /\ p[2] > 1 /\ p[2] \in Nat
        BY <2>1, <3>1 DEF IsAt
      <4>2. p[2] - 1 \in 1..Len(new[o]) /\ p[2] - 1 \in Nat /\ (p[2] - 1) + 1 = p[2]
        BY <1>2, <4>1
      <4>3. IsAt(new, type, r, o, p[2] - 1)
        BY <1>2, <4>1, <4>2 DEF IsAt
      <4>4. f[p] = <<o, p[2] - 1>>
        BY <3>1
      <4> QED
        BY <4>2, <4>3, <4>4 DEF Slots
    <3>2. CASE p[1] # o
      BY <1>2, <2>1, <3>2 DEF Slots, IsAt
    <3> QED
      BY <3>1, <3>2
  <2>3. ASSUME NEW p1 \in old, NEW p2 \in old, f[p1] = f[p2] PROVE p1 = p2
    <3> DEFINE Place(p) == IF p[1] = o THEN p[2] - 1 ELSE p[2]
    <3>1. f[p1] = <<p1[1], Place(p1)>> /\ f[p2] = <<p2[1], Place(p2)>>
      OBVIOUS
    <3>2. /\ p1[2] \in Nat /\ p1 = <<p1[1], p1[2]>>
          /\ p2[2] \in Nat /\ p2 = <<p2[1], p2[2]>>
      BY <2>1
    <3>3. p1[1] = p2[1] /\ Place(p1) = Place(p2)
      <4> HIDE DEF f, Place
      <4>1. <<p1[1], Place(p1)>> = <<p2[1], Place(p2)>>
        BY <2>3, <3>1, Zenon
      <4> QED
        BY <4>1, EqualPairs, Zenon
    <3> HIDE DEF f, old
    <3>4. p1[2] = p2[2]
      BY <3>2, <3>3
    <3> QED
      BY <3>2, <3>3, <3>4
  <2>4. ASSUME NEW p \in Slots(new, type, r) PROVE \E z \in old : f[z] = p
    <3>1. /\ p[1] \in Agents /\ p[2] \in Nat /\ p = <<p[1], p[2]>>
          /\ IsAt(new, type, r, p[1], p[2])
      BY DEF Slots
    <3>2. CASE p[1] = o
      <4> DEFINE z == <<o, p[2] + 1>>
      <4>1. p[2] \in 1..Len(new[o])
        BY <3>1, <3>2 DEF IsAt
      <4>2. p[2] + 1 \in 1..Len(inbox[o]) /\ inbox[o][p[2] + 1] = new[o][p[2]]
        BY <1>2, <4>1, SMTT(30)
      <4>3. IsAt(inbox, type, r, o, p[2] + 1) /\ p[2] + 1 \in Nat /\ p[2] + 1 # 1
            /\ (p[2] + 1) - 1 = p[2]
        BY <3>1, <3>2, <4>1, <4>2 DEF IsAt
      <4>4. z \in Slots(inbox, type, r) /\ z # x
        BY <4>3 DEF Slots
      <4>5. f[z] = <<o, (p[2] + 1) - 1>>
        BY <4>4
      <4> QED
        BY <3>1, <3>2, <4>3, <4>4, <4>5
    <3>3. CASE p[1] # o
      <4>1. p \in old
        BY <1>2, <3>1, <3>3 DEF Slots, IsAt
      <4>2. f[p] = <<p[1], p[2]>>
        BY <3>3, <4>1
      <4> HIDE DEF f, old
      <4> QED
        BY <3>1, <4>1, <4>2
    <3> QED
      BY <3>2, <3>3
  <2>5. f \in Bijection(old, Slots(new, type, r))
    <3>1. f \in [old -> Slots(new, type, r)]
      BY <2>2
    <3> HIDE DEF f, old
    <3> QED
      BY <2>3, <2>4, <3>1 DEF Bijection, Injection, Surjection, IsInjective
  <2>6. IsFiniteSet(old) /\ Cardinality(old) = Count(inbox, type, r) - One(type = t /\ r = q)
    <3>1. IsFiniteSet(Slots(inbox, type, r)) /\ Count(inbox, type, r) \in Nat
      BY CountType DEF Finite
    <3>2. x \in Slots(inbox, type, r) <=> type = t /\ r = q
      BY <1>1, <1>2 DEF Slots, IsAt
    <3> QED
      BY <3>1, <3>2, FS_RemoveElement DEF Count, One
  <2>7. ExistsBijection(old, Slots(new, type, r))
    BY <2>5 DEF ExistsBijection
  <2> HIDE DEF old
  <2> QED
    BY <2>6, <2>7, FS_Bijection DEF Count
<1>4. Count(inbox, t, q) >= 1
  BY <1>1, <1>2, CountPositive DEF IsAt
<1> QED
  BY <1>3, <1>4 DEF Finite, new

(* Posting to vendors adds one about each order that has a vendor.         *)
LEMMA VendorsCounts ==
    ASSUME inbox \in Boxes, Finite(inbox), NEW t \in MessageTypes, NEW f \in Agents,
           NEW orders \in SUBSET Requests
    PROVE  LET new == PostToVendors(t, f, orders)
           IN  /\ Finite(new)
               /\ \A type, r : Count(new, type, r) = Count(inbox, type, r)
                      + One(type = t /\ r \in orders /\ vendor[r] \in Agents)
<1> DEFINE new == PostToVendors(t, f, orders)
           Told(a, i, r) == \E j \in 1..Len(ToTell(orders, a)) :
                                i = Len(inbox[a]) + j /\ ToTell(orders, a)[j] = r
<1>1. ASSUME NEW a \in Agents, NEW i \in Nat, NEW type, NEW r
      PROVE  IsAt(new, type, r, a, i) <=>
                 IsAt(inbox, type, r, a, i) \/ (type = t /\ Told(a, i, r))
  <2> DEFINE told == ToTell(orders, a)
             box == new[a]
  <2>1. /\ Len(inbox[a]) \in Nat /\ Len(told) \in Nat
        /\ Len(box) = Len(inbox[a]) + Len(told)
        /\ \A j \in 1..Len(inbox[a]) : box[j] = inbox[a][j]
        /\ \A j \in 1..Len(told) : box[Len(inbox[a]) + j] = Mail(t, f, told[j])
    BY VendorsShape
  <2> HIDE DEF told, box
  <2>2. ASSUME NEW j \in 1..Len(told)
        PROVE  box[Len(inbox[a]) + j].type = t /\ box[Len(inbox[a]) + j].order = told[j]
    <3>1. box[Len(inbox[a]) + j] = Mail(t, f, told[j])
      BY <2>1
    <3>2. Mail(t, f, told[j]).type = t /\ Mail(t, f, told[j]).order = told[j]
      BY DEF Mail
    <3> QED
      BY <3>1, <3>2
  <2>3. CASE i \in 1..Len(inbox[a])
    <3>1. i \in 1..Len(box) /\ box[i] = inbox[a][i] /\ ~ Told(a, i, r)
      BY <2>1, <2>3 DEF told
    <3> QED
      BY <2>3, <3>1 DEF IsAt, box
  <2>4. CASE i \notin 1..Len(inbox[a])
    <3>1. ~ IsAt(inbox, type, r, a, i)
      BY <2>4 DEF IsAt
    <3>2. ASSUME IsAt(new, type, r, a, i) PROVE type = t /\ Told(a, i, r)
      <4>1. i \in 1..Len(box) /\ box[i].type = type /\ box[i].order = r
        BY <3>2 DEF IsAt, box
      <4>2. i - Len(inbox[a]) \in 1..Len(told)
            /\ i = Len(inbox[a]) + (i - Len(inbox[a]))
        BY <2>1, <2>4, <4>1
      <4> QED
        BY <2>2, <4>1, <4>2 DEF told
    <3>3. ASSUME type = t, Told(a, i, r) PROVE IsAt(new, type, r, a, i)
      <4>1. PICK j \in 1..Len(told) : i = Len(inbox[a]) + j /\ told[j] = r
        BY <3>3 DEF told
      <4>2. i \in 1..Len(box)
        BY <2>1, <4>1
      <4> QED
        BY <2>2, <3>3, <4>1, <4>2 DEF IsAt, box
    <3> QED
      BY <3>1, <3>2, <3>3
  <2> QED
    BY <2>3, <2>4
<1>2. ASSUME NEW a \in Agents, NEW r, NEW i, Told(a, i, r)
      PROVE  r \in orders /\ vendor[r] = a
  <2>0. {q \in orders : vendor[q] = a} \in SUBSET Requests
    OBVIOUS
  <2>1. \A j \in 1..Len(ToTell(orders, a)) :
            ToTell(orders, a)[j] \in {q \in orders : vendor[q] = a}
    BY <2>0, Enumeration DEF ToTell
  <2>2. PICK j \in 1..Len(ToTell(orders, a)) : ToTell(orders, a)[j] = r
    BY <1>2
  <2> QED
    BY <2>1, <2>2
<1>3. ASSUME NEW r \in orders, vendor[r] \in Agents
      PROVE  \E i \in Nat : \A a \in Agents, k \in Nat :
                 Told(a, k, r) <=> a = vendor[r] /\ k = i
  <2> DEFINE v == vendor[r]
             S == {q \in orders : vendor[q] = v}
             told == ToTell(orders, v)
  <2>1. S \in SUBSET Requests /\ r \in S /\ told = SetToSeq(S)
    BY DEF ToTell
  <2>2. /\ \E j \in 1..Len(told) : told[j] = r
        /\ \A j, k \in 1..Len(told) : told[j] = told[k] => j = k
    BY <2>1, EachOnce
  <2>3. Len(inbox[v]) \in Nat /\ Len(told) \in Nat
    BY <1>3, VendorsShape
  <2> HIDE DEF told
  <2>4. PICK j \in 1..Len(told) : told[j] = r
    BY <2>2
  <2> DEFINE i == Len(inbox[v]) + j
  <2>5. i \in Nat
    BY <2>3
  <2>6. ASSUME NEW a \in Agents, NEW k \in Nat PROVE Told(a, k, r) <=> a = v /\ k = i
    <3>1. Told(a, k, r) => a = v
      BY <1>2
    <3>2. Told(v, k, r) <=> \E n \in 1..Len(told) : k = Len(inbox[v]) + n /\ told[n] = r
      BY DEF told
    <3>3. Told(v, k, r) <=> k = i
      BY <2>2, <2>3, <2>4, <3>2
    <3> HIDE DEF Told
    <3> QED
      BY <3>1, <3>3
  <2> HIDE DEF i, Told
  <2> QED
    BY <2>5, <2>6
<1> HIDE DEF new, Told
<1>4. ASSUME NEW type, NEW r
      PROVE  /\ IsFiniteSet(Slots(new, type, r))
             /\ Count(new, type, r) = Count(inbox, type, r)
                    + One(type = t /\ r \in orders /\ vendor[r] \in Agents)
  <2>1. IsFiniteSet(Slots(inbox, type, r)) /\ Count(inbox, type, r) \in Nat
    BY CountType DEF Finite
  <2>2. CASE type = t /\ r \in orders /\ vendor[r] \in Agents
    <3>1. PICK i \in Nat : \A a \in Agents, k \in Nat :
              Told(a, k, r) <=> a = vendor[r] /\ k = i
      BY <1>3, <2>2
    <3> DEFINE x == <<vendor[r], i>>
    <3>2. ASSUME NEW p \in Agents \X Nat
          PROVE  p \in Slots(new, type, r) <=> p \in Slots(inbox, type, r) \/ p = x
      <4>1. p[1] \in Agents /\ p[2] \in Nat /\ p = <<p[1], p[2]>>
        OBVIOUS
      <4>2. p = x <=> p[1] = vendor[r] /\ p[2] = i
        BY <4>1
      <4> HIDE DEF x
      <4> QED
        BY <1>1, <2>2, <3>1, <4>1, <4>2 DEF Slots
    <3>3. Slots(new, type, r) = Slots(inbox, type, r) \cup {x}
      BY <2>2, <3>2 DEF Slots
    <3>4. x \notin Slots(inbox, type, r)
      <4>1. Told(vendor[r], i, r)
        BY <2>2, <3>1
      <4>2. i > Len(inbox[vendor[r]])
        BY <2>2, <4>1, VendorsShape DEF Told
      <4>3. ~ IsAt(inbox, type, r, vendor[r], i)
        BY <4>2, <2>2, VendorsShape DEF IsAt
      <4> QED
        BY <4>3 DEF Slots
    <3> QED
      BY <2>1, <2>2, <3>3, <3>4, FS_AddElement, SMTT(30) DEF Count, One
  <2>3. CASE ~ (type = t /\ r \in orders /\ vendor[r] \in Agents)
    <3>1. ASSUME NEW a \in Agents, NEW i \in Nat
          PROVE  IsAt(new, type, r, a, i) <=> IsAt(inbox, type, r, a, i)
      BY <1>1, <1>2, <2>3
    <3>2. Slots(new, type, r) = Slots(inbox, type, r)
      BY <3>1 DEF Slots
    <3> QED
      BY <2>1, <2>3, <3>2 DEF Count, One
  <2> QED
    BY <2>2, <2>3
<1> QED
  BY <1>4 DEF Finite, new
-----------------------------------------------------------------------------
(* The freight and the reports.                                            *)

Counted == {"ship_request", "delivery_complete", "order_report"}

Freight(r) ==
    Count(inbox, "ship_request", r) + Count(inbox, "delivery_complete", r)
        + One(eta[r] # NoShipment) = One(stage[r] = "paid")
Reports(r) ==
    filed[r] + Count(inbox, "order_report", r) = One(stage[r] \in {"paid", "delivered"})

Counts == Finite(inbox) /\ \A r \in Requests : Freight(r) /\ Reports(r)
CInv == AInv /\ Counts

(* The ledgers after a step, with its boxes.                               *)
LEMMA CountsPrime ==
    ASSUME Finite(inbox'),
           \A r \in Requests :
               /\ Count(inbox', "ship_request", r) + Count(inbox', "delivery_complete", r)
                      + One(eta'[r] # NoShipment) = One(stage'[r] = "paid")
               /\ filed'[r] + Count(inbox', "order_report", r)
                      = One(stage'[r] \in {"paid", "delivered"})
    PROVE  Counts'
BY DEF Counts, Freight, Reports, Finite, Count, Slots, IsAt, One

(* A step that neither moves a counted message nor pays or delivers.       *)
LEMMA NothingCounted ==
    ASSUME Counts, Finite(inbox'),
           \A type \in Counted : \A r : Count(inbox', type, r) = Count(inbox, type, r),
           UNCHANGED filed,
           \A r \in Requests : (eta'[r] # NoShipment) <=> (eta[r] # NoShipment),
           \A r \in Requests : \A g \in {"paid", "delivered"} : stage'[r] = g <=> stage[r] = g
    PROVE  Counts'
<1> SUFFICES ASSUME NEW r \in Requests
             PROVE  /\ Count(inbox', "ship_request", r) + Count(inbox', "delivery_complete", r)
                           + One(eta'[r] # NoShipment) = One(stage'[r] = "paid")
                    /\ filed'[r] + Count(inbox', "order_report", r)
                           = One(stage'[r] \in {"paid", "delivered"})
  BY CountsPrime
<1>1. \A type \in Counted : Count(inbox', type, r) = Count(inbox, type, r)
  OBVIOUS
<1>2. One(eta'[r] # NoShipment) = One(eta[r] # NoShipment)
  BY DEF One
<1>3. One(stage'[r] = "paid") = One(stage[r] = "paid")
  BY DEF One
<1>4. One(stage'[r] \in {"paid", "delivered"}) = One(stage[r] \in {"paid", "delivered"})
  BY DEF One
<1> QED
  BY <1>1, <1>2, <1>3, <1>4 DEF Counts, Freight, Reports, Counted

(* No message of these types is read or posted.                            *)
Quiet(boxes, types) ==
    /\ Finite(boxes)
    /\ \A type \in types : \A r : Count(boxes, type, r) = Count(inbox, type, r)

(* Posting another kind of message is quiet.                               *)
LEMMA QuietPost ==
    ASSUME NEW types, NEW boxes \in Boxes, Quiet(boxes, types), NEW to, NEW m,
           m.type \notin types
    PROVE  Quiet(Post(boxes, to, m), types)
<1>1. /\ Finite(Post(boxes, to, m))
      /\ \A type, r : Count(Post(boxes, to, m), type, r) = Count(boxes, type, r)
             + One(to \in Agents /\ m.type = type /\ m.order = r)
  BY PostCounts DEF Quiet
<1>2. ASSUME NEW type \in types, NEW r
      PROVE  Count(Post(boxes, to, m), type, r) = Count(inbox, type, r)
  <2>1. One(to \in Agents /\ m.type = type /\ m.order = r) = 0
    BY DEF One
  <2>2. Count(boxes, type, r) \in Nat
    BY CountType DEF Quiet
  <2> QED
    BY <1>1, <2>1, <2>2 DEF Quiet
<1> QED
  BY <1>1, <1>2 DEF Quiet

(* Reading another kind of message is quiet.                               *)
LEMMA QuietRead ==
    ASSUME QueuesOK, Finite(inbox), NEW types, NEW o \in Agents, NEW t, NEW q,
           t \notin types, Receives(o, t, q)
    PROVE  Popped(o) \in Boxes /\ Quiet(Popped(o), types)
<1>1. ASSUME NEW type \in types, NEW r
      PROVE  Count(Popped(o), type, r) = Count(inbox, type, r)
  <2>1. One(type = t /\ r = q) = 0
    BY DEF One
  <2>2. Count(inbox, type, r) \in Nat
    BY CountType
  <2> QED
    BY <2>1, <2>2, ReadCounts
<1> QED
  BY <1>1, ReadCounts, InHand DEF Quiet

(* Consumers neither read nor post what is counted.                        *)
LEMMA ConsumerCounts ==
    ASSUME CInv, NEW c \in Consumers, ConsumerStep(c)
    PROVE  Counts'
<1>0. /\ TypeOK /\ QueuesOK /\ RestOK /\ inbox \in Boxes /\ c \in Agents
      /\ Counts /\ Finite(inbox)
  BY TypeSplits DEF CInv, Counts, AInv, IInv, QueuesOK, Agents
<1>1. UNCHANGED <<stage, eta, filed>>
  BY DEF ConsumerStep, OnProductDetailsResult, OnOrderHistoryResult,
         OnOrderAccepted, OnShipmentNotification, OnCancelConfirmed, OnCancelRejected,
         ConsumerFires, sellerVars
<1>2. SUFFICES Quiet(inbox', Counted)
  BY <1>0, <1>1, NothingCounted DEF Quiet
<1>3. Quiet(inbox, Counted)
  BY <1>0 DEF Quiet
<1>4. CASE OnProductDetailsResult(c)
  <2>1. \/ inbox' = inbox
        \/ \E s, o : inbox' = Post(inbox, s, Mail("place_order", c, o))
    BY <1>4 DEF OnProductDetailsResult
  <2>2. \A o : Mail("place_order", c, o).type \notin Counted
    BY DEF Mail, Counted
  <2> QED
    BY <1>0, <1>3, <2>1, <2>2, QuietPost
<1>5. CASE OnOrderHistoryResult(c)
  <2>1. PICK orders \in SUBSET Requests : inbox' = PostToVendors("cancel_request", c, orders)
    <3>0. PICK q \in results :
              \E late \in SUBSET q.orders :
                  inbox' = PostToVendors("cancel_request", c,
                               {r \in late : status[r] \in Pending})
      BY <1>5 DEF OnOrderHistoryResult
    <3>1. PICK late \in SUBSET q.orders :
              inbox' = PostToVendors("cancel_request", c,
                           {r \in late : status[r] \in Pending})
      BY <3>0
    <3>2. {r \in late : status[r] \in Pending} \in SUBSET Requests
      BY <1>0, <3>1 DEF RestOK, Query
    <3> QED
      BY <3>1, <3>2
  <2>2. /\ Finite(inbox')
        /\ \A type, r : Count(inbox', type, r) = Count(inbox, type, r)
               + One(type = "cancel_request" /\ r \in orders /\ vendor[r] \in Agents)
    BY <1>0, <2>1, VendorsCounts DEF MessageTypes
  <2>3. ASSUME NEW type \in Counted, NEW r PROVE Count(inbox', type, r) = Count(inbox, type, r)
    <3>1. One(type = "cancel_request" /\ r \in orders /\ vendor[r] \in Agents) = 0
      BY DEF One, Counted
    <3>2. Count(inbox, type, r) \in Nat
      BY <1>0, CountType
    <3> QED
      BY <2>2, <3>1, <3>2
  <2> QED
    BY <2>2, <2>3 DEF Quiet
<1>6. CASE OnOrderAccepted(c)
  <2>1. PICK o \in Requests :
          /\ Receives(c, "order_accepted", o)
          /\ \/ inbox' = Popped(c)
             \/ inbox' = Post(Popped(c), Head(inbox[c]).from, Mail("payment", c, o))
    BY <1>6 DEF OnOrderAccepted
  <2>2. "order_accepted" \notin Counted /\ Mail("payment", c, o).type \notin Counted
    BY DEF Mail, Counted
  <2> QED
    BY <1>0, <2>1, <2>2, QuietRead, QuietPost
<1>7. ASSUME NEW t \in {"shipment_notification", "cancel_confirmed", "cancel_rejected"},
             NEW o, Receives(c, t, o), inbox' = Popped(c)
      PROVE  Quiet(inbox', Counted)
  BY <1>0, <1>7, QuietRead DEF Counted
<1>8. CASE OnShipmentNotification(c)
  BY <1>7, <1>8 DEF OnShipmentNotification
<1>9. CASE OnCancelConfirmed(c)
  BY <1>7, <1>9 DEF OnCancelConfirmed
<1>10. CASE OnCancelRejected(c)
  BY <1>7, <1>10 DEF OnCancelRejected
<1>11. CASE ConsumerFires(c)
  BY <1>3, <1>11 DEF ConsumerFires
<1> QED
  BY <1>4, <1>5, <1>6, <1>8, <1>9, <1>10, <1>11 DEF ConsumerStep

(* Freight says where the goods of an order are.                           *)
LEMMA WhereFreightIs ==
    ASSUME CInv, NEW r \in Requests
    PROVE  /\ \A type : Count(inbox, type, r) \in Nat
           /\ filed[r] \in Nat
           /\ Count(inbox, "ship_request", r) >= 1 =>
                  stage[r] = "paid" /\ eta[r] = NoShipment
           /\ Count(inbox, "delivery_complete", r) >= 1 => stage[r] = "paid"
           /\ eta[r] # NoShipment => stage[r] = "paid"
<1>1. \A type : Count(inbox, type, r) \in Nat
  BY CountType DEF CInv, Counts
<1>2. filed[r] \in Nat
  BY DEF CInv, AInv, IInv, TypeOK
<1>3. Freight(r)
  BY DEF CInv, Counts
<1> QED
  BY <1>1, <1>2, <1>3 DEF Freight, One

(* A payment sends one ship_request and one order_report.                  *)
LEMMA PaymentCounts ==
    ASSUME CInv, NEW s \in Sellers, OnPayment(s)
    PROVE  Counts'
<1>0. /\ TypeOK /\ QueuesOK /\ inbox \in Boxes /\ s \in Agents /\ Counts /\ Finite(inbox)
      /\ stage \in [Requests -> Stages] /\ Transport \in Agents /\ Government \in Agents
  BY TypeSplits DEF CInv, Counts, AInv, IInv, TypeOK, QueuesOK, Agents
<1>1. PICK o \in Requests :
        /\ Receives(s, "payment", o) /\ UNCHANGED <<eta, filed>>
        /\ \/ inbox' = Popped(s) /\ stage' = stage
           \/ /\ stage[o] = "accepted" /\ stage' = [stage EXCEPT ![o] = "paid"]
              /\ inbox' = Post(Post(Popped(s), Transport, Mail("ship_request", s, o)),
                               Government, Mail("order_report", s, o))
  BY DEF OnPayment, Payable
<1>2. Popped(s) \in Boxes /\ Quiet(Popped(s), Counted)
  BY <1>0, <1>1, QuietRead DEF Counted
<1>3. CASE inbox' = Popped(s) /\ stage' = stage
  BY <1>0, <1>1, <1>2, <1>3, NothingCounted DEF Quiet
<1>4. CASE /\ stage[o] = "accepted" /\ stage' = [stage EXCEPT ![o] = "paid"]
           /\ inbox' = Post(Post(Popped(s), Transport, Mail("ship_request", s, o)),
                            Government, Mail("order_report", s, o))
  <2> DEFINE sent == Post(Popped(s), Transport, Mail("ship_request", s, o))
  <2>1. Mail("ship_request", s, o) \in Message /\ sent \in Boxes
    BY <1>0, <1>2, MailType, PostType DEF MessageTypes
  <2>2. /\ Finite(sent)
        /\ \A type, r : Count(sent, type, r) = Count(Popped(s), type, r)
               + One(type = "ship_request" /\ r = o)
    <3>1. /\ Finite(sent)
          /\ \A type, r : Count(sent, type, r) = Count(Popped(s), type, r)
                 + One(Transport \in Agents /\ Mail("ship_request", s, o).type = type
                       /\ Mail("ship_request", s, o).order = r)
      BY <1>2, PostCounts DEF Quiet
    <3> QED
      BY <1>0, <3>1 DEF Mail, One
  <2> HIDE DEF sent
  <2>3. /\ Finite(inbox')
        /\ \A type, r : Count(inbox', type, r) = Count(sent, type, r)
               + One(type = "order_report" /\ r = o)
    <3>1. /\ Finite(Post(sent, Government, Mail("order_report", s, o)))
          /\ \A type, r : Count(Post(sent, Government, Mail("order_report", s, o)), type, r)
                 = Count(sent, type, r)
                 + One(Government \in Agents /\ Mail("order_report", s, o).type = type
                       /\ Mail("order_report", s, o).order = r)
      BY <2>1, <2>2, PostCounts
    <3>2. inbox' = Post(sent, Government, Mail("order_report", s, o))
      BY <1>4 DEF sent
    <3> QED
      BY <1>0, <3>1, <3>2 DEF Mail, One
  <2>4. ASSUME NEW r \in Requests
        PROVE  /\ Count(inbox', "ship_request", r) + Count(inbox', "delivery_complete", r)
                      + One(eta'[r] # NoShipment) = One(stage'[r] = "paid")
               /\ filed'[r] + Count(inbox', "order_report", r)
                      = One(stage'[r] \in {"paid", "delivered"})
    <3>1. /\ Count(inbox', "ship_request", r)
                 = Count(inbox, "ship_request", r) + One(r = o)
          /\ Count(inbox', "delivery_complete", r) = Count(inbox, "delivery_complete", r)
          /\ Count(inbox', "order_report", r)
                 = Count(inbox, "order_report", r) + One(r = o)
      BY <1>2, <2>2, <2>3, WhereFreightIs DEF Quiet, Counted, One
    <3>2. /\ \A type : Count(inbox, type, r) \in Nat
          /\ filed[r] \in Nat /\ Freight(r) /\ Reports(r)
      BY WhereFreightIs DEF CInv, Counts
    <3>3. stage'[r] = IF r = o THEN "paid" ELSE stage[r]
      BY <1>0, <1>4
    <3>4. CASE r = o
      BY <1>1, <1>4, <3>1, <3>2, <3>3, <3>4 DEF Freight, Reports, One
    <3>5. CASE r # o
      BY <1>1, <3>1, <3>2, <3>3, <3>5 DEF Freight, Reports, One
    <3> QED
      BY <3>4, <3>5
  <2> QED
    BY <2>3, <2>4, CountsPrime
<1> QED
  BY <1>1, <1>3, <1>4

(* A delivery_complete comes once for an order, which is paid and in the   *)
(* seller's book: it is delivered.                                         *)
LEMMA DeliveryCounts ==
    ASSUME CInv, IdsAreUsable, NEW s \in Sellers, OnDeliveryComplete(s)
    PROVE  Counts'
<1>0. /\ TypeOK /\ QueuesOK /\ inbox \in Boxes /\ s \in Agents /\ Counts /\ Finite(inbox)
      /\ stage \in [Requests -> Stages] /\ book \in [Sellers -> Seq(Requests)]
      /\ \A r \in Requests : AtSeller(r)
  BY TypeSplits DEF CInv, Counts, AInv, IInv, TypeOK, QueuesOK, Agents
<1>1. PICK o \in Requests :
        /\ Receives(s, "delivery_complete", o) /\ UNCHANGED <<eta, filed>>
        /\ \/ Matches(s, o) = {}
           \/ \E i \in Matches(s, o) :
                /\ stage' = [stage EXCEPT ![book[s][i]] = "delivered"]
                /\ inbox' = Post(Popped(s), buyer[book[s][i]],
                                 Mail("shipment_notification", s, book[s][i]))
  BY DEF OnDeliveryComplete
<1>2. stage[o] = "paid"
  <2>1. Count(inbox, "delivery_complete", o) >= 1
    BY <1>0, <1>1, ReadCounts
  <2> QED
    BY <2>1, WhereFreightIs
<1>3. Matches(s, o) # {}
  <2>1. vendor[o] = s
    BY <1>1, OwnOrder DEF CInv, ToVendor
  <2>2. PICK i \in 1..Len(book[s]) : book[s][i] = o
    BY <1>0, <1>2, <2>1 DEF AtSeller, Known
  <2>3. i \in DOMAIN book[s]
    BY <1>0, <2>2, LenProperties
  <2>4. OrderId(o) = StoreId[o]
    BY DEF OrderId, IdsAreUsable
  <2> QED
    BY <2>2, <2>3, <2>4 DEF Matches
<1>4. /\ stage' = [stage EXCEPT ![o] = "delivered"]
      /\ inbox' = Post(Popped(s), buyer[o], Mail("shipment_notification", s, o))
  <2>1. \A i \in Matches(s, o) : book[s][i] = o
    BY <1>0, OnlyMatch
  <2> QED
    BY <1>1, <1>3, <2>1
<1>5. /\ Popped(s) \in Boxes /\ Finite(Popped(s))
      /\ \A type, r : Count(Popped(s), type, r) = Count(inbox, type, r)
             - One(type = "delivery_complete" /\ r = o)
  BY <1>0, <1>1, ReadCounts, InHand
<1>6. /\ Finite(inbox')
      /\ \A type, r : Count(inbox', type, r) = Count(Popped(s), type, r)
             + One(buyer[o] \in Agents /\ Mail("shipment_notification", s, o).type = type
                   /\ Mail("shipment_notification", s, o).order = r)
  BY <1>4, <1>5, PostCounts
<1>7. ASSUME NEW r \in Requests
      PROVE  /\ Count(inbox', "ship_request", r) + Count(inbox', "delivery_complete", r)
                    + One(eta'[r] # NoShipment) = One(stage'[r] = "paid")
             /\ filed'[r] + Count(inbox', "order_report", r)
                    = One(stage'[r] \in {"paid", "delivered"})
  <2>1. /\ \A type : Count(inbox, type, r) \in Nat
        /\ filed[r] \in Nat /\ Freight(r) /\ Reports(r)
    BY WhereFreightIs DEF CInv, Counts
  <2>2. ASSUME NEW type \in Counted
        PROVE  Count(inbox', type, r) = Count(inbox, type, r)
                   - One(type = "delivery_complete" /\ r = o)
    <3>1. One(buyer[o] \in Agents /\ Mail("shipment_notification", s, o).type = type
              /\ Mail("shipment_notification", s, o).order = r) = 0
      BY DEF One, Mail, Counted
    <3>2. Count(Popped(s), type, r) \in Nat
      BY <1>5, CountType
    <3> QED
      BY <1>5, <1>6, <3>1, <3>2
  <2>3. /\ Count(inbox', "ship_request", r) = Count(inbox, "ship_request", r)
        /\ Count(inbox', "delivery_complete", r)
               = Count(inbox, "delivery_complete", r) - One(r = o)
        /\ Count(inbox', "order_report", r) = Count(inbox, "order_report", r)
    BY <2>1, <2>2 DEF Counted, One
  <2>4. stage'[r] = IF r = o THEN "delivered" ELSE stage[r]
    BY <1>0, <1>4
  <2>5. CASE r = o
    <3>1. stage[r] = "paid" /\ stage'[r] = "delivered" /\ eta'[r] = eta[r]
          /\ filed'[r] = filed[r]
      BY <1>1, <1>2, <2>4, <2>5
    <3>2. Count(inbox, "delivery_complete", r) >= 1
      BY <1>0, <1>1, <2>5, ReadCounts
    <3>3. /\ Count(inbox', "delivery_complete", r) = Count(inbox, "delivery_complete", r) - 1
          /\ One(stage[r] = "paid") = 1 /\ One(stage'[r] = "paid") = 0
          /\ One(stage[r] \in {"paid", "delivered"}) = 1
          /\ One(stage'[r] \in {"paid", "delivered"}) = 1
          /\ One(eta'[r] # NoShipment) = One(eta[r] # NoShipment)
      BY <2>3, <2>5, <3>1 DEF One
    <3>4. One(eta[r] # NoShipment) \in Nat
      BY DEF One
    <3> QED
      BY <2>1, <2>3, <3>1, <3>2, <3>3, <3>4 DEF Freight, Reports
  <2>6. CASE r # o
    BY <1>1, <2>1, <2>3, <2>4, <2>6 DEF Freight, Reports, One
  <2> QED
    BY <2>5, <2>6
<1> QED
  BY <1>6, <1>7, CountsPrime

(* A seller's step keeps the freight and the reports.                      *)
LEMMA SellerCounts ==
    ASSUME CInv, IdsAreUsable, NEW s \in Sellers, SellerStep(s)
    PROVE  Counts'
<1>0. /\ TypeOK /\ QueuesOK /\ inbox \in Boxes /\ s \in Agents /\ Counts /\ Finite(inbox)
      /\ stage \in [Requests -> Stages] /\ Quiet(inbox, Counted)
      /\ \A r \in Requests : Sound(r)
  BY TypeSplits DEF CInv, Counts, AInv, IInv, TypeOK, QueuesOK, Agents, Quiet
<1>1. ASSUME Quiet(inbox', Counted), UNCHANGED <<eta, filed>>, NEW o \in Requests,
             stage[o] \notin {"paid", "delivered"},
             stage' = stage \/ \E g \in {"queued", "accepted", "cancelled"} :
                                   stage' = [stage EXCEPT ![o] = g]
      PROVE  Counts'
  <2>1. \A r \in Requests : \A g \in {"paid", "delivered"} : stage'[r] = g <=> stage[r] = g
    BY <1>0, <1>1
  <2> QED
    BY <1>0, <1>1, <2>1, NothingCounted DEF Quiet
<1>2. ASSUME Quiet(inbox', Counted), UNCHANGED <<eta, filed, stage>> PROVE Counts'
  BY <1>0, <1>2, NothingCounted DEF Quiet
<1>3. CASE OnInventoryCheckResult(s)
  <2>1. /\ UNCHANGED <<eta, filed>>
        /\ \/ UNCHANGED <<inbox, stage>>
           \/ \E o \in Requests :
                /\ stage[o] = "queued" /\ stage' = [stage EXCEPT ![o] = "accepted"]
                /\ inbox' = Post(inbox, buyer[o], Mail("order_accepted", s, o))
    BY <1>3 DEF OnInventoryCheckResult, sellerVars
  <2>2. CASE UNCHANGED <<inbox, stage>>
    BY <1>0, <1>2, <2>1, <2>2
  <2>3. ASSUME NEW o \in Requests, stage[o] = "queued",
               stage' = [stage EXCEPT ![o] = "accepted"],
               inbox' = Post(inbox, buyer[o], Mail("order_accepted", s, o))
        PROVE  Counts'
    <3>1. Quiet(inbox', Counted)
      BY <1>0, <2>3, QuietPost DEF Mail, Counted
    <3> QED
      BY <1>1, <2>1, <2>3, <3>1
  <2> QED
    BY <2>1, <2>2, <2>3
<1>4. CASE OnPlaceOrder(s)
  <2>1. PICK o \in Requests :
          /\ Receives(s, "place_order", o) /\ inbox' = Popped(s)
          /\ stage' = [stage EXCEPT ![o] = "queued"] /\ UNCHANGED <<eta, filed>>
    BY <1>4 DEF OnPlaceOrder
  <2>2. stage[o] = "none"
    BY <1>0, <2>1, InHand DEF Sound
  <2>3. Quiet(inbox', Counted)
    BY <1>0, <2>1, QuietRead DEF Counted
  <2> QED
    BY <1>1, <2>1, <2>2, <2>3
<1>5. CASE OnCancelRequest(s)
  <2>1. PICK o \in Requests :
          /\ Receives(s, "cancel_request", o) /\ UNCHANGED <<eta, filed>>
          /\ \/ inbox' = Popped(s)
             \/ \E t \in {"cancel_confirmed", "cancel_rejected"} :
                  inbox' = Post(Popped(s), Head(inbox[s]).from, Mail(t, s, o))
          /\ \/ stage[o] = "accepted" /\ stage' = [stage EXCEPT ![o] = "cancelled"]
             \/ stage' = stage
    BY <1>5 DEF OnCancelRequest, Cancellable
  <2>2. Popped(s) \in Boxes /\ Quiet(Popped(s), Counted)
    BY <1>0, <2>1, QuietRead DEF Counted
  <2>3. \A t \in {"cancel_confirmed", "cancel_rejected"} : Mail(t, s, o).type \notin Counted
    BY DEF Mail, Counted
  <2>4. Quiet(inbox', Counted)
    BY <2>1, <2>2, <2>3, QuietPost
  <2> QED
    BY <1>1, <1>2, <2>1, <2>4
<1>6. CASE OthersFire(s)
  BY <1>0, <1>2, <1>6 DEF OthersFire, sellerVars
<1> QED
  BY <1>3, <1>4, <1>5, <1>6, PaymentCounts, DeliveryCounts DEF SellerStep

(* Transport turns a request into a shipment and a shipment that has       *)
(* arrived into a delivery_complete for its vendor.                        *)
LEMMA TransportCounts ==
    ASSUME CInv, OnShipRequest \/ UpdateTracking
    PROVE  Counts'
<1>0. /\ TypeOK /\ QueuesOK /\ inbox \in Boxes /\ Transport \in Agents /\ Finite(inbox)
      /\ eta \in [Requests -> {NoShipment} \cup (0..(BaseTransit + Jitter))]
      /\ \A r \in Requests : AtSeller(r)
  BY TypeSplits DEF CInv, Counts, AInv, IInv, TypeOK, QueuesOK, Agents
<1>1. \A r \in Requests : /\ \A type : Count(inbox, type, r) \in Nat
                          /\ filed[r] \in Nat /\ Freight(r) /\ Reports(r)
  BY WhereFreightIs DEF CInv, Counts
<1>2. CASE OnShipRequest
  <2>1. PICK o \in Requests, ticks \in BaseTransit..(BaseTransit + Jitter) :
          /\ Receives(Transport, "ship_request", o)
          /\ inbox' = Popped(Transport)
          /\ eta' = [eta EXCEPT ![o] = ticks] /\ UNCHANGED <<stage, filed>>
    BY <1>2 DEF OnShipRequest, sellerVars
  <2>2. /\ Finite(inbox') /\ Count(inbox, "ship_request", o) >= 1
        /\ \A type, r : Count(inbox', type, r) = Count(inbox, type, r)
               - One(type = "ship_request" /\ r = o)
    BY <1>0, <2>1, ReadCounts
  <2>3. eta[o] = NoShipment /\ eta'[o] # NoShipment
    BY <1>0, <2>1, <2>2, WhereFreightIs, TimingAssumption DEF NoShipment
  <2>4. ASSUME NEW r \in Requests
        PROVE  /\ Count(inbox', "ship_request", r) + Count(inbox', "delivery_complete", r)
                      + One(eta'[r] # NoShipment) = One(stage'[r] = "paid")
               /\ filed'[r] + Count(inbox', "order_report", r)
                      = One(stage'[r] \in {"paid", "delivered"})
    <3>1. /\ Count(inbox', "ship_request", r) = Count(inbox, "ship_request", r) - One(r = o)
          /\ Count(inbox', "delivery_complete", r) = Count(inbox, "delivery_complete", r)
          /\ Count(inbox', "order_report", r) = Count(inbox, "order_report", r)
      BY <1>1, <2>2 DEF One
    <3>2. CASE r = o
      BY <1>1, <2>1, <2>3, <3>1, <3>2 DEF Freight, Reports, One
    <3>3. CASE r # o
      <4>1. eta'[r] = eta[r]
        BY <1>0, <2>1, <3>3
      <4> QED
        BY <1>1, <2>1, <3>1, <3>3, <4>1 DEF Freight, Reports, One
    <3> QED
      BY <3>2, <3>3
  <2> QED
    BY <2>2, <2>4, CountsPrime
<1>3. CASE UpdateTracking
  <2>1. /\ inbox' = PostToVendors("delivery_complete", Transport, Arrived)
        /\ eta' = [r \in Requests |-> IF r \in Arrived THEN NoShipment ELSE eta[r]]
        /\ UNCHANGED <<stage, filed>>
    BY <1>3 DEF UpdateTracking, sellerVars
  <2>2. /\ Finite(inbox')
        /\ \A type, r : Count(inbox', type, r) = Count(inbox, type, r)
               + One(type = "delivery_complete" /\ r \in Arrived /\ vendor[r] \in Agents)
    <3>1. Arrived \in SUBSET Requests
      BY DEF Arrived
    <3> QED
      BY <1>0, <2>1, <3>1, VendorsCounts DEF MessageTypes
  <2>3. ASSUME NEW r \in Requests, r \in Arrived
        PROVE  eta[r] # NoShipment /\ vendor[r] \in Agents
    <3>1. eta[r] # NoShipment
      BY <2>3 DEF Arrived, NoShipment
    <3>2. stage[r] = "paid"
      BY <3>1, WhereFreightIs
    <3> QED
      BY <1>0, <3>1, <3>2 DEF AtSeller, Agents
  <2>4. ASSUME NEW r \in Requests
        PROVE  /\ Count(inbox', "ship_request", r) + Count(inbox', "delivery_complete", r)
                      + One(eta'[r] # NoShipment) = One(stage'[r] = "paid")
               /\ filed'[r] + Count(inbox', "order_report", r)
                      = One(stage'[r] \in {"paid", "delivered"})
    <3>1. /\ Count(inbox', "ship_request", r) = Count(inbox, "ship_request", r)
          /\ Count(inbox', "delivery_complete", r)
                 = Count(inbox, "delivery_complete", r) + One(r \in Arrived)
          /\ Count(inbox', "order_report", r) = Count(inbox, "order_report", r)
      BY <1>1, <2>2, <2>3 DEF One
    <3>2. CASE r \in Arrived
      BY <1>1, <2>1, <2>3, <3>1, <3>2 DEF Freight, Reports, One
    <3>3. CASE r \notin Arrived
      BY <1>1, <2>1, <3>1, <3>3 DEF Freight, Reports, One
    <3> QED
      BY <3>2, <3>3
  <2> QED
    BY <2>2, <2>4, CountsPrime
<1> QED
  BY <1>2, <1>3

(* The government files a report it reads; the end of a tick moves nothing.*)
LEMMA OtherCounts ==
    ASSUME CInv, OnOrderReport \/ OthersFire(Government) \/ EndTick \/ UNCHANGED vars
    PROVE  Counts'
<1>0. /\ TypeOK /\ QueuesOK /\ inbox \in Boxes /\ Government \in Agents
      /\ Counts /\ Finite(inbox)
      /\ eta \in [Requests -> {NoShipment} \cup (0..(BaseTransit + Jitter))]
      /\ filed \in [Requests -> Nat]
  BY TypeSplits DEF CInv, Counts, AInv, IInv, TypeOK, QueuesOK, Agents
<1>1. \A r \in Requests : /\ \A type : Count(inbox, type, r) \in Nat
                          /\ filed[r] \in Nat /\ Freight(r) /\ Reports(r)
  BY WhereFreightIs DEF CInv, Counts
<1>2. CASE OnOrderReport
  <2>1. PICK o \in Requests :
          /\ Receives(Government, "order_report", o) /\ inbox' = Popped(Government)
          /\ filed' = [filed EXCEPT ![o] = @ + 1] /\ UNCHANGED <<stage, eta>>
    BY <1>2 DEF OnOrderReport, sellerVars
  <2>2. /\ Finite(inbox')
        /\ \A type, r : Count(inbox', type, r) = Count(inbox, type, r)
               - One(type = "order_report" /\ r = o)
    BY <1>0, <2>1, ReadCounts
  <2>3. ASSUME NEW r \in Requests
        PROVE  /\ Count(inbox', "ship_request", r) + Count(inbox', "delivery_complete", r)
                      + One(eta'[r] # NoShipment) = One(stage'[r] = "paid")
               /\ filed'[r] + Count(inbox', "order_report", r)
                      = One(stage'[r] \in {"paid", "delivered"})
    <3>1. /\ Count(inbox', "ship_request", r) = Count(inbox, "ship_request", r)
          /\ Count(inbox', "delivery_complete", r) = Count(inbox, "delivery_complete", r)
          /\ Count(inbox', "order_report", r) = Count(inbox, "order_report", r) - One(r = o)
      BY <1>1, <2>2 DEF One
    <3>2. filed'[r] = filed[r] + One(r = o)
      BY <1>0, <2>1 DEF One
    <3>3. /\ Count(inbox', "ship_request", r) + Count(inbox', "delivery_complete", r)
                 + One(eta'[r] # NoShipment) = One(stage'[r] = "paid")
      BY <1>1, <2>1, <3>1 DEF Freight
    <3>4. One(r = o) \in Nat
      BY DEF One
    <3>5. filed'[r] + Count(inbox', "order_report", r)
              = One(stage'[r] \in {"paid", "delivered"})
      BY <1>1, <2>1, <3>1, <3>2, <3>4 DEF Reports
    <3> QED
      BY <3>3, <3>5
  <2> QED
    BY <2>2, <2>3, CountsPrime
<1>3. CASE OthersFire(Government)
  BY <1>0, <1>3, NothingCounted DEF OthersFire, sellerVars
<1>4. CASE EndTick
  <2>1. UNCHANGED <<inbox, stage, filed>>
        /\ \A r \in Requests : eta'[r] = CountDown(eta[r])
    BY <1>4 DEF EndTick, sellerVars
  <2>2. \A r \in Requests : (eta'[r] # NoShipment) <=> (eta[r] # NoShipment)
    BY <1>0, <2>1, TimingAssumption DEF CountDown, NoShipment
  <2> QED
    BY <1>0, <2>1, <2>2, NothingCounted
<1>5. CASE UNCHANGED vars
  BY <1>0, <1>5, NothingCounted DEF vars
<1> QED
  BY <1>2, <1>3, <1>4, <1>5

(* What is counted is right throughout.                                    *)
LEMMA CountsHold ==
    ASSUME IdsAreUsable
    PROVE  Spec => []CInv
<1>1. Init => Counts
  <2> SUFFICES ASSUME Init PROVE Counts
    OBVIOUS
  <2>1. \A a \in Agents : 1..Len(inbox[a]) = {}
    BY EmptySeq DEF Init
  <2>2. \A type, r : Slots(inbox, type, r) = {}
    BY <2>1 DEF Slots, IsAt
  <2>3. Finite(inbox) /\ \A type, r : Count(inbox, type, r) = 0
    BY <2>2, FS_EmptySet DEF Finite, Count
  <2> QED
    BY <2>3 DEF Init, Counts, Freight, Reports, One
<1>2. AInv /\ Counts /\ [Next]_vars => Counts'
  <2> SUFFICES ASSUME CInv, [Next]_vars PROVE Counts'
    BY DEF CInv
  <2> QED
    BY ConsumerCounts, SellerCounts, TransportCounts, OtherCounts DEF Next
<1>3. CInv <=> AInv /\ Counts
  BY DEF CInv
<1> QED
  BY <1>1, <1>2, <1>3, AInvHolds, PTL DEF Spec

(* With usable ids exactly one thing stands for the goods of an order that *)
(* is paid and not delivered, a ship_request, a shipment or a              *)
(* delivery_complete, and nothing for any other order (on_payment,         *)
(* on_ship_request, handle_update_tracking and on_delivery_complete).      *)
THEOREM FreightStaysConserved ==
    ASSUME IdsAreUsable
    PROVE  Spec => []FreightIsConserved
<1>1. CInv => FreightIsConserved
  <2> SUFFICES ASSUME CInv, NEW r \in Requests
               PROVE  UnderWay("ship_request", r) + UnderWay("delivery_complete", r)
                          + (IF eta[r] = NoShipment THEN 0 ELSE 1)
                      = IF stage[r] = "paid" THEN 1 ELSE 0
    BY DEF FreightIsConserved
  <2>1. inbox \in Boxes /\ Freight(r)
    BY TypeSplits DEF CInv, Counts, AInv, IInv, QueuesOK
  <2> QED
    BY <2>1, CountIs DEF Freight, One
<1> QED
  BY <1>1, CountsHold, PTL

(* With usable ids the government has filed one record, or has one report  *)
(* to read, for each order that was paid and none for any other            *)
(* (order_report in on_payment, on_order_report).                          *)
THEOREM ReportsStayMatched ==
    ASSUME IdsAreUsable
    PROVE  Spec => []ReportsMatchPayments
<1>1. CInv => ReportsMatchPayments
  <2> SUFFICES ASSUME CInv, NEW r \in Requests
               PROVE  filed[r] + UnderWay("order_report", r)
                      = IF stage[r] \in {"paid", "delivered"} THEN 1 ELSE 0
    BY DEF ReportsMatchPayments
  <2>1. inbox \in Boxes /\ Reports(r)
    BY TypeSplits DEF CInv, Counts, AInv, IInv, QueuesOK
  <2> QED
    BY <2>1, CountIs DEF Reports, One
<1> QED
  BY <1>1, CountsHold, PTL
-----------------------------------------------------------------------------
(***************************************************************************)
(* The consumer_orders rows.                                               *)
(*                                                                         *)
(* on_cancel_confirmed and on_cancel_rejected write the row whatever the   *)
(* state of the order.  That this does no harm is a matter of time: a      *)
(* cancellation is asked for on the strength of a row that is two ticks    *)
(* old at most, so its answer is read before goods can arrive, and the     *)
(* history is checked so seldom that none is asked for twice.  The         *)
(* argument tells the messages a tick began with, the old ones, from those *)
(* it has added, the new ones.                                             *)
(***************************************************************************)

(* A check of the history is over before the next one begins.              *)
ChecksAreApart == HistoryGap >= 2

-----------------------------------------------------------------------------
(* The age of messages.                                                    *)

Old(boxes, d, type, r) ==
    \E a \in Agents : \E i \in 1..Len(boxes[a]) :
        i <= d[a] /\ boxes[a][i].type = type /\ boxes[a][i].order = r
New(boxes, d, type, r) ==
    \E a \in Agents : \E i \in 1..Len(boxes[a]) :
        i > d[a] /\ boxes[a][i].type = type /\ boxes[a][i].order = r

(* A message is old or new.                                                *)
LEMMA OldOrNew ==
    ASSUME NEW boxes \in Boxes, NEW d \in [Agents -> Nat], NEW type, NEW r
    PROVE  Holds(boxes, type, r) <=> Old(boxes, d, type, r) \/ New(boxes, d, type, r)
<1>1. \A a \in Agents : Len(boxes[a]) \in Nat /\ d[a] \in Nat
  BY LenProperties DEF Boxes
<1>2. \A a \in Agents : \A i \in 1..Len(boxes[a]) : i <= d[a] \/ i > d[a]
  BY <1>1
<1> QED
  BY <1>2 DEF Holds, Old, New

(* Ages look at the boxes and at what was due.                             *)
LEMMA AgesPrime ==
    \A type, r : /\ Old(inbox, due, type, r)' <=> Old(inbox', due', type, r)
                 /\ New(inbox, due, type, r)' <=> New(inbox', due', type, r)
BY DEF Old, New

(* A handler reads an old message, and those behind it move up.            *)
LEMMA ReadAges ==
    ASSUME QueuesOK, NEW o \in Agents, NEW t, NEW q, Receives(o, t, q)
    PROVE  /\ Old(inbox, due, t, q)
           /\ Popped(o) \in Boxes /\ due' \in [Agents -> Nat]
           /\ \A a \in Agents : due'[a] <= Len(Popped(o)[a])
           /\ \A type, r : Old(Popped(o), due', type, r) => Old(inbox, due, type, r)
           /\ \A type, r : New(Popped(o), due', type, r) => New(inbox, due, type, r)
<1>1. /\ inbox \in Boxes /\ Len(inbox[o]) > 0 /\ Popped(o) \in Boxes
      /\ due' \in [Agents -> Nat] /\ \A a \in Agents : due'[a] <= Len(Popped(o)[a])
  BY InHand
<1>2. /\ due \in [Agents -> Nat] /\ due[o] > 0 /\ due' = [due EXCEPT ![o] = @ - 1]
      /\ Head(inbox[o]).type = t /\ Head(inbox[o]).order = q
  BY DEF QueuesOK, Receives
<1> DEFINE Was(a, i) == IF a = o THEN i + 1 ELSE i
<1>3. ASSUME NEW a \in Agents, NEW i \in 1..Len(Popped(o)[a])
      PROVE  /\ Was(a, i) \in 1..Len(inbox[a]) /\ Popped(o)[a][i] = inbox[a][Was(a, i)]
             /\ i <= due'[a] <=> Was(a, i) <= due[a]
             /\ i > due'[a] <=> Was(a, i) > due[a]
  BY <1>1, <1>2, PopShifts, SMTT(30)
<1>4. Old(inbox, due, t, q)
  <2>1. 1 \in 1..Len(inbox[o]) /\ inbox[o][1] = Head(inbox[o]) /\ 1 <= due[o]
    BY <1>1, <1>2, PopShifts
  <2> QED
    BY <1>2, <2>1 DEF Old
<1> HIDE DEF Was
<1>5. \A type, r : Old(Popped(o), due', type, r) => Old(inbox, due, type, r)
  BY <1>3 DEF Old
<1>6. \A type, r : New(Popped(o), due', type, r) => New(inbox, due, type, r)
  BY <1>3 DEF New
<1> QED
  BY <1>1, <1>4, <1>5, <1>6

(* What is posted is new.                                                  *)
LEMMA PostAges ==
    ASSUME NEW boxes \in Boxes, NEW d \in [Agents -> Nat],
           \A a \in Agents : d[a] <= Len(boxes[a]), NEW to, NEW m
    PROVE  /\ \A type, r : Old(Post(boxes, to, m), d, type, r) => Old(boxes, d, type, r)
           /\ \A type, r : New(Post(boxes, to, m), d, type, r) =>
                  New(boxes, d, type, r) \/ (m.type = type /\ m.order = r)
<1> DEFINE new == Post(boxes, to, m)
<1>1. CASE to \notin Agents
  BY <1>1 DEF Post
<1>2. CASE to \in Agents
  <2>1. /\ \A a \in Agents : Len(boxes[a]) \in Nat /\ d[a] \in Nat
        /\ Len(new[to]) = Len(boxes[to]) + 1
        /\ \A i \in 1..Len(boxes[to]) : new[to][i] = boxes[to][i]
        /\ new[to][Len(boxes[to]) + 1] = m
        /\ \A a \in Agents \ {to} : new[a] = boxes[a]
    BY <1>2, LenProperties, AppendProperties DEF Post, Boxes
  <2> HIDE DEF new
  <2>2. ASSUME NEW a \in Agents, NEW i \in 1..Len(new[a])
        PROVE  \/ i \in 1..Len(boxes[a]) /\ new[a][i] = boxes[a][i]
               \/ i > d[a] /\ new[a][i] = m
    BY <1>2, <2>1
  <2>3. ASSUME NEW a \in Agents, NEW i \in 1..Len(new[a]), i <= d[a]
        PROVE  i \in 1..Len(boxes[a]) /\ new[a][i] = boxes[a][i]
    BY <2>1, <2>2, <2>3
  <2>4. \A type, r : Old(new, d, type, r) => Old(boxes, d, type, r)
    BY <2>3 DEF Old
  <2>5. \A type, r : New(new, d, type, r) =>
            New(boxes, d, type, r) \/ (m.type = type /\ m.order = r)
    BY <2>2 DEF New
  <2> QED
    BY <2>4, <2>5 DEF new
<1> QED
  BY <1>1, <1>2

(* So is what is posted to vendors.                                        *)
LEMMA VendorsAges ==
    ASSUME QueuesOK, NEW t \in MessageTypes, NEW f \in Agents, NEW orders \in SUBSET Requests
    PROVE  LET new == PostToVendors(t, f, orders)
           IN  /\ \A type, r : Old(new, due, type, r) => Old(inbox, due, type, r)
               /\ \A type, r : New(new, due, type, r) =>
                      New(inbox, due, type, r) \/ (type = t /\ r \in orders)
<1> DEFINE new == PostToVendors(t, f, orders)
<1>1. ASSUME NEW a \in Agents, NEW i \in 1..Len(new[a])
      PROVE  \/ i \in 1..Len(inbox[a]) /\ new[a][i] = inbox[a][i]
             \/ i > due[a] /\ new[a][i].type = t /\ new[a][i].order \in orders
  <2> DEFINE told == ToTell(orders, a)
  <2>1. /\ Len(inbox[a]) \in Nat /\ Len(told) \in Nat
        /\ Len(new[a]) = Len(inbox[a]) + Len(told)
        /\ \A j \in 1..Len(inbox[a]) : new[a][j] = inbox[a][j]
        /\ \A j \in 1..Len(told) : /\ told[j] \in orders
                                   /\ new[a][Len(inbox[a]) + j] = Mail(t, f, told[j])
    BY VendorsShape DEF QueuesOK
  <2>2. due[a] \in Nat /\ due[a] <= Len(inbox[a])
    BY DEF QueuesOK
  <2> HIDE DEF told, new
  <2>3. CASE i \in 1..Len(inbox[a])
    BY <2>1, <2>3
  <2>4. CASE i \notin 1..Len(inbox[a])
    <3> DEFINE j == i - Len(inbox[a])
    <3>1. j \in 1..Len(told) /\ i = Len(inbox[a]) + j /\ i > due[a]
      BY <2>1, <2>2, <2>4
    <3> HIDE DEF j
    <3>2. told[j] \in orders /\ new[a][i] = Mail(t, f, told[j])
      BY <2>1, <3>1
    <3>3. new[a][i].type = t /\ new[a][i].order = told[j]
      BY <3>2 DEF Mail
    <3> QED
      BY <3>1, <3>2, <3>3
  <2> QED
    BY <2>3, <2>4
<1>2. \A a \in Agents : Len(inbox[a]) \in Nat /\ due[a] \in Nat /\ Len(new[a]) \in Nat
  BY VendorsType, LenProperties DEF QueuesOK, Boxes
<1> HIDE DEF new
<1>3. ASSUME NEW a \in Agents, NEW i \in 1..Len(new[a]), i <= due[a]
      PROVE  i \in 1..Len(inbox[a]) /\ new[a][i] = inbox[a][i]
  BY <1>1, <1>2, <1>3
<1>4. \A type, r : Old(new, due, type, r) => Old(inbox, due, type, r)
  BY <1>3 DEF Old
<1>5. \A type, r : New(new, due, type, r) =>
          New(inbox, due, type, r) \/ (type = t /\ r \in orders)
  BY <1>1 DEF New
<1> QED
  BY <1>4, <1>5 DEF new
-----------------------------------------------------------------------------
(* The history checks.                                                     *)

History(q) == q.template = "order_history"

(* A consumer has one check in flight: one it asked for in this tick, with *)
(* the whole gap before it, or one answer to read.  An answer is about its *)
(* own orders.                                                             *)
AskedOK ==
    \A q \in asked : History(q) =>
        /\ q.agent \in Consumers /\ q = Ask(q.agent, "order_history", 0, {})
        /\ wait[q.agent] = HistoryGap
        /\ \A p \in results : History(p) => p.agent # q.agent

AnsweredOK ==
    \A q \in results : History(q) =>
        /\ q.agent \in Consumers /\ wait[q.agent] >= 1
        /\ \A p \in results : History(p) /\ p.agent = q.agent => p = q
        /\ \A r \in q.orders : buyer[r] = q.agent /\ status[r] # "none"

(* Who had its turn has read what was due; who never bought has no row.    *)
DoneOK == \A i \in 1..Len(Roster) : i < turn => due[Roster[i]] = 0
RowsOK == \A r \in Requests : status[r] = "none" => row[r] = "none"

ChecksOK == AskedOK /\ AnsweredOK /\ DoneOK /\ RowsOK

(* A step that neither asks for a history nor ends the tick.               *)
LEMMA ChecksKept ==
    ASSUME ChecksOK, TypeOK, UNCHANGED <<row, wait>>, results' \subseteq results,
           \A q \in asked' : History(q) => q \in asked,
           \A r \in Requests : status[r] # "none" =>
               status'[r] # "none" /\ buyer'[r] = buyer[r],
           \/ UNCHANGED <<turn, due>>
           \/ \E a \in Agents : Fires(a)
           \/ \E a \in Agents : \E type, r : Receives(a, type, r)
    PROVE  ChecksOK'
<1>1. AskedOK'
  BY DEF ChecksOK, AskedOK
<1>2. AnsweredOK'
  <2>1. ASSUME NEW q \in results, History(q), NEW r \in q.orders
        PROVE  buyer'[r] = q.agent /\ status'[r] # "none"
    <3>1. r \in Requests
      BY DEF TypeOK, Query
    <3>2. buyer[r] = q.agent /\ status[r] # "none"
      BY <2>1 DEF ChecksOK, AnsweredOK
    <3> QED
      BY <3>1, <3>2
  <2> QED
    BY <2>1 DEF ChecksOK, AnsweredOK
<1>3. RowsOK'
  BY DEF ChecksOK, RowsOK
<1>4. DoneOK'
  <2>0. /\ Len(Roster) \in Nat /\ \A i \in 1..Len(Roster) : Roster[i] \in Agents
        /\ turn \in Nat /\ due \in [Agents -> Nat]
    BY RosterFacts DEF TypeOK
  <2>1. CASE UNCHANGED <<turn, due>>
    BY <2>1 DEF ChecksOK, DoneOK
  <2>2. ASSUME NEW a \in Agents, Fires(a) PROVE DoneOK'
    <3>1. turn' = turn + 1 /\ due' = due /\ Roster[turn] = a /\ due[a] = 0
      BY <2>2 DEF Fires, Now
    <3>2. \A i \in 1..Len(Roster) : i < turn + 1 => i < turn \/ i = turn
      BY <2>0
    <3> QED
      BY <3>1, <3>2 DEF ChecksOK, DoneOK
  <2>3. ASSUME NEW a \in Agents, NEW type, NEW r, Receives(a, type, r) PROVE DoneOK'
    <3>1. turn' = turn /\ due' = [due EXCEPT ![a] = @ - 1] /\ due[a] > 0
      BY <2>3 DEF Receives
    <3> QED
      BY <2>0, <3>1 DEF ChecksOK, DoneOK
  <2> QED
    BY <2>1, <2>2, <2>3
<1> QED
  BY <1>1, <1>2, <1>3, <1>4 DEF ChecksOK

(* A consumer asks for its history only when no check of it is in flight.  *)
LEMMA FiringChecks ==
    ASSUME ChecksOK, TypeOK, NEW c \in Consumers, ConsumerFires(c)
    PROVE  ChecksOK'
<1>0. /\ wait \in [Consumers -> 0..HistoryGap] /\ HistoryGap \in Nat /\ HistoryGap # 0
      /\ c \in Agents
  BY TimingAssumption DEF TypeOK, Agents
<1>1. /\ UNCHANGED <<row, status, buyer>> /\ results' = results
      /\ wait' = [wait EXCEPT ![c] = IF @ = 0 THEN HistoryGap ELSE @]
      /\ \A p \in results : p.agent # c
  BY DEF ConsumerFires, Fires, consumerVars
<1>2. \A q \in asked' : History(q) =>
          \/ q \in asked
          \/ wait[c] = 0 /\ q = Ask(c, "order_history", 0, {})
  <2>1. PICK views \in 0..MaxViews :
            asked' = asked \cup HistoryChecks(c)
                         \cup {Ask(c, "product_details", v, {}) : v \in 1..views}
    BY DEF ConsumerFires
  <2>2. \A v : ~ History(Ask(c, "product_details", v, {}))
    BY DEF History, Ask
  <2> QED
    BY <2>1, <2>2 DEF HistoryChecks
<1>3. ASSUME NEW d \in Consumers
      PROVE  wait'[d] = IF d = c /\ wait[d] = 0 THEN HistoryGap ELSE wait[d]
  BY <1>0, <1>1
<1>4. AskedOK'
  <2> SUFFICES ASSUME NEW q \in asked', History(q)
               PROVE  /\ q.agent \in Consumers /\ q = Ask(q.agent, "order_history", 0, {})
                      /\ wait'[q.agent] = HistoryGap
                      /\ \A p \in results' : History(p) => p.agent # q.agent
    BY DEF AskedOK
  <2>1. CASE q \in asked
    <3>1. /\ q.agent \in Consumers /\ q = Ask(q.agent, "order_history", 0, {})
          /\ wait[q.agent] = HistoryGap
          /\ \A p \in results : History(p) => p.agent # q.agent
      BY <2>1 DEF ChecksOK, AskedOK
    <3> QED
      BY <1>1, <1>3, <3>1
  <2>2. CASE wait[c] = 0 /\ q = Ask(c, "order_history", 0, {})
    <3>1. q.agent = c
      BY <2>2 DEF Ask
    <3> QED
      BY <1>1, <1>3, <2>2, <3>1
  <2> QED
    BY <1>2, <2>1, <2>2
<1>5. AnsweredOK'
  BY <1>0, <1>1, <1>3 DEF ChecksOK, AnsweredOK
<1>6. DoneOK'
  <2>1. /\ turn' = turn + 1 /\ due' = due /\ Roster[turn] = c /\ due[c] = 0
        /\ turn \in Nat /\ Len(Roster) \in Nat
    BY RosterFacts DEF ConsumerFires, Fires, Now, TypeOK
  <2>2. \A i \in 1..Len(Roster) : i < turn + 1 => i < turn \/ i = turn
    BY <2>1
  <2> QED
    BY <2>1, <2>2 DEF ChecksOK, DoneOK
<1>7. RowsOK'
  BY <1>1 DEF ChecksOK, RowsOK
<1> QED
  BY <1>4, <1>5, <1>6, <1>7 DEF ChecksOK

(* The end of a tick answers each check.                                   *)
LEMMA TickChecks ==
    ASSUME ChecksOK, TypeOK, ChecksAreApart, written = status, EndTick
    PROVE  ChecksOK'
<1>0. /\ wait \in [Consumers -> 0..HistoryGap] /\ HistoryGap \in Nat
      /\ row \in [Requests -> Statuses]
  BY TimingAssumption DEF TypeOK
<1>1. /\ results' = {Answer(q) : q \in asked} /\ asked' = {} /\ row' = written /\ turn' = 1
      /\ wait' = [c \in Consumers |-> CountDown(wait[c])] /\ UNCHANGED <<status, buyer>>
  BY DEF EndTick, consumerVars
<1>2. ASSUME NEW p \in results', History(p)
      PROVE  \E q \in asked : /\ History(q) /\ p = Answer(q) /\ p.agent = q.agent
                              /\ p.orders = Rows(q.agent)
  <2>1. PICK q \in asked : p = Answer(q)
    BY <1>1
  <2>2. q \in Query
    BY DEF TypeOK
  <2>3. CASE History(q)
    <3>1. p = [q EXCEPT !.orders = Rows(q.agent)]
      BY <2>1, <2>3 DEF Answer, History
    <3>2. p.agent = q.agent /\ p.orders = Rows(q.agent)
      BY <2>2, <3>1 DEF Query
    <3> QED
      BY <2>1, <2>3, <3>2
  <2>4. CASE ~ History(q)
    BY <1>2, <2>1, <2>4 DEF Answer, History
  <2> QED
    BY <2>3, <2>4
<1>3. AnsweredOK'
  <2> SUFFICES ASSUME NEW p \in results', History(p)
               PROVE  /\ p.agent \in Consumers /\ wait'[p.agent] >= 1
                      /\ \A o \in results' : History(o) /\ o.agent = p.agent => o = p
                      /\ \A r \in p.orders : buyer'[r] = p.agent /\ status'[r] # "none"
    BY DEF AnsweredOK
  <2>1. PICK q \in asked : /\ History(q) /\ p = Answer(q) /\ p.agent = q.agent
                           /\ p.orders = Rows(q.agent)
    BY <1>2
  <2>2. /\ q.agent \in Consumers /\ q = Ask(q.agent, "order_history", 0, {})
        /\ wait[q.agent] = HistoryGap
    BY <2>1 DEF ChecksOK, AskedOK
  <2>3. wait'[p.agent] >= 1
    BY <1>0, <1>1, <2>1, <2>2 DEF CountDown, ChecksAreApart
  <2>4. ASSUME NEW o \in results', History(o), o.agent = p.agent PROVE o = p
    <3>1. PICK z \in asked : /\ History(z) /\ o = Answer(z) /\ o.agent = z.agent
      BY <1>2, <2>4
    <3>2. z = Ask(z.agent, "order_history", 0, {})
      BY <3>1 DEF ChecksOK, AskedOK
    <3>3. z = q
      BY <2>1, <2>2, <2>4, <3>1, <3>2
    <3> QED
      BY <2>1, <3>1, <3>3
  <2>5. ASSUME NEW r \in p.orders PROVE buyer'[r] = p.agent /\ status'[r] # "none"
    <3>1. r \in Requests /\ buyer[r] = q.agent /\ row[r] = "requested"
      BY <2>1 DEF Rows
    <3> QED
      BY <1>1, <2>1, <3>1 DEF ChecksOK, RowsOK
  <2> QED
    BY <2>1, <2>2, <2>3, <2>4, <2>5
<1>4. AskedOK' /\ RowsOK'
  BY <1>1 DEF AskedOK, RowsOK
<1>5. DoneOK'
  BY <1>1, RosterFacts DEF DoneOK
<1> QED
  BY <1>3, <1>4, <1>5 DEF ChecksOK
-----------------------------------------------------------------------------
(* The pace of an order.                                                   *)

IsOld(type, r) == Old(inbox, due, type, r)
IsNew(type, r) == New(inbox, due, type, r)
Answered(r) == \E q \in results : History(q) /\ r \in q.orders

(* How far the goods of an order may be while a cancellation of it is      *)
(* considered or just sent; while it is read or just rejected; and while   *)
(* the rejection is read.                                                  *)
Early(r) ==
    /\ ~ IsOld("ship_request", r) /\ eta[r] = NoShipment
    /\ ~ Holds(inbox, "delivery_complete", r) /\ stage[r] # "delivered"
Midway(r) == ~ IsOld("delivery_complete", r) /\ stage[r] # "delivered"
Late(r) == ~ IsOld("shipment_notification", r) /\ status[r] # "delivered"

(* A row that says "requested" is at most a tick behind the consumer, who  *)
(* pays once it no longer thinks so.                                       *)
Timed(r) ==
    /\ Holds(inbox, "payment", r) \/ stage[r] \in {"paid", "delivered"}
           => status[r] \notin {"none", "requested"}
    /\ row[r] = "requested" => /\ stage[r] \notin {"paid", "delivered"}
                               /\ ~ IsOld("payment", r)
    /\ Answered(r) \/ IsNew("cancel_request", r) => Early(r)
    /\ IsOld("cancel_request", r) \/ IsNew("cancel_rejected", r) => Midway(r)
    /\ IsOld("cancel_rejected", r) => Late(r)

(* What a step within a tick may do to an order: each part of its pace is  *)
(* moved on by the part before it, and by an old message.                  *)
Paced(r) ==
    /\ \A type : Old(inbox', due', type, r) => IsOld(type, r)
    /\ New(inbox', due', "payment", r) =>
           IsNew("payment", r) \/ status'[r] \notin {"none", "requested"}
    /\ New(inbox', due', "delivery_complete", r) =>
           IsNew("delivery_complete", r) \/ eta[r] # NoShipment
    /\ New(inbox', due', "cancel_request", r) => IsNew("cancel_request", r) \/ Answered(r)
    /\ New(inbox', due', "cancel_rejected", r) =>
           IsNew("cancel_rejected", r) \/ IsOld("cancel_request", r)
    /\ stage'[r] \in {"paid", "delivered"} =>
           stage[r] \in {"paid", "delivered"} \/ IsOld("payment", r)
    /\ stage'[r] = "delivered" => stage[r] = "delivered" \/ IsOld("delivery_complete", r)
    /\ eta'[r] # NoShipment => eta[r] # NoShipment \/ IsOld("ship_request", r)
    /\ status'[r] = "delivered" =>
           status[r] = "delivered" \/ IsOld("shipment_notification", r)
    /\ status'[r] \in {"none", "requested"} => status[r] \in {"none", "requested"}

(* Such a step keeps the pace.                                             *)
LEMMA TimedStep ==
    ASSUME QueuesOK, QueuesOK', NEW r \in Requests, Timed(r), Paced(r),
           row' = row, results' \subseteq results
    PROVE  Timed(r)'
<1>1. /\ \A type : Holds(inbox, type, r) <=> IsOld(type, r) \/ IsNew(type, r)
      /\ \A type : Holds(inbox', type, r) <=>
             Old(inbox', due', type, r) \/ New(inbox', due', type, r)
  BY OldOrNew DEF QueuesOK, IsOld, IsNew
<1>2. Answered(r)' => Answered(r)
  BY DEF Answered
<1>3. \A type : /\ IsOld(type, r)' <=> Old(inbox', due', type, r)
                /\ IsNew(type, r)' <=> New(inbox', due', type, r)
                /\ Holds(inbox, type, r)' <=> Holds(inbox', type, r)
  BY AgesPrime, HoldsPrime DEF IsOld, IsNew
<1>4. Early(r) => ~ (stage'[r] = "delivered") /\ eta'[r] = NoShipment
                  /\ ~ Old(inbox', due', "ship_request", r)
                  /\ ~ Holds(inbox', "delivery_complete", r)
  BY <1>1 DEF Early, Paced
<1>5. Early(r) => Early(r)'
  BY <1>3, <1>4 DEF Early
<1>6. Midway(r) => Midway(r)'
  BY <1>3 DEF Midway, Paced
<1>7. Late(r) => Late(r)'
  BY <1>3 DEF Late, Paced
<1>8. Early(r) => Midway(r)
  BY <1>1 DEF Early, Midway
<1>9. Holds(inbox', "payment", r) \/ stage'[r] \in {"paid", "delivered"}
          => status'[r] \notin {"none", "requested"}
  BY <1>1 DEF Timed, Paced
<1>10. row'[r] = "requested" => /\ stage'[r] \notin {"paid", "delivered"}
                                /\ ~ Old(inbox', due', "payment", r)
  BY DEF Timed, Paced
<1>11. Answered(r)' \/ New(inbox', due', "cancel_request", r) => Early(r)'
  BY <1>2, <1>5 DEF Timed, Paced
<1>12. Old(inbox', due', "cancel_request", r) \/ New(inbox', due', "cancel_rejected", r)
           => Midway(r)'
  BY <1>6 DEF Timed, Paced
<1>13. Old(inbox', due', "cancel_rejected", r) => Late(r)'
  BY <1>7 DEF Timed, Paced
<1> HIDE DEF Early, Midway, Late
<1> QED
  BY <1>3, <1>9, <1>10, <1>11, <1>12, <1>13 DEF Timed

(* The end of a tick makes the new messages old, when no old one is left.  *)
LEMMA TimedTick ==
    ASSUME IInv, ChecksOK, written = status, NEW r \in Requests, Timed(r), EndTick
    PROVE  Timed(r)'
<1>1. /\ UNCHANGED <<inbox, status, stage, buyer>> /\ row' = written /\ turn > Len(Roster)
      /\ due' = [a \in Agents |-> Len(inbox[a])] /\ results' = {Answer(q) : q \in asked}
      /\ eta'[r] = CountDown(eta[r])
  BY DEF EndTick, consumerVars, sellerVars
<1>2. /\ TypeOK /\ inbox \in Boxes /\ due \in [Agents -> Nat] /\ Sound(r)
      /\ \A a \in Agents : Len(inbox[a]) \in Nat
  BY LenProperties DEF IInv, TypeOK, Boxes
<1>3. \A a \in Agents : due[a] = 0
  <2>1. \A a \in Agents : \E i \in 1..Len(Roster) : Roster[i] = a
    <3>1. Roster \in Seq(Agents) /\ Range(Roster) = Agents
      BY AgentsAssumption
    <3>2. DOMAIN Roster = 1..Len(Roster)
      BY <3>1, LenProperties
    <3> QED
      BY <3>1, <3>2 DEF Range
  <2>2. turn \in Nat /\ Len(Roster) \in Nat
    BY <1>2, RosterFacts DEF TypeOK
  <2> QED
    BY <1>1, <2>1, <2>2 DEF ChecksOK, DoneOK
<1>4. \A type : ~ IsOld(type, r)
  BY <1>2, <1>3 DEF IsOld, Old
<1>5. \A type : Holds(inbox, type, r) <=> IsNew(type, r)
  BY <1>2, <1>4, OldOrNew DEF IsOld, IsNew
<1>6. \A type : ~ IsNew(type, r)' /\ (IsOld(type, r)' => Holds(inbox, type, r))
  BY <1>1, <1>2 DEF IsNew, IsOld, Old, New, Holds
<1>7. \A type : Holds(inbox, type, r)' <=> Holds(inbox, type, r)
  BY <1>1, HoldsPrime
<1>8. eta[r] = NoShipment => eta'[r] = NoShipment
  BY <1>1 DEF CountDown, NoShipment
<1>9. Answered(r)' => row[r] = "requested"
  <2> SUFFICES ASSUME NEW q \in asked, History(Answer(q)), r \in Answer(q).orders
               PROVE  row[r] = "requested"
    BY <1>1 DEF Answered
  <2>1. q \in Query
    BY <1>2 DEF TypeOK
  <2>2. CASE History(q)
    BY <2>1, <2>2 DEF Answer, Rows, History, Query
  <2>3. CASE ~ History(q)
    BY <2>3 DEF Answer, History
  <2> QED
    BY <2>2, <2>3
<1>10. Answered(r)' => Early(r)'
  <2>1. row[r] = "requested" => /\ ~ Holds(inbox, "ship_request", r) /\ eta[r] = NoShipment
                                /\ ~ Holds(inbox, "delivery_complete", r)
                                /\ stage[r] # "delivered"
    BY <1>2 DEF Timed, Sound
  <2> QED
    BY <1>1, <1>6, <1>7, <1>8, <1>9, <2>1 DEF Early
<1>11. Early(r) => Midway(r)'
  BY <1>1, <1>6 DEF Early, Midway
<1>12. Midway(r) => Late(r)'
  <2>1. stage[r] # "delivered" => ~ Holds(inbox, "shipment_notification", r)
                                  /\ status[r] # "delivered"
    BY <1>2 DEF Sound, Settled
  <2> QED
    BY <1>1, <1>6, <2>1 DEF Midway, Late
<1>13. row'[r] = "requested" => /\ stage'[r] \notin {"paid", "delivered"}
                                /\ ~ IsOld("payment", r)'
  BY <1>1, <1>6 DEF Timed
<1> HIDE DEF Early, Midway, Late
<1> QED
  BY <1>1, <1>5, <1>6, <1>7, <1>10, <1>11, <1>12, <1>13 DEF Timed
-----------------------------------------------------------------------------
(* A cancellation is asked for once.                                       *)

Doubtful == {"cancel_request", "cancel_rejected"}
DoubtsIn(boxes, r) == Count(boxes, "cancel_request", r) + Count(boxes, "cancel_rejected", r)
Unasked(r) == DoubtsIn(inbox, r) = 0 /\ stage[r] # "cancelled"

(* A consumer that will not check its history before the tick ends.        *)
Busy(c) == wait[c] >= 1 /\ \A q \in asked : History(q) => q.agent # c

(* A request or its rejection is under way once, and not after the seller  *)
(* has cancelled.  None was sent about an order that is as requested or    *)
(* that an answer lists; its row may lag behind, but no longer than until  *)
(* the next check.                                                         *)
Once(r) ==
    /\ DoubtsIn(inbox, r) \in 0..1
    /\ stage[r] = "cancelled" => DoubtsIn(inbox, r) = 0
    /\ status[r] \in {"none", "requested"} => Unasked(r)
    /\ row[r] = "requested" => Unasked(r) \/ \E c \in Consumers : buyer[r] = c /\ Busy(c)
    /\ Answered(r) => Unasked(r)

(* Doubts look at the boxes and nothing else.                              *)
LEMMA DoubtsPrime == \A r : DoubtsIn(inbox, r)' = DoubtsIn(inbox', r)
BY DEF DoubtsIn, Count, Slots, IsAt

(* Their number is a number.                                               *)
LEMMA DoubtsType ==
    ASSUME NEW boxes, Finite(boxes), NEW r
    PROVE  DoubtsIn(boxes, r) \in Nat
<1>1. Count(boxes, "cancel_request", r) \in Nat /\ Count(boxes, "cancel_rejected", r) \in Nat
  BY CountType
<1> QED
  BY <1>1 DEF DoubtsIn

(* A step that adds no doubt about an order.                               *)
LEMMA OnceKept ==
    ASSUME NEW r \in Requests, Once(r), row'[r] = row[r], results' \subseteq results,
           DoubtsIn(inbox', r) \in Nat, DoubtsIn(inbox', r) <= DoubtsIn(inbox, r),
           stage'[r] = "cancelled" => stage[r] = "cancelled",
           status'[r] \in {"none", "requested"} => status[r] \in {"none", "requested"},
           row[r] = "requested" => buyer'[r] = buyer[r],
           \A c \in Consumers : Busy(c) => Busy(c)'
    PROVE  Once(r)'
<1>1. Answered(r)' => Answered(r)
  BY DEF Answered
<1>2. DoubtsIn(inbox, r)' = DoubtsIn(inbox', r)
  BY DoubtsPrime
<1>3. DoubtsIn(inbox, r) \in 0..1 /\ DoubtsIn(inbox', r) \in 0..1
  BY DEF Once
<1>4. Unasked(r) => Unasked(r)'
  BY <1>2, <1>3 DEF Unasked
<1>5. stage'[r] = "cancelled" => DoubtsIn(inbox', r) = 0
  BY <1>3 DEF Once
<1>6. /\ status[r] \in {"none", "requested"} => Unasked(r)
      /\ row[r] = "requested" => Unasked(r) \/ \E c \in Consumers : buyer[r] = c /\ Busy(c)
      /\ Answered(r) => Unasked(r)
  BY DEF Once
<1>7. row'[r] = "requested" => Unasked(r)' \/ \E c \in Consumers : buyer'[r] = c /\ Busy(c)'
  BY <1>4, <1>6
<1>8. status'[r] \in {"none", "requested"} => Unasked(r)'
  BY <1>4, <1>6
<1>9. Answered(r)' => Unasked(r)'
  BY <1>1, <1>4, <1>6
<1> QED
  BY <1>2, <1>3, <1>5, <1>7, <1>8, <1>9 DEF Once

(* The end of a tick lists no order that was asked about.                  *)
LEMMA OnceTick ==
    ASSUME TypeOK, written = status, NEW r \in Requests, Once(r), EndTick
    PROVE  Once(r)'
<1>1. /\ UNCHANGED <<inbox, status, stage, buyer>> /\ row' = written
      /\ results' = {Answer(q) : q \in asked}
  BY DEF EndTick, consumerVars, sellerVars
<1>2. DoubtsIn(inbox, r)' = DoubtsIn(inbox, r) /\ (Unasked(r)' <=> Unasked(r))
  BY <1>1, DoubtsPrime DEF Unasked
<1>3. Answered(r)' => Unasked(r)
  <2> SUFFICES ASSUME NEW q \in asked, History(Answer(q)), r \in Answer(q).orders
               PROVE  Unasked(r)
    BY <1>1 DEF Answered
  <2>1. q \in Query
    BY DEF TypeOK
  <2>2. CASE History(q)
    <3>1. row[r] = "requested" /\ buyer[r] = q.agent
      BY <2>1, <2>2 DEF Answer, Rows, History, Query
    <3>2. ASSUME NEW c \in Consumers, buyer[r] = c, Busy(c) PROVE FALSE
      BY <2>2, <3>1, <3>2 DEF Busy
    <3> QED
      BY <3>1, <3>2 DEF Once
  <2>3. CASE ~ History(q)
    BY <2>3 DEF Answer, History
  <2> QED
    BY <2>2, <2>3
<1>4. /\ row'[r] = "requested" => Unasked(r)
      /\ status'[r] \in {"none", "requested"} => Unasked(r)
      /\ DoubtsIn(inbox, r) \in 0..1
      /\ stage'[r] = "cancelled" => DoubtsIn(inbox, r) = 0
  BY <1>1 DEF Once
<1> QED
  BY <1>2, <1>3, <1>4 DEF Once

(* A consumer that asks to cancel orders an answer lists.                  *)
LEMMA OnceAsked ==
    ASSUME TypeOK, ChecksOK, \A r \in Requests : Once(r), NEW r \in Requests,
           NEW q \in results, History(q), r \in q.orders,
           results' = results \ {q}, UNCHANGED <<row, stage, buyer, wait, asked>>,
           status'[r] = "cancel_requested",
           DoubtsIn(inbox', r) \in 0..(DoubtsIn(inbox, r) + 1)
    PROVE  Once(r)'
<1>1. Unasked(r) /\ stage[r] # "cancelled" /\ DoubtsIn(inbox, r) = 0
  BY DEF Once, Answered, Unasked
<1>2. q.agent \in Consumers /\ wait[q.agent] >= 1 /\ buyer[r] = q.agent
  BY DEF ChecksOK, AnsweredOK
<1>3. Busy(q.agent)
  BY <1>2 DEF Busy, ChecksOK, AskedOK
<1> DEFINE c == q.agent
<1>4. c \in Consumers /\ buyer'[r] = c /\ Busy(c)'
  BY <1>2, <1>3 DEF Busy
<1>5. ~ Answered(r)'
  <2> SUFFICES ASSUME NEW p \in results', History(p), r \in p.orders PROVE FALSE
    BY DEF Answered
  <2>1. buyer[r] = p.agent
    BY DEF ChecksOK, AnsweredOK
  <2>2. p = q
    BY <1>2, <2>1 DEF ChecksOK, AnsweredOK
  <2> QED
    BY <2>2
<1>6. DoubtsIn(inbox', r) \in 0..1
  BY <1>1
<1>7. DoubtsIn(inbox, r)' = DoubtsIn(inbox', r)
  BY DoubtsPrime
<1> HIDE DEF c
<1>8. \E d \in Consumers : buyer'[r] = d /\ Busy(d)'
  BY <1>4
<1> QED
  BY <1>1, <1>5, <1>6, <1>7, <1>8 DEF Once
-----------------------------------------------------------------------------
(* What reading and posting do to the doubts.                              *)

(* Reading a request or a rejection leaves a doubt less.                   *)
LEMMA ReadDoubts ==
    ASSUME QueuesOK, Finite(inbox), NEW o \in Agents, NEW t, NEW q, Receives(o, t, q)
    PROVE  /\ Finite(Popped(o))
           /\ \A r : /\ DoubtsIn(Popped(o), r) \in Nat
                     /\ DoubtsIn(Popped(o), r) <= DoubtsIn(inbox, r)
           /\ t \in Doubtful => DoubtsIn(inbox, q) >= 1
                                /\ DoubtsIn(Popped(o), q) = DoubtsIn(inbox, q) - 1
<1>1. /\ Finite(Popped(o)) /\ Count(inbox, t, q) >= 1
      /\ \A type, r : Count(Popped(o), type, r) = Count(inbox, type, r) - One(type = t /\ r = q)
  BY ReadCounts
<1>2. \A type, r : Count(inbox, type, r) \in Nat /\ Count(Popped(o), type, r) \in Nat
  BY <1>1, CountType
<1>3. \A r : /\ DoubtsIn(Popped(o), r) \in Nat
             /\ DoubtsIn(Popped(o), r) <= DoubtsIn(inbox, r)
  BY <1>1, <1>2 DEF DoubtsIn, One
<1>4. t \in Doubtful => DoubtsIn(inbox, q) >= 1
                       /\ DoubtsIn(Popped(o), q) = DoubtsIn(inbox, q) - 1
  <2>1. CASE t = "cancel_request"
    BY <1>1, <1>2, <2>1 DEF DoubtsIn, One
  <2>2. CASE t = "cancel_rejected"
    BY <1>1, <1>2, <2>2 DEF DoubtsIn, One
  <2> QED
    BY <2>1, <2>2 DEF Doubtful
<1> QED
  BY <1>1, <1>3, <1>4

(* Only a request or a rejection that is posted is a doubt more.           *)
LEMMA PostDoubts ==
    ASSUME NEW boxes \in Boxes, Finite(boxes), NEW to, NEW m
    PROVE  /\ Finite(Post(boxes, to, m))
           /\ \A r : /\ DoubtsIn(Post(boxes, to, m), r) \in Nat
                     /\ DoubtsIn(Post(boxes, to, m), r) <= DoubtsIn(boxes, r) + 1
                     /\ (m.type \notin Doubtful \/ m.order # r) =>
                            DoubtsIn(Post(boxes, to, m), r) <= DoubtsIn(boxes, r)
<1>1. /\ Finite(Post(boxes, to, m))
      /\ \A type, r : Count(Post(boxes, to, m), type, r) = Count(boxes, type, r)
             + One(to \in Agents /\ m.type = type /\ m.order = r)
  BY PostCounts
<1>2. \A type, r : Count(boxes, type, r) \in Nat
  BY CountType
<1>3. ASSUME NEW r
      PROVE  One(to \in Agents /\ m.type = "cancel_request" /\ m.order = r)
                 + One(to \in Agents /\ m.type = "cancel_rejected" /\ m.order = r)
             <= One(m.type \in Doubtful /\ m.order = r)
  BY DEF One, Doubtful
<1>4. ASSUME NEW r
      PROVE  DoubtsIn(Post(boxes, to, m), r)
                 <= DoubtsIn(boxes, r) + One(m.type \in Doubtful /\ m.order = r)
  <2> DEFINE a == One(to \in Agents /\ m.type = "cancel_request" /\ m.order = r)
             b == One(to \in Agents /\ m.type = "cancel_rejected" /\ m.order = r)
             z == One(m.type \in Doubtful /\ m.order = r)
  <2>1. a \in Nat /\ b \in Nat /\ z \in Nat /\ a + b <= z
    BY <1>3 DEF One
  <2>2. /\ Count(Post(boxes, to, m), "cancel_request", r) = Count(boxes, "cancel_request", r) + a
        /\ Count(Post(boxes, to, m), "cancel_rejected", r) = Count(boxes, "cancel_rejected", r) + b
    BY <1>1
  <2> HIDE DEF a, b, z
  <2>3. DoubtsIn(Post(boxes, to, m), r) <= DoubtsIn(boxes, r) + z
    BY <1>2, <2>1, <2>2 DEF DoubtsIn
  <2> QED
    BY <2>3 DEF z
<1>5. ASSUME NEW r
      PROVE  /\ DoubtsIn(Post(boxes, to, m), r) <= DoubtsIn(boxes, r) + 1
             /\ (m.type \notin Doubtful \/ m.order # r) =>
                    DoubtsIn(Post(boxes, to, m), r) <= DoubtsIn(boxes, r)
  <2>1. DoubtsIn(Post(boxes, to, m), r) \in Nat /\ DoubtsIn(boxes, r) \in Nat
    BY <1>1, DoubtsType
  <2> QED
    BY <1>4, <2>1 DEF One
<1> QED
  BY <1>1, <1>5, DoubtsType

(* Posting anything else leaves the doubts as they are.                    *)
LEMMA PostCalm ==
    ASSUME NEW boxes \in Boxes, Finite(boxes), NEW to, NEW m, m.type \notin Doubtful
    PROVE  \A r : /\ DoubtsIn(Post(boxes, to, m), r) \in Nat
                  /\ DoubtsIn(Post(boxes, to, m), r) <= DoubtsIn(boxes, r)
<1>1. \A r : /\ DoubtsIn(Post(boxes, to, m), r) \in Nat
             /\ m.type \notin Doubtful => DoubtsIn(Post(boxes, to, m), r) <= DoubtsIn(boxes, r)
  BY PostDoubts
<1> QED
  BY <1>1

(* The same of what is posted to vendors.                                  *)
LEMMA VendorsDoubts ==
    ASSUME inbox \in Boxes, Finite(inbox), NEW t \in MessageTypes, t # "cancel_rejected",
           NEW f \in Agents, NEW orders \in SUBSET Requests
    PROVE  LET new == PostToVendors(t, f, orders)
           IN  \A r : /\ DoubtsIn(new, r) \in Nat
                      /\ DoubtsIn(new, r) <= DoubtsIn(inbox, r) + 1
                      /\ (t # "cancel_request" \/ r \notin orders) =>
                             DoubtsIn(new, r) <= DoubtsIn(inbox, r)
<1> DEFINE new == PostToVendors(t, f, orders)
<1>1. /\ Finite(new)
      /\ \A type, r : Count(new, type, r) = Count(inbox, type, r)
             + One(type = t /\ r \in orders /\ vendor[r] \in Agents)
  BY VendorsCounts
<1> HIDE DEF new
<1>2. \A type, r : Count(inbox, type, r) \in Nat
  BY CountType
<1>3. ASSUME NEW r
      PROVE  DoubtsIn(new, r) <= DoubtsIn(inbox, r) + One(t = "cancel_request" /\ r \in orders)
  <2>1. /\ Count(new, "cancel_rejected", r) = Count(inbox, "cancel_rejected", r)
        /\ Count(new, "cancel_request", r)
               <= Count(inbox, "cancel_request", r) + One(t = "cancel_request" /\ r \in orders)
    BY <1>1, <1>2 DEF One
  <2>2. One(t = "cancel_request" /\ r \in orders) \in Nat /\ Count(new, "cancel_request", r) \in Nat
    BY <1>1, CountType DEF One
  <2> QED
    BY <1>2, <2>1, <2>2 DEF DoubtsIn
<1>4. ASSUME NEW r
      PROVE  /\ DoubtsIn(new, r) <= DoubtsIn(inbox, r) + 1
             /\ (t # "cancel_request" \/ r \notin orders) =>
                    DoubtsIn(new, r) <= DoubtsIn(inbox, r)
  <2>1. DoubtsIn(new, r) \in Nat /\ DoubtsIn(inbox, r) \in Nat
    BY <1>1, DoubtsType
  <2> QED
    BY <1>3, <2>1 DEF One
<1> QED
  BY <1>1, <1>4, DoubtsType DEF new
-----------------------------------------------------------------------------
(* The steps within a tick.                                                *)

RowOK(r) == row[r] \in Settled => status[r] = row[r]
RInv == /\ CInv /\ ChecksOK /\ written = status
        /\ \A r \in Requests : Timed(r) /\ Once(r) /\ RowOK(r)

(* What such a step does to rows and orders.                               *)
Steady ==
    /\ row' = row /\ results' \subseteq results /\ written' = status' /\ ChecksOK'
    /\ \A r \in Requests : /\ Paced(r) /\ Once(r)'
                           /\ status[r] \in Settled => status'[r] = status[r]

(* That is enough.                                                         *)
LEMMA SteadyKeeps ==
    ASSUME RInv, CInv', Steady
    PROVE  RInv'
<1>1. QueuesOK /\ QueuesOK'
  <2>1. TypeOK /\ TypeOK'
    BY DEF RInv, CInv, AInv, IInv
  <2> QED
    BY <2>1 DEF TypeOK, QueuesOK, Boxes
<1>2. ASSUME NEW r \in Requests PROVE Timed(r)' /\ Once(r)' /\ RowOK(r)'
  <2>1. Timed(r) /\ Paced(r) /\ row' = row /\ results' \subseteq results /\ Once(r)'
    BY DEF RInv, Steady
  <2>2. Timed(r)'
    BY <1>1, <2>1, TimedStep
  <2>3. RowOK(r)'
    BY DEF RInv, Steady, RowOK
  <2> QED
    BY <2>1, <2>2, <2>3
<1> QED
  BY <1>2 DEF RInv, Steady

(* A consumer that reads a message about a pending order.                  *)
LEMMA ConsumerReads ==
    ASSUME RInv, NEW c \in Consumers, NEW t \in MessageTypes, NEW o \in Requests,
           Receives(c, t, o), UNCHANGED <<buyer, asked, sellerVars, eta>>,
           written' = status',
           \/ status' = status /\ inbox' = Popped(c)
           \/ \E x \in {"accepted", "delivered", "cancelled"} :
                /\ status[o] \in Pending /\ status' = [status EXCEPT ![o] = x]
                /\ x = "delivered" => t = "shipment_notification"
                /\ \/ inbox' = Popped(c)
                   \/ \E s : inbox' = Post(Popped(c), s, Mail("payment", c, o))
    PROVE  Steady
<1>1. /\ QueuesOK /\ TypeOK /\ c \in Agents /\ Finite(inbox) /\ ChecksOK
      /\ status \in [Requests -> Statuses]
      /\ \A r \in Requests : Once(r)
  BY TypeSplits DEF RInv, CInv, Counts, AInv, IInv, RestOK, Agents
<1>2. /\ row' = row /\ results' = results /\ wait' = wait /\ turn' = turn
      /\ stage' = stage
  BY DEF Receives, sellerVars
<1>3. /\ Popped(c) \in Boxes /\ due' \in [Agents -> Nat]
      /\ \A a \in Agents : due'[a] <= Len(Popped(c)[a])
      /\ IsOld(t, o)
      /\ \A type, r : Old(Popped(c), due', type, r) => IsOld(type, r)
      /\ \A type, r : New(Popped(c), due', type, r) => IsNew(type, r)
  BY <1>1, ReadAges DEF IsOld, IsNew
<1>4. /\ Finite(Popped(c))
      /\ \A r : /\ DoubtsIn(Popped(c), r) \in Nat
                /\ DoubtsIn(Popped(c), r) <= DoubtsIn(inbox, r)
  BY <1>1, ReadDoubts
<1>5. /\ \A r \in Requests : status[r] # "none" => status'[r] # "none"
      /\ \A r \in Requests : status[r] \in Settled => status'[r] = status[r]
      /\ \A r \in Requests : status'[r] \in {"none", "requested"} =>
             status[r] \in {"none", "requested"}
      /\ \A r \in Requests : status'[r] = "delivered" =>
             status[r] = "delivered" \/ (t = "shipment_notification" /\ r = o)
  BY <1>1 DEF Settled, Pending
<1>6. ChecksOK'
  BY <1>1, <1>2, <1>5, ChecksKept
<1>7. /\ \A type, r : Old(inbox', due', type, r) => IsOld(type, r)
      /\ \A type, r : New(inbox', due', type, r) =>
             \/ IsNew(type, r)
             \/ type = "payment" /\ r = o /\ status'[o] \notin {"none", "requested"}
      /\ \A r : /\ DoubtsIn(inbox', r) \in Nat
                /\ DoubtsIn(inbox', r) <= DoubtsIn(inbox, r)
  <2>1. CASE inbox' = Popped(c)
    BY <1>3, <1>4, <2>1
  <2>2. ASSUME NEW s, inbox' = Post(Popped(c), s, Mail("payment", c, o)),
               status'[o] \notin {"none", "requested"}
        PROVE  <1>7!:
    <3>1. /\ Mail("payment", c, o).type = "payment" /\ Mail("payment", c, o).order = o
          /\ Mail("payment", c, o).type \notin Doubtful
      BY DEF Mail, Doubtful
    <3>2. /\ \A type, r : Old(inbox', due', type, r) => Old(Popped(c), due', type, r)
          /\ \A type, r : New(inbox', due', type, r) =>
                 New(Popped(c), due', type, r) \/ (type = "payment" /\ r = o)
      BY <1>3, <2>2, <3>1, PostAges
    <3>3. \A r : /\ DoubtsIn(inbox', r) \in Nat
                 /\ DoubtsIn(inbox', r) <= DoubtsIn(Popped(c), r)
      BY <1>3, <1>4, <2>2, <3>1, PostCalm
    <3>4. \A r : /\ DoubtsIn(inbox', r) \in Nat
                 /\ DoubtsIn(inbox', r) <= DoubtsIn(inbox, r)
      <4>1. \A r : DoubtsIn(inbox, r) \in Nat
        BY <1>1, DoubtsType
      <4> QED
        BY <1>4, <3>3, <4>1
    <3> QED
      BY <1>3, <2>2, <3>2, <3>4
  <2> QED
    BY <1>1, <2>1, <2>2
<1>8. ASSUME NEW r \in Requests PROVE Paced(r) /\ Once(r)'
  <2>1. Paced(r)
    BY <1>2, <1>3, <1>5, <1>7 DEF Paced
  <2>2. \A d \in Consumers : Busy(d) => Busy(d)'
    BY <1>2 DEF Busy
  <2>3. Once(r)'
    BY <1>1, <1>2, <1>5, <1>7, <2>2, OnceKept
  <2> QED
    BY <2>1, <2>3
<1> QED
  BY <1>2, <1>5, <1>6, <1>8 DEF Steady

(* An answer to a cancellation is about an order the consumer settled that *)
(* way or still has open.                                                  *)
LEMMA AnswersFit ==
    ASSUME RInv, NEW c \in Consumers, NEW o \in Requests
    PROVE  /\ Receives(c, "cancel_confirmed", o) =>
                  status[o] \in Pending \cup {"cancelled"}
           /\ Receives(c, "cancel_rejected", o) => status[o] \in Pending
<1>1. /\ QueuesOK /\ c \in Agents /\ Finite(inbox) /\ Sound(o) /\ Timed(o) /\ Once(o)
      /\ Addressed /\ status[o] \in Statuses
  BY TypeSplits DEF RInv, CInv, Counts, AInv, IInv, RestOK, Agents
<1>2. ASSUME NEW t, Receives(c, t, o) PROVE status[o] # "none" /\ IsOld(t, o) /\ Holds(inbox, t, o)
  <2>1. /\ Len(inbox[c]) > 0 /\ Head(inbox[c]) \in Message /\ inbox \in Boxes
        /\ Holds(inbox, t, o)
    BY <1>1, <1>2, InHand
  <2>2. Fine(c, Head(inbox[c]))
    BY <1>1, <2>1, HeadIn DEF Addressed
  <2>3. Head(inbox[c]).order = o
    BY <1>2 DEF Receives
  <2> QED
    BY <1>1, <1>2, <2>1, <2>2, <2>3, ReadAges DEF Fine, IsOld
<1>3. ASSUME Receives(c, "cancel_confirmed", o)
      PROVE  status[o] \in Pending \cup {"cancelled"}
  BY <1>1, <1>2, <1>3 DEF Sound, Statuses, Settled, Pending
<1>4. ASSUME Receives(c, "cancel_rejected", o)
      PROVE  status[o] \in Pending
  <2>1. status[o] # "none" /\ status[o] # "delivered"
    BY <1>1, <1>2, <1>4 DEF Timed, Late
  <2>2. DoubtsIn(inbox, o) >= 1
    BY <1>1, <1>4, ReadDoubts DEF Doubtful
  <2>3. stage[o] # "cancelled"
    BY <1>1, <2>2 DEF Once
  <2> QED
    BY <1>1, <2>1, <2>3 DEF Sound, Statuses, Settled, Pending
<1> QED
  BY <1>3, <1>4

(* What a consumer reads keeps its rows.                                   *)
LEMMA ConsumerMessages ==
    ASSUME RInv, NEW c \in Consumers,
           \/ OnOrderAccepted(c) \/ OnShipmentNotification(c)
           \/ OnCancelConfirmed(c) \/ OnCancelRejected(c)
    PROVE  Steady
<1>1. /\ status \in [Requests -> Statuses] /\ written = status
  BY DEF RInv, CInv, AInv, IInv, TypeOK
<1>2. ASSUME OnOrderAccepted(c) PROVE Steady
  <2>1. PICK o \in Requests :
            /\ Receives(c, "order_accepted", o)
            /\ UNCHANGED <<buyer, asked, sellerVars, eta>>
            /\ \/ /\ status[o] \in Pending
                  /\ status' = [status EXCEPT ![o] = "accepted"]
                  /\ written' = [written EXCEPT ![o] = "accepted"]
                  /\ \E s : inbox' = Post(Popped(c), s, Mail("payment", c, o))
               \/ inbox' = Popped(c) /\ UNCHANGED <<status, written>>
    BY <1>2 DEF OnOrderAccepted
  <2> QED
    BY <1>1, <2>1, ConsumerReads DEF MessageTypes
<1>3. ASSUME OnShipmentNotification(c) PROVE Steady
  <2>1. PICK o \in Requests :
            /\ Receives(c, "shipment_notification", o) /\ inbox' = Popped(c)
            /\ UNCHANGED <<buyer, asked, sellerVars, eta>>
            /\ \/ /\ status[o] \in Pending
                  /\ status' = [status EXCEPT ![o] = "delivered"]
                  /\ written' = [written EXCEPT ![o] = "delivered"]
               \/ UNCHANGED <<status, written>>
    BY <1>3 DEF OnShipmentNotification
  <2> QED
    BY <1>1, <2>1, ConsumerReads DEF MessageTypes
<1>4. ASSUME OnCancelConfirmed(c) PROVE Steady
  <2>1. PICK o \in Requests :
            /\ Receives(c, "cancel_confirmed", o) /\ inbox' = Popped(c)
            /\ UNCHANGED <<buyer, asked, sellerVars, eta>>
            /\ status' = [status EXCEPT ![o] = IF @ \in Pending THEN "cancelled" ELSE @]
            /\ written' = [written EXCEPT ![o] = "cancelled"]
    BY <1>4 DEF OnCancelConfirmed
  <2>2. status[o] \in Pending \/ status[o] = "cancelled"
    BY <2>1, AnswersFit
  <2>3. CASE status[o] \in Pending
    BY <1>1, <2>1, <2>3, ConsumerReads DEF MessageTypes
  <2>4. CASE status[o] = "cancelled"
    <3>1. status' = status /\ written' = status'
      BY <1>1, <2>1, <2>4 DEF Pending
    <3> QED
      BY <2>1, <3>1, ConsumerReads DEF MessageTypes
  <2> QED
    BY <2>2, <2>3, <2>4
<1>5. ASSUME OnCancelRejected(c) PROVE Steady
  <2>1. PICK o \in Requests :
            /\ Receives(c, "cancel_rejected", o) /\ inbox' = Popped(c)
            /\ UNCHANGED <<buyer, asked, sellerVars, eta>>
            /\ status' = [status EXCEPT ![o] = IF @ \in Pending THEN "accepted" ELSE @]
            /\ written' = [written EXCEPT ![o] = "accepted"]
    BY <1>5 DEF OnCancelRejected
  <2>2. status[o] \in Pending
    BY <2>1, AnswersFit
  <2> QED
    BY <1>1, <2>1, <2>2, ConsumerReads DEF MessageTypes
<1> QED
  BY <1>2, <1>3, <1>4, <1>5

(* A consumer that buys.                                                   *)
LEMMA ConsumerBuys ==
    ASSUME RInv, NEW c \in Consumers, OnProductDetailsResult(c)
    PROVE  Steady
<1>1. /\ QueuesOK /\ TypeOK /\ Finite(inbox) /\ ChecksOK /\ written = status
      /\ status \in [Requests -> Statuses] /\ buyer \in [Requests -> Consumers \cup {NoAgent}]
      /\ \A r \in Requests : Once(r)
      /\ inbox \in Boxes /\ due \in [Agents -> Nat]
      /\ \A a \in Agents : due[a] <= Len(inbox[a])
  BY TypeSplits DEF RInv, CInv, Counts, AInv, IInv, RestOK, QueuesOK
<1>2. /\ UNCHANGED <<row, wait, turn, due, asked, stage, eta>> /\ results' \subseteq results
      /\ \/ UNCHANGED <<inbox, status, buyer, written>>
         \/ \E r \in Requests, s \in Sellers \cup Strangers :
              /\ status[r] = "none"
              /\ status' = [status EXCEPT ![r] = "requested"]
              /\ buyer' = [buyer EXCEPT ![r] = c]
              /\ written' = [written EXCEPT ![r] = "requested"]
              /\ inbox' = Post(inbox, s, Mail("place_order", c, r))
  BY DEF OnProductDetailsResult, Reads, sellerVars, consumerVars
<1>3. /\ written' = status'
      /\ \A r \in Requests : status[r] # "none" =>
             status'[r] # "none" /\ buyer'[r] = buyer[r] /\ status'[r] = status[r]
      /\ \A r \in Requests : status[r] = "none" => status'[r] \in {"none", "requested"}
  BY <1>1, <1>2
<1>4. ChecksOK'
  BY <1>1, <1>2, <1>3, ChecksKept
<1>5. /\ \A type, r : Old(inbox', due', type, r) => IsOld(type, r)
      /\ \A type, r : New(inbox', due', type, r) => IsNew(type, r) \/ type = "place_order"
      /\ \A r : /\ DoubtsIn(inbox', r) \in Nat
                /\ DoubtsIn(inbox', r) <= DoubtsIn(inbox, r)
  <2>1. CASE inbox' = inbox
    BY <1>1, <1>2, <2>1, DoubtsType DEF IsOld, IsNew
  <2>2. ASSUME NEW o \in Requests, NEW s, inbox' = Post(inbox, s, Mail("place_order", c, o))
        PROVE  <1>5!:
    <3>1. /\ Mail("place_order", c, o).type = "place_order"
          /\ Mail("place_order", c, o).type \notin Doubtful
      BY DEF Mail, Doubtful
    <3>2. /\ \A type, r : Old(inbox', due, type, r) => Old(inbox, due, type, r)
          /\ \A type, r : New(inbox', due, type, r) =>
                 New(inbox, due, type, r) \/ type = "place_order"
      BY <1>1, <2>2, <3>1, PostAges
    <3>3. \A r : /\ DoubtsIn(inbox', r) \in Nat
                 /\ DoubtsIn(inbox', r) <= DoubtsIn(inbox, r)
      BY <1>1, <2>2, <3>1, PostCalm
    <3> QED
      BY <1>2, <3>2, <3>3 DEF IsOld, IsNew
  <2> QED
    BY <1>2, <2>1, <2>2
<1>6. ASSUME NEW r \in Requests PROVE Paced(r) /\ Once(r)'
  <2>1. Paced(r)
    BY <1>2, <1>3, <1>5 DEF Paced
  <2>2. \A d \in Consumers : Busy(d) => Busy(d)'
    BY <1>2 DEF Busy
  <2>3. row[r] = "requested" => buyer'[r] = buyer[r]
    BY <1>1, <1>3 DEF ChecksOK, RowsOK
  <2>4. status'[r] \in {"none", "requested"} => status[r] \in {"none", "requested"}
    BY <1>3
  <2>5. Once(r)'
    BY <1>1, <1>2, <1>5, <2>2, <2>3, <2>4, OnceKept
  <2> QED
    BY <2>1, <2>5
<1>7. \A r \in Requests : status[r] \in Settled => status'[r] = status[r]
  BY <1>3 DEF Settled
<1> QED
  BY <1>2, <1>3, <1>4, <1>6, <1>7 DEF Steady

(* A consumer that gives up orders its history lists.                      *)
LEMMA ConsumerGivesUp ==
    ASSUME RInv, NEW c \in Consumers, OnOrderHistoryResult(c)
    PROVE  Steady
<1>1. /\ QueuesOK /\ TypeOK /\ Finite(inbox) /\ ChecksOK /\ written = status
      /\ status \in [Requests -> Statuses] /\ c \in Agents
      /\ \A r \in Requests : Once(r)
      /\ inbox \in Boxes
  BY TypeSplits DEF RInv, CInv, Counts, AInv, IInv, RestOK, QueuesOK, Agents
<1> DEFINE GivenUp(late) == {r \in late : status[r] \in Pending}
           Gives(late) ==
               /\ status' = [r \in Requests |->
                      IF r \in GivenUp(late) THEN "cancel_requested" ELSE status[r]]
               /\ written' = [r \in Requests |->
                      IF r \in GivenUp(late) THEN "cancel_requested" ELSE written[r]]
               /\ inbox' = PostToVendors("cancel_request", c, GivenUp(late))
<1>a. PICK q \in results :
          /\ Reads(c, q) /\ q.template = "order_history"
          /\ UNCHANGED <<buyer, asked, stage, eta>>
          /\ \E late \in SUBSET q.orders : Gives(late)
  BY DEF OnOrderHistoryResult, sellerVars
<1>2. PICK late \in SUBSET q.orders : Gives(late)
  BY <1>a
<1> DEFINE orders == GivenUp(late)
<1>3. /\ UNCHANGED <<row, wait, turn, due, asked, stage, eta, buyer>>
      /\ results' = results \ {q} /\ History(q)
  BY <1>a DEF Reads, History
<1>4. orders \in SUBSET Requests /\ orders \subseteq q.orders
  BY <1>1, <1>2 DEF TypeOK, Query
<1>5. /\ \A r \in orders : status[r] \in Pending
      /\ \A r \in Requests :
             status'[r] = IF r \in orders THEN "cancel_requested" ELSE status[r]
      /\ written' = status' /\ inbox' = PostToVendors("cancel_request", c, orders)
  BY <1>1, <1>2
<1> HIDE DEF orders
<1>6. /\ \A type, r : Old(inbox', due', type, r) => IsOld(type, r)
      /\ \A type, r : New(inbox', due', type, r) =>
             IsNew(type, r) \/ (type = "cancel_request" /\ r \in orders)
  BY <1>1, <1>3, <1>4, <1>5, VendorsAges DEF IsOld, IsNew, MessageTypes
<1>7. \A r : /\ DoubtsIn(inbox', r) \in Nat
             /\ DoubtsIn(inbox', r) <= DoubtsIn(inbox, r) + 1
             /\ r \notin orders => DoubtsIn(inbox', r) <= DoubtsIn(inbox, r)
  BY <1>1, <1>4, <1>5, VendorsDoubts DEF MessageTypes
<1>8. /\ \A r \in Requests : status[r] # "none" => status'[r] # "none"
      /\ \A r \in Requests : status[r] \in Settled => status'[r] = status[r]
      /\ \A r \in Requests : status'[r] \in {"none", "requested", "delivered"} =>
             status[r] = status'[r]
  BY <1>5 DEF Pending, Settled
<1>9. ChecksOK'
  BY <1>1, <1>3, <1>8, ChecksKept
<1>10. ASSUME NEW r \in Requests PROVE Paced(r) /\ Once(r)'
  <2>1. r \in orders => Answered(r)
    BY <1>3, <1>4 DEF Answered
  <2>2. Paced(r)
    BY <1>3, <1>6, <1>8, <2>1 DEF Paced
  <2>3. CASE r \in orders
    <3>1. r \in q.orders /\ status'[r] = "cancel_requested"
      BY <1>4, <1>5, <2>3
    <3>2. DoubtsIn(inbox', r) \in 0..(DoubtsIn(inbox, r) + 1)
      BY <1>1, <1>7, DoubtsType
    <3> QED
      BY <1>1, <1>3, <2>2, <3>1, <3>2, OnceAsked
  <2>4. CASE r \notin orders
    <3>1. \A d \in Consumers : Busy(d) => Busy(d)'
      BY <1>3 DEF Busy
    <3>2. status'[r] \in {"none", "requested"} => status[r] \in {"none", "requested"}
      BY <1>8
    <3>3. DoubtsIn(inbox', r) \in Nat /\ DoubtsIn(inbox', r) <= DoubtsIn(inbox, r)
      BY <1>7, <2>4
    <3>4. Once(r)'
      BY <1>1, <1>3, <3>1, <3>2, <3>3, OnceKept
    <3> QED
      BY <2>2, <3>4
  <2> QED
    BY <2>3, <2>4
<1> QED
  BY <1>3, <1>5, <1>8, <1>9, <1>10 DEF Steady

(* A consumer at the end of its turn.                                      *)
LEMMA ConsumerEnds ==
    ASSUME RInv, NEW c \in Consumers, ConsumerFires(c)
    PROVE  Steady
<1>1. /\ TypeOK /\ Finite(inbox) /\ ChecksOK /\ written = status
      /\ wait \in [Consumers -> 0..HistoryGap] /\ HistoryGap \in Nat
      /\ \A r \in Requests : Once(r)
  BY TimingAssumption DEF RInv, CInv, Counts, AInv, IInv, TypeOK
<1>2. /\ UNCHANGED <<row, results, inbox, due, status, buyer, written, stage, eta>>
      /\ wait' = [wait EXCEPT ![c] = IF @ = 0 THEN HistoryGap ELSE @]
  BY DEF ConsumerFires, Fires, consumerVars, sellerVars
<1>3. ChecksOK'
  BY <1>1, FiringChecks
<1>4. \A q \in asked' : History(q) => q \in asked \/ (wait[c] = 0 /\ q.agent = c)
  <2>1. PICK views \in 0..MaxViews :
            asked' = asked \cup HistoryChecks(c)
                         \cup {Ask(c, "product_details", v, {}) : v \in 1..views}
    BY DEF ConsumerFires
  <2>2. \A v : ~ History(Ask(c, "product_details", v, {}))
    BY DEF History, Ask
  <2>3. Ask(c, "order_history", 0, {}).agent = c
    BY DEF Ask
  <2> QED
    BY <2>1, <2>2, <2>3 DEF HistoryChecks
<1>5. ASSUME NEW d \in Consumers, Busy(d) PROVE Busy(d)'
  <2>1. wait[d] >= 1 /\ \A q \in asked : History(q) => q.agent # d
    BY <1>5 DEF Busy
  <2>2. wait'[d] = wait[d]
    BY <1>1, <1>2, <2>1
  <2>3. \A q \in asked' : History(q) => q.agent # d
    BY <1>1, <1>4, <2>1
  <2> QED
    BY <2>1, <2>2, <2>3 DEF Busy
<1>6. ASSUME NEW r \in Requests PROVE Paced(r) /\ Once(r)'
  <2>1. Paced(r)
    BY <1>2 DEF Paced, IsOld, IsNew
  <2>2. DoubtsIn(inbox', r) \in Nat /\ DoubtsIn(inbox', r) <= DoubtsIn(inbox, r)
    BY <1>1, <1>2, DoubtsType
  <2>3. Once(r)'
    BY <1>1, <1>2, <1>5, <2>2, OnceKept
  <2> QED
    BY <2>1, <2>3
<1> QED
  BY <1>1, <1>2, <1>3, <1>6 DEF Steady
-----------------------------------------------------------------------------
(* The steps of the other agents.                                          *)

(* What a handler of theirs may send without a bearing on rows.            *)
Harmless == {"order_accepted", "ship_request", "order_report",
             "shipment_notification", "cancel_confirmed"}

Leads(boxes, d) ==
    /\ boxes \in Boxes /\ Finite(boxes) /\ d \in [Agents -> Nat]
    /\ \A a \in Agents : d[a] <= Len(boxes[a])
    /\ \A type, r : Old(boxes, d, type, r) => IsOld(type, r)
    /\ \A type, r : New(boxes, d, type, r) => IsNew(type, r) \/ type \in Harmless
    /\ \A r : DoubtsIn(boxes, r) \in Nat /\ DoubtsIn(boxes, r) <= DoubtsIn(inbox, r)

(* Standing still leads there, and so does reading,                        *)
LEMMA LeadsOn ==
    ASSUME RInv
    PROVE  /\ Leads(inbox, due)
           /\ \A a \in Agents : \A t, q : Receives(a, t, q) => Leads(Popped(a), due')
<1>1. QueuesOK /\ Finite(inbox)
  BY TypeSplits DEF RInv, CInv, Counts, AInv, IInv
<1>2. Leads(inbox, due)
  <2>1. \A r : DoubtsIn(inbox, r) \in Nat /\ DoubtsIn(inbox, r) <= DoubtsIn(inbox, r)
    BY <1>1, DoubtsType
  <2> QED
    BY <1>1, <2>1 DEF Leads, QueuesOK, IsOld, IsNew
<1>3. ASSUME NEW a \in Agents, NEW t, NEW q, Receives(a, t, q) PROVE Leads(Popped(a), due')
  <2>1. /\ Popped(a) \in Boxes /\ due' \in [Agents -> Nat]
        /\ \A b \in Agents : due'[b] <= Len(Popped(a)[b])
        /\ \A type, r : Old(Popped(a), due', type, r) => IsOld(type, r)
        /\ \A type, r : New(Popped(a), due', type, r) => IsNew(type, r)
    BY <1>1, <1>3, ReadAges DEF IsOld, IsNew
  <2>2. /\ Finite(Popped(a))
        /\ \A r : DoubtsIn(Popped(a), r) \in Nat /\ DoubtsIn(Popped(a), r) <= DoubtsIn(inbox, r)
    BY <1>1, <1>3, ReadDoubts
  <2> QED
    BY <2>1, <2>2 DEF Leads
<1> QED
  BY <1>2, <1>3

(* and posting something harmless.                                         *)
LEMMA LeadsPost ==
    ASSUME NEW boxes, NEW d, Leads(boxes, d), Finite(inbox),
           NEW to, NEW t \in Harmless, NEW f \in Agents, NEW o \in Requests
    PROVE  Leads(Post(boxes, to, Mail(t, f, o)), d)
<1> DEFINE m == Mail(t, f, o)
           new == Post(boxes, to, m)
<1>1. /\ m \in Message /\ m.type = t /\ m.order = o /\ m.type \notin Doubtful
  BY MailType DEF Harmless, MessageTypes, Doubtful
<1> HIDE DEF m
<1>2. /\ boxes \in Boxes /\ Finite(boxes) /\ d \in [Agents -> Nat]
      /\ \A a \in Agents : d[a] <= Len(boxes[a])
  BY DEF Leads
<1>3. new \in Boxes /\ \A a \in Agents : d[a] <= Len(new[a])
  <2>1. new \in Boxes /\ \A a \in Agents : Len(new[a]) >= Len(boxes[a])
    BY <1>1, <1>2, PostType
  <2>2. \A a \in Agents : Len(new[a]) \in Nat /\ Len(boxes[a]) \in Nat /\ d[a] \in Nat
    BY <1>2, <2>1, LenProperties DEF Boxes
  <2> QED
    BY <1>2, <2>1, <2>2
<1>4. /\ \A type, r : Old(new, d, type, r) => Old(boxes, d, type, r)
      /\ \A type, r : New(new, d, type, r) => New(boxes, d, type, r) \/ type = t
  BY <1>1, <1>2, PostAges
<1>5. Finite(new)
  BY <1>2, PostDoubts
<1>6. \A r : DoubtsIn(new, r) \in Nat /\ DoubtsIn(new, r) <= DoubtsIn(boxes, r)
  BY <1>1, <1>2, PostCalm
<1>7. \A r : DoubtsIn(new, r) \in Nat /\ DoubtsIn(new, r) <= DoubtsIn(inbox, r)
  <2>1. \A r : DoubtsIn(inbox, r) \in Nat
    BY DoubtsType
  <2> QED
    BY <1>6, <2>1 DEF Leads
<1> HIDE DEF new
<1>8. Leads(new, d)
  BY <1>2, <1>3, <1>4, <1>5, <1>7 DEF Leads
<1> QED
  BY <1>8 DEF new, m

(* A step that leaves the consumer's records alone.                        *)
LEMMA OthersSteady ==
    ASSUME RInv, UNCHANGED <<row, wait, status, buyer, written>>,
           results' \subseteq results, \A q \in asked' : History(q) => q \in asked,
           \/ UNCHANGED <<turn, due>>
           \/ \E a \in Agents : Fires(a)
           \/ \E a \in Agents : \E type, r : Receives(a, type, r),
           \A r \in Requests : Paced(r),
           \A r \in Requests : (\A c \in Consumers : Busy(c) => Busy(c)') => Once(r)'
    PROVE  Steady
<1>1. ChecksOK /\ TypeOK /\ written = status
  BY DEF RInv, CInv, AInv, IInv
<1>2. ChecksOK'
  BY <1>1, ChecksKept
<1>3. \A c \in Consumers : Busy(c) => Busy(c)'
  BY DEF Busy
<1> QED
  BY <1>1, <1>2, <1>3 DEF Steady

(* Such a step that sends nothing but what is harmless.                    *)
LEMMA HarmlessSteady ==
    ASSUME RInv, UNCHANGED <<row, wait, status, buyer, written>>,
           results' \subseteq results, \A q \in asked' : History(q) => q \in asked,
           \/ UNCHANGED <<turn, due>>
           \/ \E a \in Agents : Fires(a)
           \/ \E a \in Agents : \E type, r : Receives(a, type, r),
           Leads(inbox', due'),
           \A r \in Requests :
               /\ stage'[r] \in {"paid", "delivered"} =>
                      stage[r] \in {"paid", "delivered"} \/ IsOld("payment", r)
               /\ stage'[r] = "delivered" =>
                      stage[r] = "delivered" \/ IsOld("delivery_complete", r)
               /\ stage'[r] = "cancelled" => stage[r] = "cancelled"
               /\ eta'[r] # NoShipment => eta[r] # NoShipment \/ IsOld("ship_request", r)
    PROVE  Steady
<1>1. ASSUME NEW r \in Requests PROVE Paced(r)
  BY DEF Paced, Leads, Harmless
<1>2. ASSUME NEW r \in Requests, \A c \in Consumers : Busy(c) => Busy(c)' PROVE Once(r)'
  <2>1. DoubtsIn(inbox', r) \in Nat /\ DoubtsIn(inbox', r) <= DoubtsIn(inbox, r)
    BY DEF Leads
  <2>2. Once(r)
    BY DEF RInv
  <2> QED
    BY <1>2, <2>1, <2>2, OnceKept
<1> QED
  BY <1>1, <1>2, OthersSteady

(* What a seller does about its orders.                                    *)
LEMMA SellerSteady ==
    ASSUME RInv, IdsAreUsable, NEW s \in Sellers, SellerStep(s)
    PROVE  Steady
<1>1. /\ QueuesOK /\ Finite(inbox) /\ s \in Agents /\ stage \in [Requests -> Stages]
      /\ TypeOK
  BY TypeSplits DEF RInv, CInv, Counts, AInv, IInv, RestOK, Agents
<1>2. UNCHANGED <<status, buyer, written>>
  BY DEF SellerStep, OnInventoryCheckResult, OnPlaceOrder, OnPayment,
         OnDeliveryComplete, OnCancelRequest, OthersFire, consumerVars
<1>3. ASSUME NEW t, NEW o, Receives(s, t, o)
      PROVE  UNCHANGED <<row, wait, results>> /\ Leads(Popped(s), due') /\ IsOld(t, o)
  BY <1>1, <1>3, LeadsOn, ReadAges DEF Receives, IsOld
<1>4. ASSUME OnInventoryCheckResult(s) PROVE Steady
  <2>1. /\ UNCHANGED <<row, wait, turn, due, asked, eta>> /\ results' \subseteq results
        /\ \E o \in Requests :
             \/ UNCHANGED <<inbox, stage>>
             \/ /\ stage' = [stage EXCEPT ![o] = "accepted"]
                /\ inbox' = Post(inbox, buyer[o], Mail("order_accepted", s, o))
    BY <1>4 DEF OnInventoryCheckResult, Reads, sellerVars
  <2>2. Leads(inbox', due')
    BY <1>1, <2>1, LeadsOn, LeadsPost DEF Harmless
  <2>3. \A r \in Requests : stage'[r] = stage[r] \/ stage'[r] = "accepted"
    BY <1>1, <2>1
  <2> QED
    BY <1>2, <2>1, <2>2, <2>3, HarmlessSteady
<1>5. ASSUME OnPlaceOrder(s) PROVE Steady
  <2>1. PICK o \in Requests :
            /\ Receives(s, "place_order", o) /\ inbox' = Popped(s) /\ eta' = eta
            /\ stage' = [stage EXCEPT ![o] = "queued"]
            /\ asked' = asked \cup {Ask(s, "inventory_check", 0, {o})}
    BY <1>5 DEF OnPlaceOrder
  <2>2. \A q \in asked' : History(q) => q \in asked
    BY <2>1 DEF History, Ask
  <2>3. \A r \in Requests : stage'[r] = stage[r] \/ stage'[r] = "queued"
    BY <1>1, <2>1
  <2>4. UNCHANGED <<row, wait, results>> /\ Leads(inbox', due')
    BY <1>3, <2>1
  <2> QED
    BY <1>1, <1>2, <2>1, <2>2, <2>3, <2>4, HarmlessSteady
<1>6. ASSUME OnPayment(s) PROVE Steady
  <2>1. PICK o \in Requests :
            /\ Receives(s, "payment", o) /\ UNCHANGED <<asked, eta>>
            /\ \/ inbox' = Popped(s) /\ stage' = stage
               \/ /\ stage' = [stage EXCEPT ![o] = "paid"]
                  /\ inbox' = Post(Post(Popped(s), Transport, Mail("ship_request", s, o)),
                                   Government, Mail("order_report", s, o))
    BY <1>6 DEF OnPayment
  <2>2. UNCHANGED <<row, wait, results>> /\ Leads(Popped(s), due') /\ IsOld("payment", o)
    BY <1>3, <2>1
  <2>3. Leads(Post(Popped(s), Transport, Mail("ship_request", s, o)), due')
    BY <1>1, <2>2, LeadsPost DEF Harmless
  <2>4. Leads(inbox', due')
    BY <1>1, <2>1, <2>2, <2>3, LeadsPost DEF Harmless
  <2>5. \A r \in Requests : stage'[r] = stage[r] \/ (stage'[r] = "paid" /\ r = o)
    BY <1>1, <2>1
  <2> QED
    BY <1>1, <1>2, <2>1, <2>2, <2>4, <2>5, HarmlessSteady
<1>7. ASSUME OnDeliveryComplete(s) PROVE Steady
  <2>1. PICK o \in Requests :
            /\ Receives(s, "delivery_complete", o) /\ UNCHANGED <<asked, eta>>
            /\ \/ inbox' = Popped(s) /\ stage' = stage
               \/ \E i \in Matches(s, o) :
                    /\ stage' = [stage EXCEPT ![book[s][i]] = "delivered"]
                    /\ inbox' = Post(Popped(s), buyer[book[s][i]],
                                     Mail("shipment_notification", s, book[s][i]))
    BY <1>7 DEF OnDeliveryComplete
  <2>2. \/ inbox' = Popped(s) /\ stage' = stage
        \/ /\ stage' = [stage EXCEPT ![o] = "delivered"]
           /\ inbox' = Post(Popped(s), buyer[o], Mail("shipment_notification", s, o))
    BY <1>1, <2>1, OnlyMatch
  <2>3. UNCHANGED <<row, wait, results>> /\ Leads(Popped(s), due') /\ IsOld("delivery_complete", o)
    BY <1>3, <2>1
  <2>4. Leads(inbox', due')
    BY <1>1, <2>2, <2>3, LeadsPost DEF Harmless
  <2>5. \A r \in Requests : stage'[r] = stage[r] \/ (stage'[r] = "delivered" /\ r = o)
    BY <1>1, <2>2
  <2>6. stage'[o] = "delivered" /\ stage[o] # "delivered" => stage[o] \in {"paid", "delivered"}
    <3>1. Sound(o) /\ Holds(inbox, "delivery_complete", o)
      BY <1>1, <2>1, InHand DEF RInv, CInv, AInv, IInv
    <3> QED
      BY <3>1 DEF Sound
  <2> QED
    BY <1>1, <1>2, <2>1, <2>3, <2>4, <2>5, <2>6, HarmlessSteady
<1>8. ASSUME OnCancelRequest(s) PROVE Steady
  <2>1. PICK o \in Requests :
            /\ Receives(s, "cancel_request", o) /\ UNCHANGED <<asked, eta>>
            /\ \/ stage' = stage /\ inbox' = Popped(s)
               \/ stage' = stage /\ \E c : inbox' = Post(Popped(s), c, Mail("cancel_rejected", s, o))
               \/ /\ stage' = [stage EXCEPT ![o] = "cancelled"]
                  /\ \E c : inbox' = Post(Popped(s), c, Mail("cancel_confirmed", s, o))
    <3>1. PICK o \in Requests :
              LET answer == IF Cancellable(o) THEN "cancel_confirmed" ELSE "cancel_rejected"
              IN  /\ Receives(s, "cancel_request", o) /\ UNCHANGED <<asked, eta>>
                  /\ inbox' = IF Known(o) THEN Post(Popped(s), Head(inbox[s]).from, Mail(answer, s, o))
                                          ELSE Popped(s)
                  /\ IF Cancellable(o) THEN stage' = [stage EXCEPT ![o] = "cancelled"]
                                       ELSE stage' = stage
      BY <1>8 DEF OnCancelRequest
    <3>2. Cancellable(o) => Known(o)
      BY DEF Cancellable, Known
    <3> QED
      BY <3>1, <3>2
  <2>2. /\ UNCHANGED <<row, wait, results, turn>> /\ Leads(Popped(s), due')
        /\ IsOld("cancel_request", o)
    BY <1>3, <2>1 DEF Receives
  <2>3. CASE stage' = stage /\ inbox' = Popped(s)
    BY <1>1, <1>2, <2>1, <2>2, <2>3, HarmlessSteady
  <2>4. ASSUME NEW c, stage' = stage, inbox' = Post(Popped(s), c, Mail("cancel_rejected", s, o))
        PROVE  Steady
    <3> DEFINE m == Mail("cancel_rejected", s, o)
    <3>1. m.type = "cancel_rejected" /\ m.order = o
      BY DEF Mail
    <3> HIDE DEF m
    <3>2. /\ inbox' = Post(Popped(s), c, m) /\ Popped(s) \in Boxes /\ due' \in [Agents -> Nat]
          /\ \A a \in Agents : due'[a] <= Len(Popped(s)[a])
          /\ Finite(Popped(s))
      BY <2>2, <2>4 DEF m, Leads
    <3>3. /\ \A type, r : Old(inbox', due', type, r) => IsOld(type, r)
          /\ \A type, r : New(inbox', due', type, r) =>
                 IsNew(type, r) \/ (type = "cancel_rejected" /\ r = o)
                                \/ type \in Harmless
      <4>1. /\ \A type, r : Old(inbox', due', type, r) => Old(Popped(s), due', type, r)
            /\ \A type, r : New(inbox', due', type, r) =>
                   New(Popped(s), due', type, r) \/ (type = "cancel_rejected" /\ r = o)
        BY <3>1, <3>2, PostAges
      <4> QED
        BY <2>2, <4>1 DEF Leads
    <3>4. \A r : DoubtsIn(inbox', r) \in Nat /\ DoubtsIn(inbox', r) <= DoubtsIn(inbox, r)
      <4>1. \A r : /\ DoubtsIn(inbox', r) \in Nat
                   /\ DoubtsIn(inbox', r) <= DoubtsIn(Popped(s), r) + 1
                   /\ r # o => DoubtsIn(inbox', r) <= DoubtsIn(Popped(s), r)
        BY <3>1, <3>2, PostDoubts
      <4>2. \A r : /\ DoubtsIn(Popped(s), r) \in Nat /\ DoubtsIn(inbox, r) \in Nat
                   /\ DoubtsIn(Popped(s), r) <= DoubtsIn(inbox, r)
        BY <1>1, <2>2, DoubtsType DEF Leads
      <4>3. DoubtsIn(Popped(s), o) = DoubtsIn(inbox, o) - 1
        BY <1>1, <2>1, ReadDoubts DEF Doubtful
      <4> QED
        BY <4>1, <4>2, <4>3
    <3>5. ASSUME NEW r \in Requests PROVE Paced(r)
      BY <2>1, <2>2, <2>4, <1>2, <3>3 DEF Paced, Harmless
    <3>6. ASSUME NEW r \in Requests, \A d \in Consumers : Busy(d) => Busy(d)' PROVE Once(r)'
      <4>1. Once(r)
        BY DEF RInv
      <4> QED
        BY <1>2, <2>2, <2>4, <3>4, <3>6, <4>1, OnceKept
    <3> QED
      BY <1>1, <1>2, <2>1, <2>2, <3>5, <3>6, OthersSteady
  <2>5. ASSUME NEW c, stage' = [stage EXCEPT ![o] = "cancelled"],
               inbox' = Post(Popped(s), c, Mail("cancel_confirmed", s, o))
        PROVE  Steady
    <3>1. Leads(inbox', due')
      BY <1>1, <2>2, <2>5, LeadsPost DEF Harmless
    <3>2. \A r \in Requests : stage'[r] = IF r = o THEN "cancelled" ELSE stage[r]
      BY <1>1, <2>5
    <3>3. ASSUME NEW r \in Requests PROVE Paced(r)
      BY <1>2, <2>1, <3>1, <3>2 DEF Paced, Leads, Harmless
    <3>4. DoubtsIn(inbox, o) >= 1 /\ DoubtsIn(Popped(s), o) = DoubtsIn(inbox, o) - 1
      BY <1>1, <2>1, ReadDoubts DEF Doubtful
    <3>5. DoubtsIn(inbox', o) = 0
      <4>1. Mail("cancel_confirmed", s, o).type \notin Doubtful
        BY DEF Mail, Doubtful
      <4>2. Popped(s) \in Boxes /\ Finite(Popped(s))
        BY <2>2 DEF Leads
      <4>3. DoubtsIn(inbox', o) \in Nat /\ DoubtsIn(inbox', o) <= DoubtsIn(Popped(s), o)
        BY <2>5, <4>1, <4>2, PostCalm
      <4>4. DoubtsIn(inbox, o) \in 0..1
        BY DEF RInv, Once
      <4> QED
        BY <3>4, <4>3, <4>4
    <3>6. ASSUME NEW r \in Requests, \A d \in Consumers : Busy(d) => Busy(d)' PROVE Once(r)'
      <4>1. Once(r) /\ Once(o)
        BY DEF RInv
      <4>2. CASE r # o
        <5>1. DoubtsIn(inbox', r) \in Nat /\ DoubtsIn(inbox', r) <= DoubtsIn(inbox, r)
          BY <3>1 DEF Leads
        <5>2. stage'[r] = stage[r]
          BY <3>2, <4>2
        <5> QED
          BY <1>2, <2>2, <3>6, <4>1, <5>1, <5>2, OnceKept
      <4>3. CASE r = o
        <5>1. ~ Unasked(o) /\ ~ Answered(o) /\ status[o] \notin {"none", "requested"}
              /\ (row[o] = "requested" => \E d \in Consumers : buyer[o] = d /\ Busy(d))
          BY <3>4, <4>1 DEF Once, Unasked
        <5>2. ~ Answered(o)' /\ DoubtsIn(inbox, o)' = 0
          BY <2>2, <3>5, <5>1, DoubtsPrime DEF Answered
        <5>3. row'[o] = "requested" => \E d \in Consumers : buyer'[o] = d /\ Busy(d)'
          BY <1>2, <2>2, <3>6, <5>1
        <5>4. status'[o] \notin {"none", "requested"}
          BY <1>2, <5>1
        <5> QED
          BY <4>3, <5>2, <5>3, <5>4 DEF Once
      <4> QED
        BY <4>2, <4>3
    <3> QED
      BY <1>1, <1>2, <2>1, <2>2, <3>3, <3>6, OthersSteady
  <2> QED
    BY <2>1, <2>3, <2>4, <2>5
<1>9. ASSUME OthersFire(s) PROVE Steady
  <2>1. UNCHANGED <<row, wait, results, asked, due, inbox, stage, eta>> /\ Fires(s)
    BY <1>9 DEF OthersFire, Fires, sellerVars
  <2>2. Leads(inbox', due')
    BY <2>1, LeadsOn
  <2> QED
    BY <1>1, <1>2, <2>1, <2>2, HarmlessSteady
<1> QED
  BY <1>4, <1>5, <1>6, <1>7, <1>8, <1>9 DEF SellerStep

(* What transport and government do.                                       *)
LEMMA OtherSteady ==
    ASSUME RInv, OnShipRequest \/ UpdateTracking \/ OnOrderReport \/ OthersFire(Government)
    PROVE  Steady
<1>1. /\ QueuesOK /\ Finite(inbox) /\ Transport \in Agents /\ Government \in Agents
      /\ inbox \in Boxes /\ due \in [Agents -> Nat]
      /\ eta \in [Requests -> {NoShipment} \cup (0..(BaseTransit + Jitter))]
  BY TypeSplits DEF RInv, CInv, Counts, AInv, IInv, RestOK, QueuesOK, Agents
<1>2. UNCHANGED <<status, buyer, written, stage, asked>>
  BY DEF OnShipRequest, UpdateTracking, OnOrderReport, OthersFire, consumerVars, sellerVars
<1>3. ASSUME OnShipRequest PROVE Steady
  <2>1. PICK o \in Requests, ticks \in BaseTransit..(BaseTransit + Jitter) :
            /\ Receives(Transport, "ship_request", o) /\ inbox' = Popped(Transport)
            /\ eta' = [eta EXCEPT ![o] = ticks]
    BY <1>3 DEF OnShipRequest
  <2>2. /\ UNCHANGED <<row, wait, results>> /\ Leads(inbox', due') /\ IsOld("ship_request", o)
    BY <1>1, <2>1, LeadsOn, ReadAges DEF Receives, IsOld
  <2>3. \A r \in Requests : eta'[r] = eta[r] \/ r = o
    BY <1>1, <2>1
  <2> QED
    BY <1>1, <1>2, <2>1, <2>2, <2>3, HarmlessSteady
<1>4. ASSUME UpdateTracking PROVE Steady
  <2>1. /\ UNCHANGED <<row, wait, results, due>> /\ Fires(Transport)
        /\ inbox' = PostToVendors("delivery_complete", Transport, Arrived)
        /\ eta' = [r \in Requests |-> IF r \in Arrived THEN NoShipment ELSE eta[r]]
    BY <1>4 DEF UpdateTracking, Fires
  <2>2. Arrived \in SUBSET Requests /\ \A r \in Arrived : eta[r] # NoShipment
    BY DEF Arrived, NoShipment
  <2>3. /\ \A type, r : Old(inbox', due', type, r) => IsOld(type, r)
        /\ \A type, r : New(inbox', due', type, r) =>
               IsNew(type, r) \/ (type = "delivery_complete" /\ r \in Arrived)
    BY <1>1, <2>1, <2>2, VendorsAges DEF IsOld, IsNew, MessageTypes
  <2>4. \A r : DoubtsIn(inbox', r) \in Nat /\ DoubtsIn(inbox', r) <= DoubtsIn(inbox, r)
    BY <1>1, <2>1, <2>2, VendorsDoubts DEF MessageTypes
  <2>5. \A r \in Requests : eta'[r] # NoShipment => eta[r] # NoShipment
    BY <2>1
  <2>6. ASSUME NEW r \in Requests PROVE Paced(r)
    BY <1>2, <2>2, <2>3, <2>5 DEF Paced
  <2>7. ASSUME NEW r \in Requests, \A c \in Consumers : Busy(c) => Busy(c)' PROVE Once(r)'
    <3>1. Once(r)
      BY DEF RInv
    <3> QED
      BY <1>2, <2>1, <2>4, <2>7, <3>1, OnceKept
  <2> QED
    BY <1>1, <1>2, <2>1, <2>6, <2>7, OthersSteady
<1>5. ASSUME OnOrderReport PROVE Steady
  <2>1. PICK o \in Requests :
            /\ Receives(Government, "order_report", o) /\ inbox' = Popped(Government)
            /\ eta' = eta
    BY <1>5 DEF OnOrderReport
  <2>2. UNCHANGED <<row, wait, results>> /\ Leads(inbox', due')
    BY <1>1, <2>1, LeadsOn DEF Receives
  <2> QED
    BY <1>1, <1>2, <2>1, <2>2, HarmlessSteady
<1>6. ASSUME OthersFire(Government) PROVE Steady
  <2>1. UNCHANGED <<row, wait, results, due, inbox, eta>> /\ Fires(Government)
    BY <1>6 DEF OthersFire, Fires
  <2>2. Leads(inbox', due')
    BY <2>1, LeadsOn
  <2> QED
    BY <1>1, <1>2, <2>1, <2>2, HarmlessSteady
<1> QED
  BY <1>3, <1>4, <1>5, <1>6
-----------------------------------------------------------------------------
(* The invariant and the theorems.                                         *)

(* The end of a tick brings the rows up to the consumers' records.         *)
LEMMA TickRows ==
    ASSUME RInv, CInv', ChecksAreApart, EndTick
    PROVE  RInv' /\ \A r \in Requests : row[r] \in Settled => row'[r] = row[r]
<1>1. /\ TypeOK /\ IInv /\ ChecksOK /\ written = status
      /\ \A r \in Requests : Timed(r) /\ Once(r) /\ RowOK(r)
  BY DEF RInv, CInv, AInv, IInv
<1>2. UNCHANGED <<status, written>> /\ row' = written
  BY DEF EndTick, consumerVars
<1>3. ChecksOK' /\ \A r \in Requests : Timed(r)' /\ Once(r)'
  BY <1>1, TickChecks, TimedTick, OnceTick
<1>4. \A r \in Requests : RowOK(r)' /\ (row[r] \in Settled => row'[r] = row[r])
  BY <1>1, <1>2 DEF RowOK
<1> QED
  BY <1>1, <1>2, <1>3, <1>4 DEF RInv

(* Nothing has been sent, asked or written in the beginning.               *)
LEMMA RowInit ==
    ASSUME Init, CInv
    PROVE  RInv
<1>1. /\ \A a \in Agents : Len(inbox[a]) = 0 /\ due[a] = 0
      /\ asked = {} /\ results = {} /\ turn = 1
      /\ \A r \in Requests : /\ status[r] = "none" /\ row[r] = "none" /\ stage[r] = "none"
                             /\ eta[r] = NoShipment
      /\ written = status /\ Finite(inbox)
  BY EmptySeq DEF Init, CInv, Counts
<1>2. \A type, r : ~ IsOld(type, r) /\ ~ IsNew(type, r) /\ ~ Holds(inbox, type, r)
  BY <1>1 DEF IsOld, IsNew, Old, New, Holds
<1>3. \A r : ~ Answered(r)
  BY <1>1 DEF Answered
<1>4. ASSUME NEW type, NEW r PROVE Count(inbox, type, r) = 0
  <2>1. Slots(inbox, type, r) = {}
    BY <1>1 DEF Slots, IsAt
  <2> QED
    BY <2>1, FS_EmptySet DEF Count
<1>5. ChecksOK
  BY <1>1, RosterFacts DEF ChecksOK, AskedOK, AnsweredOK, DoneOK, RowsOK
<1>6. ASSUME NEW r \in Requests PROVE Timed(r) /\ Once(r) /\ RowOK(r)
  <2>1. Timed(r)
    BY <1>1, <1>2, <1>3 DEF Timed
  <2>2. DoubtsIn(inbox, r) = 0
    BY <1>4 DEF DoubtsIn
  <2>3. Once(r)
    BY <1>1, <1>3, <2>2 DEF Once, Unasked
  <2> QED
    BY <1>1, <2>1, <2>3 DEF RowOK, Settled
<1> QED
  BY <1>1, <1>5, <1>6 DEF RInv

(* Every step keeps the invariant, and a settled row.                      *)
LEMMA RowStep ==
    ASSUME IdsAreUsable, ChecksAreApart, RInv, CInv', [Next]_vars
    PROVE  RInv' /\ \A r \in Requests : row[r] \in Settled => row'[r] = row[r]
<1>1. ASSUME Steady PROVE RInv' /\ \A r \in Requests : row[r] \in Settled => row'[r] = row[r]
  BY <1>1, SteadyKeeps DEF Steady
<1>2. ASSUME NEW c \in Consumers, ConsumerStep(c) PROVE Steady
  BY <1>2, ConsumerBuys, ConsumerGivesUp, ConsumerMessages, ConsumerEnds DEF ConsumerStep
<1>3. ASSUME NEW s \in Sellers, SellerStep(s) PROVE Steady
  BY <1>3, SellerSteady
<1>4. ASSUME OnShipRequest \/ UpdateTracking \/ OnOrderReport \/ OthersFire(Government)
      PROVE  Steady
  BY <1>4, OtherSteady
<1>5. CASE EndTick
  BY <1>5, TickRows
<1>6. CASE UNCHANGED vars
  <2>1. /\ \A type, r : (IsOld(type, r)' <=> IsOld(type, r)) /\ (IsNew(type, r)' <=> IsNew(type, r))
        /\ \A type, r : Holds(inbox, type, r)' <=> Holds(inbox, type, r)
        /\ \A r : DoubtsIn(inbox, r)' = DoubtsIn(inbox, r)
        /\ \A r : Answered(r)' <=> Answered(r)
        /\ \A c \in Consumers : Busy(c)' <=> Busy(c)
    BY <1>6, DoubtsPrime, HoldsPrime, AgesPrime DEF vars, IsOld, IsNew, Answered, Busy
  <2>2. ChecksOK'
    BY <1>6 DEF vars, RInv, ChecksOK, AskedOK, AnsweredOK, DoneOK, RowsOK
  <2>3. ASSUME NEW r \in Requests PROVE Timed(r)' /\ Once(r)' /\ RowOK(r)'
    BY <1>6, <2>1 DEF vars, RInv, Timed, Early, Midway, Late, Once, Unasked, RowOK
  <2> QED
    BY <1>6, <2>2, <2>3 DEF vars, RInv
<1> QED
  BY <1>1, <1>2, <1>3, <1>4, <1>5, <1>6 DEF Next

(* The invariant holds.                                                    *)
LEMMA RowsHold ==
    ASSUME IdsAreUsable, ChecksAreApart
    PROVE  Spec => []RInv
<1>1. Spec => []CInv
  BY CountsHold
<1>2. Init /\ CInv => RInv
  BY RowInit
<1>3. RInv /\ CInv' /\ [Next]_vars => RInv'
  BY RowStep
<1> QED
  BY <1>1, <1>2, <1>3, PTL DEF Spec

(* Checks of the history two ticks apart or more: the last write about an  *)
(* order is the consumer's own view of it, whatever the order in which     *)
(* acceptances, notifications and late answers to cancellations come       *)
(* (on_cancel_confirmed and on_cancel_rejected write unconditionally).     *)
THEOREM RowsFollow ==
    ASSUME IdsAreUsable, ChecksAreApart
    PROVE  Spec => []RowFollowsStatus
<1>1. RInv => RowFollowsStatus
  BY DEF RInv, RowFollowsStatus
<1> QED
  BY <1>1, RowsHold, PTL

(* Under the same assumption no write reopens a row that says "delivered"  *)
(* or "cancelled".                                                         *)
THEOREM SettledRowsStay ==
    ASSUME IdsAreUsable, ChecksAreApart
    PROVE  Spec => SettledRowIsFinal
<1>1. Spec => []CInv /\ []RInv
  BY CountsHold, RowsHold, PTL
<1>2. RInv /\ CInv' /\ [Next]_vars =>
          [\A r \in Requests : row[r] \in Settled => row'[r] = row[r]]_row
  BY RowStep
<1> QED
  BY <1>1, <1>2, PTL DEF Spec, SettledRowIsFinal
-----------------------------------------------------------------------------
(***************************************************************************)
(* The queues: the pipeline uses them as the engine lets it.               *)
(***************************************************************************)

(* A queue that keeps what it had, place by place, has it as a prefix.     *)
LEMMA PrefixByPlaces ==
    ASSUME NEW M, NEW s \in Seq(M), NEW t \in Seq(M), Len(s) <= Len(t),
           \A i \in 1..Len(s) : t[i] = s[i]
    PROVE  IsPrefix(s, t)
<1>1. Len(s) \in Nat /\ Len(t) \in Nat
    BY LenProperties
<1>2. /\ \A i \in 1..Len(s) : s[i] \in M
      /\ \A i \in 1..Len(t) : t[i] \in M
    BY ElementOfSeq
<1> DEFINE n == Len(s)
           u == SubSeq(s, 1, n)
           v == SubSeq(t, 1, n)
<1>3. u \in Seq(M) /\ Len(u) = n /\ \A i \in 1..n : u[i] = s[i]
  <2>1. /\ u \in Seq(M) /\ Len(u) = IF 1 <= n THEN n - 1 + 1 ELSE 0
        /\ \A i \in 1..(n - 1 + 1) : u[i] = s[1 + i - 1]
    BY <1>1, <1>2, SubSeqProperties
  <2>2. (IF 1 <= n THEN n - 1 + 1 ELSE 0) = n /\ n - 1 + 1 = n
    BY <1>1
  <2>3. \A i \in 1..n : 1 + i - 1 = i
    BY <1>1
  <2> HIDE DEF n, u
  <2> QED BY <2>1, <2>2, <2>3
<1>4. v \in Seq(M) /\ Len(v) = n /\ \A i \in 1..n : v[i] = t[i]
  <2>1. \A i \in 1..n : t[i] \in M
    BY <1>1, <1>2
  <2>2. /\ v \in Seq(M) /\ Len(v) = IF 1 <= n THEN n - 1 + 1 ELSE 0
        /\ \A i \in 1..(n - 1 + 1) : v[i] = t[1 + i - 1]
    BY <1>1, <2>1, SubSeqProperties
  <2>3. (IF 1 <= n THEN n - 1 + 1 ELSE 0) = n /\ n - 1 + 1 = n
    BY <1>1
  <2>4. \A i \in 1..n : 1 + i - 1 = i
    BY <1>1
  <2> HIDE DEF n, v
  <2> QED BY <2>2, <2>3, <2>4
<1>5. u = v
  <2>1. \A i \in 1..n : u[i] = v[i]
    BY <1>3, <1>4
  <2> HIDE DEF n, u, v
  <2> QED BY <1>3, <1>4, <2>1, SeqEqual
<1> QED BY <1>5 DEF IsPrefix

(* What a queue holds after a step: what it held, then what agent a sent.  *)
Grown(old, new, a) ==
    /\ new \in Boxes
    /\ \A b \in Agents :
        /\ Len(old[b]) <= Len(new[b])
        /\ \A i \in 1..Len(old[b]) : new[b][i] = old[b][i]
        /\ \A i \in (Len(old[b]) + 1)..Len(new[b]) : new[b][i].from = a

LEMMA QueueTypes ==
    ASSUME NEW boxes \in Boxes, NEW a \in Agents
    PROVE  boxes[a] \in Seq(Message) /\ Len(boxes[a]) \in Nat
BY LenProperties DEF Boxes

LEMMA ReadsAndSends ==
    ASSUME inbox \in Boxes, due \in [Agents -> Nat], NEW a \in Agents, Len(inbox[a]) > 0,
           due[a] > 0, due' = [due EXCEPT ![a] = @ - 1], Grown(Popped(a), inbox', a)
    PROVE  Bus!Works(a)
<1> DEFINE left == [inbox EXCEPT ![a] = SubSeq(@, 1 + 1, Len(@))]
<1>1. left = Popped(a)
  <2>1. inbox[a] \in Seq(Message) /\ inbox[a] # <<>>
    BY QueueTypes, EmptySeq
  <2>2. Tail(inbox[a]) = SubSeq(inbox[a], 2, Len(inbox[a])) /\ 1 + 1 = 2
    BY <2>1, TailIsSubSeq
  <2> QED BY <2>2 DEF Popped
<1>2. \A b \in Agents : IsPrefix(left[b], inbox'[b])
  <2>1. \A b \in Agents : left[b] \in Seq(Message) /\ inbox'[b] \in Seq(Message)
    BY <1>1, PopShifts DEF Boxes, Grown
  <2> HIDE DEF left
  <2> QED BY <1>1, <2>1, PrefixByPlaces DEF Grown
<1>3. 1 \in {0, 1} /\ 1 <= due[a]
    OBVIOUS
<1>4. \A b \in Agents : \A i \in (Len(left[b]) + 1)..Len(inbox'[b]) : inbox'[b][i].from = a
  <2> HIDE DEF left
  <2> QED BY <1>1 DEF Grown
<1>5. \A b \in Agents :
        /\ IsPrefix(left[b], inbox'[b])
        /\ \A i \in (Len(left[b]) + 1)..Len(inbox'[b]) : inbox'[b][i].from = a
  <2> HIDE DEF left
  <2> QED BY <1>2, <1>4
<1>6. \E n \in {0, 1} :
        LET rest == [inbox EXCEPT ![a] = SubSeq(@, n + 1, Len(@))]
        IN  /\ n <= due[a]
            /\ due' = [due EXCEPT ![a] = @ - n]
            /\ \A b \in Agents :
                /\ IsPrefix(rest[b], inbox'[b])
                /\ \A i \in (Len(rest[b]) + 1)..Len(inbox'[b]) : inbox'[b][i].from = a
  <2> WITNESS 1 \in {0, 1}
  <2> QED BY <1>3, <1>5
<1> QED BY <1>6 DEF Bus!Works, Bus!IsPrefix, IsPrefix

LEMMA OnlySends ==
    ASSUME inbox \in Boxes, due \in [Agents -> Nat], NEW a \in Agents, due' = due,
           Grown(inbox, inbox', a)
    PROVE  Bus!Works(a)
<1> DEFINE left == [inbox EXCEPT ![a] = SubSeq(@, 0 + 1, Len(@))]
<1>1. left = inbox
  <2>1. inbox[a] \in Seq(Message)
    BY DEF Boxes
  <2>2. SubSeq(inbox[a], 1, Len(inbox[a])) = inbox[a]
    BY <2>1, SubSeqFull
  <2>3. 0 + 1 = 1
    OBVIOUS
  <2> QED BY <2>2, <2>3 DEF Boxes
<1>2. \A b \in Agents : IsPrefix(left[b], inbox'[b])
  <2>1. \A b \in Agents : left[b] \in Seq(Message) /\ inbox'[b] \in Seq(Message)
    BY <1>1 DEF Boxes, Grown
  <2> HIDE DEF left
  <2> QED BY <1>1, <2>1, PrefixByPlaces DEF Grown
<1>3. \A b \in Agents :
        /\ IsPrefix(left[b], inbox'[b])
        /\ \A i \in (Len(left[b]) + 1)..Len(inbox'[b]) : inbox'[b][i].from = a
  <2> HIDE DEF left
  <2> QED BY <1>1, <1>2 DEF Grown
<1>4. due[a] \in Nat /\ [due EXCEPT ![a] = @ - 0] = due
    OBVIOUS
<1>5. 0 <= due[a] /\ due' = [due EXCEPT ![a] = @ - 0]
    BY <1>4
<1>6. \E n \in {0, 1} :
        LET rest == [inbox EXCEPT ![a] = SubSeq(@, n + 1, Len(@))]
        IN  /\ n <= due[a]
            /\ due' = [due EXCEPT ![a] = @ - n]
            /\ \A b \in Agents :
                /\ IsPrefix(rest[b], inbox'[b])
                /\ \A i \in (Len(rest[b]) + 1)..Len(inbox'[b]) : inbox'[b][i].from = a
  <2>1. 0 \in {0, 1}
    OBVIOUS
  <2> WITNESS 0 \in {0, 1}
  <2> QED BY ONLY <1>3, <1>5
<1> QED BY ONLY <1>6 DEF Bus!Works, Bus!IsPrefix, IsPrefix

LEMMA NothingGrows ==
    ASSUME NEW boxes \in Boxes, NEW a PROVE Grown(boxes, boxes, a)
<1>1. \A b \in Agents : Len(boxes[b]) \in Nat
    BY QueueTypes
<1> QED BY <1>1 DEF Grown

LEMMA PostGrows ==
    ASSUME NEW boxes \in Boxes, NEW a, NEW to, NEW m \in Message, m.from = a
    PROVE  Grown(boxes, Post(boxes, to, m), a)
<1>1. \A b \in Agents : boxes[b] \in Seq(Message) /\ Len(boxes[b]) \in Nat
    BY QueueTypes
<1>2. CASE to \in Agents
  <2> DEFINE new == Post(boxes, to, m)
  <2>1. /\ new[to] \in Seq(Message) /\ Len(new[to]) = Len(boxes[to]) + 1
        /\ \A i \in 1..Len(boxes[to]) : new[to][i] = boxes[to][i]
        /\ new[to][Len(boxes[to]) + 1] = m
    <3>1. new[to] = Append(boxes[to], m)
      BY <1>2 DEF Post, Boxes
    <3> HIDE DEF new
    <3> QED BY <1>1, <1>2, <3>1, AppendProperties
  <2>2. new \in Boxes /\ \A b \in Agents : b # to => new[b] = boxes[b]
    <3>1. new = [boxes EXCEPT ![to] = Append(@, m)]
      BY <1>2 DEF Post
    <3>2. Append(boxes[to], m) \in Seq(Message)
      BY <1>1, <1>2, AppendProperties
    <3> HIDE DEF new
    <3> QED BY <1>2, <3>1, <3>2 DEF Boxes
  <2> HIDE DEF new
  <2>3. ASSUME NEW b \in Agents
        PROVE  /\ Len(boxes[b]) <= Len(new[b])
               /\ \A i \in 1..Len(boxes[b]) : new[b][i] = boxes[b][i]
               /\ \A i \in (Len(boxes[b]) + 1)..Len(new[b]) : new[b][i].from = a
    <3>1. CASE b = to
      <4>1. \A i \in (Len(boxes[b]) + 1)..Len(new[b]) : i = Len(boxes[b]) + 1
        BY <1>1, <2>1, <3>1
      <4> QED BY <1>1, <2>1, <3>1, <4>1
    <3>2. CASE b # to
      BY <1>1, <2>2, <3>2
    <3> QED BY <3>1, <3>2
  <2>4. Grown(boxes, new, a)
    BY <2>2, <2>3 DEF Grown
  <2> QED BY <2>4 DEF new
<1>3. CASE to \notin Agents
    BY <1>3, NothingGrows DEF Post
<1> QED BY <1>2, <1>3

LEMMA GrowsOn ==
    ASSUME NEW old \in Boxes, NEW mid, NEW new, NEW a, Grown(old, mid, a), Grown(mid, new, a)
    PROVE  Grown(old, new, a)
<1>1. mid \in Boxes /\ new \in Boxes
    BY DEF Grown
<1>2. ASSUME NEW b \in Agents
      PROVE  /\ Len(old[b]) <= Len(new[b])
             /\ \A i \in 1..Len(old[b]) : new[b][i] = old[b][i]
             /\ \A i \in (Len(old[b]) + 1)..Len(new[b]) : new[b][i].from = a
  <2>1. Len(old[b]) \in Nat /\ Len(mid[b]) \in Nat /\ Len(new[b]) \in Nat
    BY <1>1, QueueTypes
  <2>2. /\ Len(old[b]) <= Len(mid[b]) /\ Len(mid[b]) <= Len(new[b])
        /\ \A i \in 1..Len(old[b]) : mid[b][i] = old[b][i]
        /\ \A i \in (Len(old[b]) + 1)..Len(mid[b]) : mid[b][i].from = a
        /\ \A i \in 1..Len(mid[b]) : new[b][i] = mid[b][i]
        /\ \A i \in (Len(mid[b]) + 1)..Len(new[b]) : new[b][i].from = a
    BY DEF Grown
  <2>3. \A i \in (Len(old[b]) + 1)..Len(new[b]) :
            \/ i \in (Len(old[b]) + 1)..Len(mid[b]) /\ i \in 1..Len(mid[b])
            \/ i \in (Len(mid[b]) + 1)..Len(new[b])
    BY <2>1, <2>2
  <2>4. \A i \in 1..Len(old[b]) : i \in 1..Len(mid[b])
    BY <2>1, <2>2
  <2> QED BY <2>1, <2>2, <2>3, <2>4
<1> QED BY <1>1, <1>2 DEF Grown

LEMMA VendorsGrow ==
    ASSUME inbox \in Boxes, NEW type \in MessageTypes, NEW f \in Agents,
           NEW orders \in SUBSET Requests
    PROVE  Grown(inbox, PostToVendors(type, f, orders), f)
<1> DEFINE new == PostToVendors(type, f, orders)
<1>1. new \in Boxes
    BY VendorsType
<1>2. ASSUME NEW b \in Agents
      PROVE  /\ Len(inbox[b]) <= Len(new[b])
             /\ \A i \in 1..Len(inbox[b]) : new[b][i] = inbox[b][i]
             /\ \A i \in (Len(inbox[b]) + 1)..Len(new[b]) : new[b][i].from = f
  <2> DEFINE told == ToTell(orders, b)
  <2>1. /\ Len(inbox[b]) \in Nat /\ Len(told) \in Nat
        /\ Len(new[b]) = Len(inbox[b]) + Len(told)
        /\ \A i \in 1..Len(inbox[b]) : new[b][i] = inbox[b][i]
        /\ \A i \in 1..Len(told) : new[b][Len(inbox[b]) + i] = Mail(type, f, told[i])
    BY VendorsShape
  <2>2. \A r : Mail(type, f, r).from = f
    BY DEF Mail
  <2> HIDE DEF new, told
  <2>3. \A i \in (Len(inbox[b]) + 1)..Len(new[b]) :
            i - Len(inbox[b]) \in 1..Len(told) /\ Len(inbox[b]) + (i - Len(inbox[b])) = i
    BY <2>1
  <2>4. ASSUME NEW i \in (Len(inbox[b]) + 1)..Len(new[b]) PROVE new[b][i].from = f
    <3>1. new[b][i] = Mail(type, f, told[i - Len(inbox[b])])
      BY <2>1, <2>3
    <3> QED BY <2>2, <3>1
  <2>5. Len(inbox[b]) <= Len(new[b])
    BY <2>1
  <2> QED BY <2>1, <2>4, <2>5
<1> HIDE DEF new
<1>3. Grown(inbox, new, f)
    BY <1>1, <1>2 DEF Grown
<1> QED BY <1>3 DEF new

(* A message is read and what it makes its reader send is posted.          *)
LEMMA HandlerWorks ==
    ASSUME QueuesOK, NEW a \in Agents, NEW type, NEW r, Receives(a, type, r),
           Grown(Popped(a), inbox', a)
    PROVE  Bus!Works(a)
<1>1. inbox \in Boxes /\ Len(inbox[a]) > 0 /\ due \in [Agents -> Nat]
    BY InHand DEF QueuesOK
<1>2. due[a] > 0 /\ due' = [due EXCEPT ![a] = @ - 1]
    BY DEF Receives
<1> QED BY <1>1, <1>2, ReadsAndSends

BusStep == Bus!NewTick \/ \E a \in Agents : Bus!Works(a)

(* A message is read and one is posted, or none.                           *)
LEMMA AnswerWorks ==
    ASSUME QueuesOK, NEW a \in Agents, NEW type, NEW r, Receives(a, type, r),
           \/ inbox' = Popped(a)
           \/ \E t \in MessageTypes, o \in Requests : \E to :
                inbox' = Post(Popped(a), to, Mail(t, a, o))
    PROVE  Bus!Works(a)
<1>1. Popped(a) \in Boxes
    BY InHand
<1>2. CASE inbox' = Popped(a)
    BY <1>1, <1>2, NothingGrows, HandlerWorks
<1>3. ASSUME NEW t \in MessageTypes, NEW o \in Requests, NEW to,
             inbox' = Post(Popped(a), to, Mail(t, a, o))
      PROVE  Bus!Works(a)
  <2>1. Mail(t, a, o) \in Message /\ Mail(t, a, o).from = a
    BY MailType DEF Mail
  <2>2. Grown(Popped(a), inbox', a)
    BY <1>1, <1>3, <2>1, PostGrows
  <2> QED BY <2>2, HandlerWorks
<1> QED BY <1>2, <1>3

LEMMA ConsumerUsesBus ==
    ASSUME TypeOK, NEW c \in Consumers, ConsumerStep(c)
    PROVE  Bus!Works(c) \/ UNCHANGED <<inbox, due>>
<1>1. QueuesOK /\ inbox \in Boxes /\ due \in [Agents -> Nat] /\ c \in Agents
    BY TypeSplits DEF QueuesOK, Agents
<1>2. CASE OnProductDetailsResult(c)
  <2>1. due' = due
    BY <1>2 DEF OnProductDetailsResult, Reads
  <2>2. CASE inbox' = inbox
    BY <2>1, <2>2
  <2>3. ASSUME NEW r \in Requests, NEW s, inbox' = Post(inbox, s, Mail("place_order", c, r))
        PROVE  Bus!Works(c)
    <3>1. Mail("place_order", c, r) \in Message /\ Mail("place_order", c, r).from = c
      BY <1>1, MailType DEF Mail, MessageTypes
    <3>2. Grown(inbox, inbox', c)
      BY <1>1, <2>3, <3>1, PostGrows
    <3> QED BY <1>1, <2>1, <3>2, OnlySends
  <2> QED BY <1>2, <2>2, <2>3 DEF OnProductDetailsResult
<1>3. CASE OnOrderHistoryResult(c)
  <2>1. PICK orders \in SUBSET Requests : inbox' = PostToVendors("cancel_request", c, orders)
    <3>1. PICK q \in results : \E late \in SUBSET q.orders :
            inbox' = PostToVendors("cancel_request", c, {r \in late : status[r] \in Pending})
      BY <1>3 DEF OnOrderHistoryResult
    <3>2. PICK late \in SUBSET q.orders :
            inbox' = PostToVendors("cancel_request", c, {r \in late : status[r] \in Pending})
      BY <3>1
    <3>3. q.orders \subseteq Requests
      BY DEF TypeOK, Query
    <3>4. {r \in late : status[r] \in Pending} \in SUBSET Requests
      BY <3>3
    <3> QED BY <3>2, <3>4
  <2>2. Grown(inbox, inbox', c)
    BY <1>1, <2>1, VendorsGrow DEF MessageTypes
  <2>3. due' = due
    BY <1>3 DEF OnOrderHistoryResult, Reads
  <2> QED BY <1>1, <2>2, <2>3, OnlySends
<1>4. CASE OnOrderAccepted(c)
  <2>1. PICK r \in Requests :
          /\ Receives(c, "order_accepted", r)
          /\ \/ inbox' = Popped(c)
             \/ inbox' = Post(Popped(c), Head(inbox[c]).from, Mail("payment", c, r))
    BY <1>4 DEF OnOrderAccepted
  <2>2. "payment" \in MessageTypes
    BY DEF MessageTypes
  <2> QED BY <1>1, <2>1, <2>2, AnswerWorks
<1>5. CASE OnShipmentNotification(c) \/ OnCancelConfirmed(c) \/ OnCancelRejected(c)
  <2>1. \E type, r : Receives(c, type, r) /\ inbox' = Popped(c)
    BY <1>5 DEF OnShipmentNotification, OnCancelConfirmed, OnCancelRejected
  <2> QED BY <1>1, <2>1, AnswerWorks
<1>6. CASE ConsumerFires(c)
    BY <1>6 DEF ConsumerFires, Fires
<1> QED BY <1>2, <1>3, <1>4, <1>5, <1>6 DEF ConsumerStep

LEMMA SellerUsesBus ==
    ASSUME TypeOK, NEW s \in Sellers, SellerStep(s)
    PROVE  Bus!Works(s) \/ UNCHANGED <<inbox, due>>
<1>1. QueuesOK /\ inbox \in Boxes /\ due \in [Agents -> Nat] /\ s \in Agents
    BY TypeSplits DEF QueuesOK, Agents
<1>2. CASE OnInventoryCheckResult(s)
  <2>1. due' = due
    BY <1>2 DEF OnInventoryCheckResult, Reads
  <2>2. CASE inbox' = inbox
    BY <2>1, <2>2
  <2>3. ASSUME NEW r \in Requests, inbox' = Post(inbox, buyer[r], Mail("order_accepted", s, r))
        PROVE  Bus!Works(s)
    <3>1. Mail("order_accepted", s, r) \in Message /\ Mail("order_accepted", s, r).from = s
      BY <1>1, MailType DEF Mail, MessageTypes
    <3>2. Grown(inbox, inbox', s)
      BY <1>1, <2>3, <3>1, PostGrows
    <3> QED BY <1>1, <2>1, <3>2, OnlySends
  <2> QED BY <1>2, <2>2, <2>3 DEF OnInventoryCheckResult
<1>3. CASE OnPlaceOrder(s)
    BY <1>1, <1>3, AnswerWorks DEF OnPlaceOrder
<1>4. CASE OnPayment(s)
  <2>1. PICK r \in Requests :
          /\ Receives(s, "payment", r)
          /\ \/ inbox' = Popped(s)
             \/ inbox' = Post(Post(Popped(s), Transport, Mail("ship_request", s, r)),
                              Government, Mail("order_report", s, r))
    BY <1>4 DEF OnPayment
  <2>2. CASE inbox' = Popped(s)
    BY <1>1, <2>1, <2>2, AnswerWorks
  <2>3. CASE inbox' = Post(Post(Popped(s), Transport, Mail("ship_request", s, r)),
                           Government, Mail("order_report", s, r))
    <3> DEFINE ship == Mail("ship_request", s, r)
               report == Mail("order_report", s, r)
               mid == Post(Popped(s), Transport, ship)
    <3>1. ship \in Message /\ ship.from = s /\ report \in Message /\ report.from = s
      BY <1>1, MailType DEF Mail, MessageTypes
    <3>2. Popped(s) \in Boxes
      BY <1>1, <2>1, InHand
    <3> HIDE DEF ship, report
    <3>3. mid \in Boxes /\ Grown(Popped(s), mid, s)
      BY <3>1, <3>2, PostType, PostGrows
    <3>4. inbox' = Post(mid, Government, report)
      BY <2>3 DEF ship, report
    <3> HIDE DEF mid
    <3>5. Grown(mid, inbox', s)
      BY <3>1, <3>3, <3>4, PostGrows
    <3>6. Grown(Popped(s), inbox', s)
      BY <3>2, <3>3, <3>5, GrowsOn
    <3> QED BY <1>1, <2>1, <3>6, HandlerWorks
  <2> QED BY <2>1, <2>2, <2>3
<1>5. CASE OnDeliveryComplete(s)
  <2>1. PICK r \in Requests :
          /\ Receives(s, "delivery_complete", r)
          /\ \/ inbox' = Popped(s)
             \/ \E i \in Matches(s, r) :
                    inbox' = Post(Popped(s), buyer[book[s][i]],
                                  Mail("shipment_notification", s, book[s][i]))
    BY <1>5 DEF OnDeliveryComplete
  <2>2. \A i \in Matches(s, r) : book[s][i] \in Requests
    BY <1>1, ElementOfSeq DEF Matches, TypeOK
  <2>3. "shipment_notification" \in MessageTypes
    BY DEF MessageTypes
  <2> QED BY <1>1, <2>1, <2>2, <2>3, AnswerWorks
<1>6. CASE OnCancelRequest(s)
  <2>1. PICK r \in Requests :
          /\ Receives(s, "cancel_request", r)
          /\ \/ inbox' = Popped(s)
             \/ \E t \in {"cancel_confirmed", "cancel_rejected"} :
                    inbox' = Post(Popped(s), Head(inbox[s]).from, Mail(t, s, r))
    BY <1>6 DEF OnCancelRequest
  <2>2. {"cancel_confirmed", "cancel_rejected"} \subseteq MessageTypes
    BY DEF MessageTypes
  <2> QED BY <1>1, <2>1, <2>2, AnswerWorks
<1>7. CASE OthersFire(s)
    BY <1>7 DEF OthersFire, Fires
<1> QED BY <1>2, <1>3, <1>4, <1>5, <1>6, <1>7 DEF SellerStep

LEMMA RosterIsAll == \A a \in Agents : \E i \in 1..Len(Roster) : Roster[i] = a
<1>1. Roster \in Seq(Agents) /\ Range(Roster) = Agents
    BY AgentsAssumption
<1>2. DOMAIN Roster = 1..Len(Roster)
    BY <1>1, LenProperties
<1> QED BY <1>1, <1>2 DEF Range

(* The agents whose turn is over have read all that was due to them.       *)
LEMMA DoneStep ==
    ASSUME TypeOK, DoneOK, [Next]_vars PROVE DoneOK'
<1>0. /\ Len(Roster) \in Nat /\ \A i \in 1..Len(Roster) : Roster[i] \in Agents
      /\ turn \in Nat /\ due \in [Agents -> Nat]
    BY RosterFacts DEF TypeOK
<1>1. CASE UNCHANGED <<turn, due>>
    BY <1>1 DEF DoneOK
<1>2. ASSUME NEW a, Fires(a) PROVE DoneOK'
  <2>1. turn' = turn + 1 /\ due' = due /\ Roster[turn] = a /\ due[a] = 0
    BY <1>2 DEF Fires, Now
  <2>2. \A i \in 1..Len(Roster) : i < turn + 1 => i < turn \/ i = turn
    BY <1>0
  <2> QED BY <2>1, <2>2 DEF DoneOK
<1>3. ASSUME NEW a, NEW type, NEW r, Receives(a, type, r) PROVE DoneOK'
  <2>1. turn' = turn /\ due' = [due EXCEPT ![a] = @ - 1] /\ due[a] > 0
    BY <1>3 DEF Receives
  <2> QED BY <1>0, <2>1 DEF DoneOK
<1>4. CASE EndTick
    BY <1>0, <1>4 DEF EndTick, DoneOK
<1>5. ASSUME NEW c \in Consumers, ConsumerStep(c) PROVE DoneOK'
  <2>1. CASE OnProductDetailsResult(c) \/ OnOrderHistoryResult(c)
    BY <1>1, <2>1 DEF OnProductDetailsResult, OnOrderHistoryResult, Reads
  <2>2. CASE OnOrderAccepted(c) \/ OnShipmentNotification(c)
    BY <1>3, <2>2 DEF OnOrderAccepted, OnShipmentNotification
  <2>3. CASE OnCancelConfirmed(c) \/ OnCancelRejected(c)
    BY <1>3, <2>3 DEF OnCancelConfirmed, OnCancelRejected
  <2>4. CASE ConsumerFires(c)
    BY <1>2, <2>4 DEF ConsumerFires
  <2> QED BY <1>5, <2>1, <2>2, <2>3, <2>4 DEF ConsumerStep
<1>6. ASSUME NEW s \in Sellers, SellerStep(s) PROVE DoneOK'
  <2>1. CASE OnInventoryCheckResult(s)
    BY <1>1, <2>1 DEF OnInventoryCheckResult, Reads
  <2>2. CASE OnPlaceOrder(s) \/ OnPayment(s)
    BY <1>3, <2>2 DEF OnPlaceOrder, OnPayment
  <2>3. CASE OnDeliveryComplete(s) \/ OnCancelRequest(s)
    BY <1>3, <2>3 DEF OnDeliveryComplete, OnCancelRequest
  <2>4. CASE OthersFire(s)
    BY <1>2, <2>4 DEF OthersFire
  <2> QED BY <1>6, <2>1, <2>2, <2>3, <2>4 DEF SellerStep
<1>7. CASE OnShipRequest \/ OnOrderReport
    BY <1>3, <1>7 DEF OnShipRequest, OnOrderReport
<1>8. CASE UpdateTracking \/ OthersFire(Government)
    BY <1>2, <1>8 DEF UpdateTracking, OthersFire
<1>9. CASE UNCHANGED vars
    BY <1>1, <1>9 DEF vars
<1> QED BY <1>4, <1>5, <1>6, <1>7, <1>8, <1>9 DEF Next

LEMMA OrderStepUsesBus ==
    ASSUME TypeOK, DoneOK, [Next]_vars PROVE [BusStep]_(Bus!busVars)
<1>1. QueuesOK /\ inbox \in Boxes /\ due \in [Agents -> Nat]
      /\ Transport \in Agents /\ Government \in Agents
    BY TypeSplits DEF QueuesOK, Agents
<1>2. ASSUME UNCHANGED <<inbox, due>> PROVE UNCHANGED Bus!busVars
    BY <1>2 DEF Bus!busVars
<1>3. ASSUME NEW c \in Consumers, ConsumerStep(c) PROVE [BusStep]_(Bus!busVars)
  <2>1. c \in Agents
    BY DEF Agents
  <2> QED BY <1>2, <1>3, <2>1, ConsumerUsesBus DEF BusStep
<1>4. ASSUME NEW s \in Sellers, SellerStep(s) PROVE [BusStep]_(Bus!busVars)
  <2>1. s \in Agents
    BY DEF Agents
  <2> QED BY <1>2, <1>4, <2>1, SellerUsesBus DEF BusStep
<1>5. CASE OnShipRequest
  <2>1. Bus!Works(Transport)
    BY <1>1, <1>5, AnswerWorks DEF OnShipRequest
  <2> QED BY <1>1, <2>1 DEF BusStep
<1>6. CASE OnOrderReport
  <2>1. Bus!Works(Government)
    BY <1>1, <1>6, AnswerWorks DEF OnOrderReport
  <2> QED BY <1>1, <2>1 DEF BusStep
<1>7. CASE UpdateTracking
  <2>1. inbox' = PostToVendors("delivery_complete", Transport, Arrived) /\ due' = due
    BY <1>7 DEF UpdateTracking, Fires
  <2>2. Grown(inbox, inbox', Transport)
    BY <1>1, <2>1, VendorsGrow DEF Arrived, MessageTypes
  <2>3. Bus!Works(Transport)
    BY <1>1, <2>1, <2>2, OnlySends
  <2> QED BY <1>1, <2>3 DEF BusStep
<1>8. CASE EndTick
  <2>1. \A a \in Agents : due[a] = 0
    <3>1. \A i \in 1..Len(Roster) : due[Roster[i]] = 0
      BY <1>8, RosterFacts DEF EndTick, DoneOK, TypeOK
    <3>2. \A a \in Agents : \E i \in 1..Len(Roster) : Roster[i] = a
      BY RosterIsAll
    <3> QED BY <3>1, <3>2
  <2> QED BY <1>8, <2>1 DEF EndTick, BusStep, Bus!NewTick
<1>9. CASE OthersFire(Government) \/ UNCHANGED vars
    BY <1>2, <1>9 DEF OthersFire, Fires, vars
<1> QED BY <1>3, <1>4, <1>5, <1>6, <1>7, <1>8, <1>9 DEF Next

(* The agents use their queues as MessageBus lets them: every handler      *)
(* reads at most the oldest due message of its agent and appends what it   *)
(* sends, and the next tick begins when all that was due has been read     *)
(* (_drain_inbox and _emit_and_route).                                     *)
THEOREM OrdersUseBus == Spec => UsesBus
<1>1. Init => Bus!BusInit /\ DoneOK
    BY DEF Init, Bus!BusInit, DoneOK
<1>2. TypeOK /\ DoneOK /\ [Next]_vars => DoneOK'
    BY DoneStep
<1>3. TypeOK /\ DoneOK /\ [Next]_vars =>
            [Bus!NewTick \/ \E a \in Agents : Bus!Works(a)]_(Bus!busVars)
    BY OrderStepUsesBus DEF BusStep
<1> QED BY <1>1, <1>2, <1>3, TypeCorrect, PTL DEF Spec, UsesBus, Bus!BusSpec
=============================================================================
