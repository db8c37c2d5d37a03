----------------------------- MODULE MessageBus -----------------------------
(***************************************************************************)
(* What the tick engine promises about inter-agent messages: each agent    *)
(* has a queue, reads from its front only what was there when the tick     *)
(* began, and the next tick begins when all of that is read.  So a message *)
(* is read in the tick after it was sent, once, in order, and none is      *)
(* lost.                                                                   *)
(***************************************************************************)
EXTENDS Naturals, Sequences, SequencesExt

CONSTANT Agents

VARIABLES
    box,   \* each agent's queue; a message has a field `from`
    due    \* how many of its messages were there when the tick began

busVars == <<box, due>>

BusInit == box = [a \in Agents |-> <<>>] /\ due = [a \in Agents |-> 0]

(* An agent reads at most one message and sends any number.                *)
Works(a) ==
    \E n \in {0, 1} :
        LET left == [box EXCEPT ![a] = SubSeq(@, n + 1, Len(@))]
        IN  /\ n <= due[a]
            /\ due' = [due EXCEPT ![a] = @ - n]
            /\ \A b \in Agents :
                /\ IsPrefix(left[b], box'[b])
                /\ \A i \in (Len(left[b]) + 1)..Len(box'[b]) : box'[b][i].from = a

NewTick ==
    /\ \A a \in Agents : due[a] = 0
    /\ due' = [a \in Agents |-> Len(box[a])]
    /\ UNCHANGED box

BusSpec == BusInit /\ [][NewTick \/ \E a \in Agents : Works(a)]_busVars
=============================================================================
