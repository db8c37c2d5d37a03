--------------------------- MODULE OrderContract ---------------------------
(***************************************************************************)
(* What a purchase promises, without agents, messages or ticks: a request  *)
(* is reserved once from stock, then paid for or given back, a paid one is *)
(* delivered, and the consumer's outcome is settled once and only as the   *)
(* seller's was.                                                           *)
(***************************************************************************)
CONSTANT Requests

VARIABLES
    deal,     \* the seller's commitment on a request
    outcome   \* what the consumer was told in the end

contractVars == <<deal, outcome>>

Open == "open"
Deals == {"idle", "placed", "reserved", "paid", "delivered", "withdrawn"}
Outcomes == {Open, "delivered", "cancelled"}

ContractInit ==
    /\ deal = [r \in Requests |-> "idle"]
    /\ outcome = [r \in Requests |-> Open]

Moves(r, from, to) ==
    /\ deal[r] = from
    /\ deal' = [deal EXCEPT ![r] = to]
    /\ UNCHANGED outcome

Place(r) == Moves(r, "idle", "placed")
Reserve(r) == Moves(r, "placed", "reserved")
Pay(r) == Moves(r, "reserved", "paid")
Withdraw(r) == Moves(r, "reserved", "withdrawn")
Deliver(r) == Moves(r, "paid", "delivered")

(* The consumer learns the outcome, which is final on both sides.          *)
Settle(r) ==
    /\ outcome[r] = Open
    /\ \/ deal[r] = "delivered" /\ outcome' = [outcome EXCEPT ![r] = "delivered"]
       \/ deal[r] = "withdrawn" /\ outcome' = [outcome EXCEPT ![r] = "cancelled"]
    /\ UNCHANGED deal

ContractNext ==
    \E r \in Requests : \/ Place(r) \/ Reserve(r) \/ Pay(r)
                        \/ Withdraw(r) \/ Deliver(r) \/ Settle(r)

(* A reserved request does not stay so, a paid one is delivered, and the   *)
(* consumer is told.                                                       *)
ContractSpec ==
    /\ ContractInit /\ [][ContractNext]_contractVars
    /\ \A r \in Requests :
        /\ WF_contractVars(Pay(r) \/ Withdraw(r))
        /\ WF_contractVars(Deliver(r))
        /\ WF_contractVars(Settle(r))
=============================================================================
