------------------------------ MODULE Countdown ------------------------------
(***************************************************************************)
(* What the cadence of a recurring action promises: it fires when its      *)
(* count has come to zero, then waits a gap that never changes, and no     *)
(* tick ends before what is due has fired.  The order and restock models   *)
(* count the ticks to their next review like this.                         *)
(***************************************************************************)
EXTENDS Naturals

CONSTANT Recurring   \* the actions that recur

VARIABLES
    wait,  \* ticks until an action's next firing
    gap    \* ticks from one firing of an action to its next

countdownVars == <<wait, gap>>

StartsCounting == wait \in [Recurring -> Nat] /\ gap \in [Recurring -> Nat]

(* Some actions fire in one step: those an agent finds due.                *)
Fire ==
    \E due \in SUBSET Recurring :
        /\ \A k \in due : wait[k] = 0
        /\ wait' = [k \in Recurring |-> IF k \in due THEN gap[k] ELSE wait[k]]
        /\ UNCHANGED gap

(* An action without a gap is due again in every tick.                     *)
TickPasses ==
    /\ \A k \in Recurring : wait[k] = 0 => gap[k] = 0
    /\ wait' = [k \in Recurring |-> IF wait[k] > 0 THEN wait[k] - 1 ELSE 0]
    /\ UNCHANGED gap

CountdownSpec == StartsCounting /\ [][Fire \/ TickPasses]_countdownVars
=============================================================================
