------------------------------ MODULE Schedule ------------------------------
(***************************************************************************)
(* When the recurring actions of agents run (BaseAgent.step): every action *)
(* has a cycle and an offset drawn once, is marked as fired when it is     *)
(* due, and only then are the handlers of the marked actions called, one   *)
(* after the other.  An exception in any handler leaves TickEngine.step:   *)
(* the handlers still to run, and the agents still to step, are skipped.   *)
(*                                                                         *)
(* What handlers do is left to the modules that extend this one: they join *)
(* their own state changes to Drains, Runs, EndTick and Abort.             *)
(***************************************************************************)
EXTENDS Integers, Sequences, FiniteSets

CONSTANTS
    Roster,      \* the agents, in the order of their ids
    Plan,        \* the actions of each agent, as scheduling.yaml lists them
    CycleTicks,  \* cycle_ticks of an action
    Jitter,      \* jitter of an action
    MaxTick,     \* bound: ticks
    MaxAborts    \* bound: ticks cut short by an exception

Agents == {Roster[i] : i \in DOMAIN Roster}
ActionsOf(a) == {Plan[a][i] : i \in DOMAIN Plan[a]}
Actions == UNION {ActionsOf(a) : a \in Agents}
Recurring == UNION {{a} \X ActionsOf(a) : a \in Agents}

ASSUME ScheduleAssumption ==
    /\ Roster \in Seq(Agents)
    /\ \A i, j \in DOMAIN Roster : Roster[i] = Roster[j] => i = j
    /\ \A a \in Agents : Plan[a] \in Seq(ActionsOf(a))
    /\ CycleTicks \in [Actions -> Nat] /\ Jitter \in [Actions -> Nat]
    /\ MaxTick \in Nat \ {0} /\ MaxAborts \in Nat

VARIABLES
    tick,       \* current_tick
    turn,       \* position of the agent that steps, past the end in routing
    firing,     \* the agent has marked what is due and runs the handlers
    todo,       \* marked actions whose handlers have still to run
    lastFired,  \* _last_fired
    offset,     \* _jitter_offsets
    ran,        \* the tick in which the handler of an action last ran
    cut         \* the ticks an exception has cut short

scheduleVars == <<tick, turn, firing, todo, lastFired, offset, ran, cut>>
-----------------------------------------------------------------------------
Now(a) == turn \in DOMAIN Roster /\ Roster[turn] = a

DueTick(k) == lastFired[k] + CycleTicks[k[2]] + offset[k]

(* Variant of Due: once more than a cycle has passed.                      *)
DueTooLate(k) == DueTick(k) < tick
Due(k) == DueTick(k) <= tick

(* A query result or a message is handled.                                 *)
Drains(a) == Now(a) /\ ~firing /\ UNCHANGED scheduleVars

(* Variant of FiredNow: an action is marked, but not when.                 *)
FiredOnSchedule(k) == DueTick(k)
FiredNow(k) == tick

(* The inbox is empty: everything that is due is marked before the first   *)
(* handler is called.                                                      *)
MarkDue(a) ==
    /\ Now(a) /\ ~firing
    /\ firing' = TRUE
    /\ todo' = {x \in ActionsOf(a) : Due(<<a, x>>)}
    /\ lastFired' = [k \in Recurring |->
            IF k[1] = a /\ Due(k) THEN FiredNow(k) ELSE lastFired[k]]
    /\ UNCHANGED <<tick, turn, offset, ran, cut>>

ListedBefore(a, x, y) ==
    \E i, j \in DOMAIN Plan[a] : i < j /\ Plan[a][i] = x /\ Plan[a][j] = y

(* The handler of x, if the agent has one, in the order of the list.       *)
Runs(a, x) ==
    /\ Now(a) /\ firing /\ x \in todo
    /\ \A y \in todo : ~ListedBefore(a, y, x)
    /\ todo' = todo \ {x}
    /\ ran' = [ran EXCEPT ![<<a, x>>] = tick]
    /\ UNCHANGED <<tick, turn, firing, lastFired, offset, cut>>

EndTurn(a) ==
    /\ Now(a) /\ firing /\ todo = {}
    /\ turn' = turn + 1 /\ firing' = FALSE
    /\ UNCHANGED <<tick, todo, lastFired, offset, ran, cut>>

(* Variant of NextTick: marks that were not run are kept.                  *)
NextTickWithMarks == tick' = tick + 1 /\ turn' = 1 /\ firing' = FALSE /\ UNCHANGED todo
NextTick == tick' = tick + 1 /\ turn' = 1 /\ firing' = FALSE /\ todo' = {}

(* What the agents returned is routed and the next tick begins.            *)
EndTick ==
    /\ turn = Len(Roster) + 1 /\ tick < MaxTick
    /\ NextTick
    /\ UNCHANGED <<lastFired, offset, ran, cut>>

(* An exception in an agent's step, or in the community hook after the     *)
(* last: nothing of this tick is routed.  The engine is stepped again.     *)
Abort ==
    /\ tick < MaxTick /\ Cardinality(cut) < MaxAborts
    /\ NextTick
    /\ cut' = cut \cup {tick}
    /\ UNCHANGED <<lastFired, offset, ran>>

(* rng.randint(-jitter, jitter), and _last_fired one cycle before tick 0.  *)
ScheduleInit ==
    /\ tick = 1 /\ turn = 1 /\ firing = FALSE /\ todo = {}
    /\ lastFired = [k \in Recurring |-> -CycleTicks[k[2]]]
    /\ offset \in [Recurring -> UNION {(-Jitter[x])..Jitter[x] : x \in Actions}]
    /\ \A k \in Recurring : offset[k] \in (-Jitter[k[2]])..Jitter[k[2]]
    /\ ran = lastFired /\ cut = {}

ScheduleNext ==
    \/ \E a \in Agents :
        MarkDue(a) \/ EndTurn(a) \/ \E x \in ActionsOf(a) : Runs(a, x)
    \/ EndTick \/ Abort
ScheduleSpec == ScheduleInit /\ [][ScheduleNext]_scheduleVars
-----------------------------------------------------------------------------
(* Every variable has its type, and only the agent that runs its handlers  *)
(* has any to run.                                                         *)
ScheduleTypeOK ==
    /\ tick \in 1..MaxTick /\ turn \in 1..(Len(Roster) + 1)
    /\ firing \in BOOLEAN /\ (firing => turn \in DOMAIN Roster)
    /\ todo \subseteq (IF firing THEN ActionsOf(Roster[turn]) ELSE {})
    /\ lastFired \in [Recurring -> Int] /\ offset \in [Recurring -> Int]
    /\ ran \in [Recurring -> Int]
    /\ cut \subseteq 1..(tick - 1)

(* An action that is overdue has been so only in ticks that an exception   *)
(* cut short: none is skipped, whatever offset was drawn for it (the test  *)
(* in step, base.py:72).                                                   *)
OverdueOnlyByFaults ==
    \A k \in Recurring : \A t \in 1..(tick - 1) :
        DueTick(k) <= t /\ lastFired[k] < t => t \in cut

(* A marked action whose handler did not run has it still to come in this  *)
(* tick, or lost it to an exception: the mark is set before the handlers   *)
(* are called, and the action then waits a whole cycle (base.py:74).       *)
DroppedOnlyByFaults ==
    \A k \in Recurring : ran[k] # lastFired[k] =>
        \/ lastFired[k] \in cut
        \/ lastFired[k] = tick /\ firing /\ k[1] = Roster[turn] /\ k[2] \in todo

(* Recurring actions neither skip a turn nor lose their work, except in    *)
(* ticks that an exception has cut short.                                  *)
OnSchedule == OverdueOnlyByFaults /\ DroppedOnlyByFaults

(* Until an exception every action is the countdown the order and restock  *)
(* models use, with a gap of its own that never changes; an offset below   *)
(* minus the cycle makes it due in every tick.                             *)
NotNegative(n) == IF n > 0 THEN n ELSE 0
Beats == INSTANCE Countdown WITH
    wait <- [k \in Recurring |-> NotNegative(DueTick(k) - tick)],
    gap <- [k \in Recurring |-> NotNegative(CycleTicks[k[2]] + offset[k])]
IsCountdown ==
    /\ Beats!StartsCounting
    /\ [][cut' = {} => Beats!Fire \/ Beats!TickPasses]_(Beats!countdownVars)
=============================================================================
