------------------------------ MODULE Tracking ------------------------------
(***************************************************************************)
(* What the transport agent reports of its shipments, tick by tick: picked *)
(* up, a quarter, half and three quarters of the way, delivered.  It takes *)
(* shipments on while it drains its inbox and reports in its recurring     *)
(* action update_tracking; Schedule says when that runs.  What it has      *)
(* returned in a tick is routed only when the agents after it have stepped *)
(* without an exception.                                                   *)
(***************************************************************************)
EXTENDS Schedule, Functions

CONSTANTS
    Transport,
    Shipments,     \* the shipment_ids it will draw
    BaseTransit,   \* base_transit_ticks
    TransitJitter  \* largest value of hash(shipment_id) % 3

ASSUME TrackingAssumption ==
    /\ Transport \in Agents /\ ActionsOf(Transport) = {"update_tracking"}
    /\ BaseTransit \in Nat /\ TransitJitter \in Nat

VARIABLES
    status,   \* status of a shipment
    start,    \* start_tick
    eta,      \* eta_tick
    reached,  \* milestones_reached
    held,     \* shipments whose pick-up is in _pending_events
    out,      \* what this tick's actions report of a shipment, in order
    log,      \* what action_log reports of it
    doneAt    \* the tick of its delivery

trackingVars == <<status, start, eta, reached, held, out, log, doneAt>>
vars == <<scheduleVars, trackingVars>>
-----------------------------------------------------------------------------
Never == 0

(* A report is the share of the way it claims, in percent.                 *)
PickedUp == 0
Milestones == {25, 50, 75}
Delivered == 100
Reports == {PickedUp, Delivered} \cup Milestones

(* on_ship_request: the event is held back until the next tracking update. *)
OnShipRequest(s) ==
    /\ Drains(Transport) /\ status[s] = "none"
    /\ status' = [status EXCEPT ![s] = "in_transit"]
    /\ start' = [start EXCEPT ![s] = tick]
    /\ \E ticks \in BaseTransit..(BaseTransit + TransitJitter) :
        eta' = [eta EXCEPT ![s] = tick + ticks]
    /\ held' = held \cup {s}
    /\ UNCHANGED <<reached, out, log, doneAt>>

Arrives(s) == status[s] = "in_transit" /\ tick >= eta[s]

(* Variant of Passed: more than the mark, not at least.                    *)
PassedBeyond(s) ==
    {m \in Milestones : 100 * (tick - start[s]) > m * (eta[s] - start[s])}
Passed(s) ==
    {m \in Milestones : 100 * (tick - start[s]) >= m * (eta[s] - start[s])}

Unreported(s) ==
    IF status[s] = "in_transit" /\ ~Arrives(s) THEN Passed(s) \ reached[s] ELSE {}

(* The marks are tested from the highest down and only one is reported.    *)
NewMilestone(s) == {m \in Unreported(s) : \A n \in Unreported(s) : n <= m}

(* Variant of Remembered: a milestone that was reported is not kept.       *)
RememberedBefore(s) == reached[s]
Remembered(s) == reached[s] \cup NewMilestone(s)

PickUpReport(s) == IF s \in held THEN <<PickedUp>> ELSE <<>>
WayReport(s) ==
    IF Arrives(s) THEN <<Delivered>>
    ELSE IF NewMilestone(s) = {} THEN <<>>
    ELSE <<CHOOSE m \in NewMilestone(s) : TRUE>>

(* Variant of ReportOf: the delivery before the pick-up.                   *)
ReportDeliveryFirst(s) == WayReport(s) \o PickUpReport(s)
ReportOf(s) == PickUpReport(s) \o WayReport(s)

(* handle_update_tracking and _complete_delivery                           *)
UpdateTracking ==
    /\ Runs(Transport, "update_tracking")
    /\ held' = {}
    /\ out' = [s \in Shipments |-> out[s] \o ReportOf(s)]
    /\ reached' = [s \in Shipments |-> Remembered(s)]
    /\ status' = [s \in Shipments |-> IF Arrives(s) THEN "delivered" ELSE status[s]]
    /\ doneAt' = [s \in Shipments |-> IF Arrives(s) THEN tick ELSE doneAt[s]]
    /\ UNCHANGED <<start, eta, log>>

OthersRun(a) ==
    /\ a # Transport
    /\ \E x \in ActionsOf(a) : Runs(a, x)
    /\ UNCHANGED trackingVars

TurnGoesOn(a) == (MarkDue(a) \/ EndTurn(a)) /\ UNCHANGED trackingVars

(* _emit_and_route: the log takes what the agents returned.                *)
Route ==
    /\ EndTick
    /\ log' = [s \in Shipments |-> log[s] \o out[s]]
    /\ out' = [s \in Shipments |-> <<>>]
    /\ UNCHANGED <<status, start, eta, reached, held, doneAt>>

(* Variant of LostReports: the events survive until the next tick.         *)
KeptReports == out
LostReports == [s \in Shipments |-> <<>>]

(* What the agents returned is lost; what transport knows of its shipments *)
(* is not put back.                                                        *)
CutShort ==
    /\ Abort
    /\ out' = LostReports
    /\ UNCHANGED <<status, start, eta, reached, held, log, doneAt>>

Init ==
    /\ ScheduleInit
    /\ status = [s \in Shipments |-> "none"]
    /\ start = [s \in Shipments |-> Never] /\ eta = start /\ doneAt = start
    /\ reached = [s \in Shipments |-> {}] /\ held = {}
    /\ out = [s \in Shipments |-> <<>>] /\ log = out

Next ==
    \/ \E s \in Shipments : OnShipRequest(s)
    \/ UpdateTracking
    \/ \E a \in Agents : OthersRun(a) \/ TurnGoesOn(a)
    \/ Route \/ CutShort

Spec == Init /\ [][Next]_vars
-----------------------------------------------------------------------------
(* Every variable has its type.                                            *)
TypeOK ==
    /\ ScheduleTypeOK
    /\ status \in [Shipments -> {"none", "in_transit", "delivered"}]
    /\ start \in [Shipments -> 0..tick] /\ eta \in [Shipments -> Nat]
    /\ reached \in [Shipments -> SUBSET Milestones] /\ held \subseteq Shipments
    /\ out \in [Shipments -> Seq(Reports)] /\ log \in [Shipments -> Seq(Reports)]
    /\ doneAt \in [Shipments -> 0..tick]

Story(s) == log[s] \o out[s]

(* Whatever is lost, nothing is reported twice of a shipment, nothing      *)
(* before its pick-up and nothing after its delivery.                      *)
StoryIsSound ==
    \A s \in Shipments : \A i, j \in DOMAIN Story(s) : i < j =>
        /\ Story(s)[i] # Story(s)[j]
        /\ Story(s)[j] # PickedUp /\ Story(s)[i] # Delivered

EveryTick == CycleTicks["update_tracking"] + offset[<<Transport, "update_tracking">>] <= 1

(* With an update in every tick and no exception the milestones come in    *)
(* the order of the way, although each update tests from the highest down  *)
(* and reports only one (transport.py:100); and four ticks of way are      *)
(* enough for all of them.                                                 *)
StoryInOrder ==
    cut = {} /\ EveryTick =>
        \A s \in Shipments :
            /\ \A i, j \in DOMAIN Story(s) : i < j => Story(s)[i] < Story(s)[j]
            /\ status[s] = "delivered" /\ eta[s] - start[s] >= 4 =>
                {Story(s)[i] : i \in DOMAIN Story(s)} = Reports

(* A pick-up that is not held back any more has been told, unless a tick   *)
(* since then was cut short: the event is forgotten when it is returned,   *)
(* and what follows is reported all the same (transport.py:82).            *)
PickUpIsTold(s) ==
    status[s] # "none" /\ s \notin held =>
        PickedUp \in Range(Story(s)) \/ \E t \in start[s]..(tick - 1) : t \in cut

(* A shipment is delivered at its eta, or in the first tick after it that  *)
(* no exception cut short before transport's turn; and its recipient is    *)
(* told, unless an agent after transport raised one in that tick: then the *)
(* shipment is gone and nobody will be told (transport.py:127).  Nor is    *)
(* its pick-up lost but by an exception.                                   *)
DeliveryIsTold ==
    \A s \in Shipments :
        LET told == {i \in DOMAIN log[s] : log[s][i] = Delivered}
            late == IF status[s] = "delivered" THEN doneAt[s] ELSE tick
        IN  /\ PickUpIsTold(s)
            /\ EveryTick /\ status[s] # "none" =>
                \A t \in eta[s]..(late - 1) : t \in cut
            /\ status[s] = "delivered" =>
                CASE doneAt[s] \in cut -> told = {}
                  [] doneAt[s] = tick  -> Delivered \in Range(out[s])
                  [] OTHER             -> told # {}
=============================================================================
