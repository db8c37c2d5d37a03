--------------------------- MODULE TrackingProofs ---------------------------
(***************************************************************************)
(* Proofs about Tracking, for any number of agents and shipments, any      *)
(* cycles and jitters and any transit times.                               *)
(*                                                                         *)
(* What Schedule promises holds because every step of Tracking is one of   *)
(* Schedule or leaves its variables alone.                                 *)
(***************************************************************************)
EXTENDS Tracking, ScheduleProofs, SequenceTheorems

Key == <<Transport, "update_tracking">>

LEMMA KeyFacts ==
    /\ Transport \in Agents /\ "update_tracking" \in ActionsOf(Transport)
    /\ Key \in Recurring /\ Key[1] = Transport /\ Key[2] = "update_tracking"
BY TrackingAssumption, KeyIsRecurring DEF TrackingAssumption, Key

LEMMA StepsSchedule == [Next]_vars => [ScheduleNext]_scheduleVars
<1> SUFFICES ASSUME [Next]_vars PROVE [ScheduleNext]_scheduleVars
    OBVIOUS
<1>1. ASSUME NEW s \in Shipments, OnShipRequest(s) PROVE UNCHANGED scheduleVars
    BY <1>1 DEF OnShipRequest, Drains
<1>2. CASE UpdateTracking
    BY <1>2, KeyFacts DEF UpdateTracking, ScheduleNext
<1>3. ASSUME NEW a \in Agents, OthersRun(a) PROVE ScheduleNext
    BY <1>3 DEF OthersRun, ScheduleNext
<1>4. ASSUME NEW a \in Agents, TurnGoesOn(a) PROVE ScheduleNext
    BY <1>4 DEF TurnGoesOn, ScheduleNext
<1>5. CASE Route \/ CutShort
    BY <1>5 DEF Route, CutShort, ScheduleNext
<1>6. CASE UNCHANGED vars
    BY <1>6 DEF vars
<1> QED BY <1>1, <1>2, <1>3, <1>4, <1>5, <1>6 DEF Next

LEMMA FollowsSchedule == Spec => ScheduleSpec
<1>1. Init => ScheduleInit
    BY DEF Init
<1> QED BY <1>1, StepsSchedule, PTL DEF Spec, ScheduleSpec

(* Transport, and the agents around it, neither skip a turn nor lose work  *)
(* except in ticks that an exception cut short.                            *)
THEOREM TracksOnSchedule == Spec => []OnSchedule
BY FollowsSchedule, RunsOnSchedule, PTL

(* Until an exception every recurring action is a countdown.               *)
THEOREM TrackingCountsDown == Spec => IsCountdown
BY FollowsSchedule, ScheduleCountsDown, PTL

LEMMA ScheduleHolds == Spec => []ScheduleInv
BY FollowsSchedule, ScheduleInductive, PTL
-----------------------------------------------------------------------------
(* Sequences of reports.                                                   *)
SoundStory(S) ==
    \A i, j \in DOMAIN S : i < j => S[i] # S[j] /\ S[j] # PickedUp /\ S[i] # Delivered

(* One report more keeps a story sound when it is new, not a pick-up and   *)
(* not after a delivery.                                                   *)
LEMMA SoundWithOneMore ==
    ASSUME NEW S \in Seq(Reports), NEW m \in Reports, SoundStory(S),
           m \notin Range(S), m # PickedUp, Delivered \notin Range(S)
    PROVE  SoundStory(S \o <<m>>)
<1> DEFINE T == S \o <<m>>
<1>1. /\ <<m>> \in Seq(Reports) /\ Len(<<m>>) = 1
      /\ DOMAIN T = 1..(Len(S) + 1) /\ Len(S) \in Nat /\ DOMAIN S = 1..Len(S)
      /\ \A i \in 1..Len(S) : T[i] = S[i]
      /\ T[Len(S) + 1] = m
    OBVIOUS
<1>2. \A i \in 1..Len(S) : S[i] # m /\ S[i] # Delivered
    BY <1>1 DEF Range
<1> HIDE DEF T
<1>3. ASSUME NEW i \in DOMAIN T, NEW j \in DOMAIN T, i < j
      PROVE  T[i] # T[j] /\ T[j] # PickedUp /\ T[i] # Delivered
  <2>1. i \in 1..Len(S) /\ T[i] = S[i]
    BY <1>1, <1>3
  <2>2. CASE j \in 1..Len(S)
    BY <1>1, <1>3, <2>1, <2>2 DEF SoundStory
  <2>3. CASE j = Len(S) + 1
    BY <1>1, <1>2, <2>1, <2>3
  <2> QED BY <1>1, <2>2, <2>3
<1> QED BY <1>3 DEF SoundStory, T
-----------------------------------------------------------------------------
ReportTypes ==
    /\ status \in [Shipments -> {"none", "in_transit", "delivered"}]
    /\ start \in [Shipments -> Nat] /\ eta \in [Shipments -> Nat]
    /\ reached \in [Shipments -> SUBSET Milestones] /\ held \subseteq Shipments
    /\ out \in [Shipments -> Seq(Reports)] /\ log \in [Shipments -> Seq(Reports)]
    /\ doneAt \in [Shipments -> Nat]
    /\ \A s \in Shipments : start[s] <= tick /\ doneAt[s] <= tick

(* What is remembered of a shipment covers what has been told of it.       *)
ToldIsRemembered(s) ==
    /\ status[s] = "none" => Story(s) = <<>> /\ reached[s] = {} /\ s \notin held
    /\ s \in held =>
        status[s] = "in_transit" /\ Story(s) = <<>> /\ reached[s] = {}
    /\ status[s] = "in_transit" => Range(Story(s)) \subseteq {PickedUp} \cup reached[s]

StoryInv ==
    /\ ReportTypes
    /\ \A s \in Shipments : ToldIsRemembered(s) /\ SoundStory(Story(s))

LEMMA ReportValues ==
    /\ PickedUp \in Reports /\ Delivered \in Reports /\ Milestones \subseteq Reports
    /\ PickedUp \notin Milestones /\ Delivered \notin Milestones
    /\ PickedUp # Delivered /\ Milestones \subseteq Nat
BY DEF PickedUp, Delivered, Milestones, Reports

LEMMA ReportSequences ==
    /\ <<>> \in Seq(Reports) /\ \A m \in Reports : <<m>> \in Seq(Reports)
    /\ \A S, T \in Seq(Reports) : S \o T \in Seq(Reports)
    /\ \A S \in Seq(Reports) : S \o <<>> = S /\ <<>> \o S = S
BY ConcatEmptySeq, ConcatProperties

LEMMA Associates ==
    ASSUME NEW S \in Seq(Reports), NEW T \in Seq(Reports), NEW U \in Seq(Reports)
    PROVE  (S \o T) \o U = S \o (T \o U)
BY ConcatAssociative

LEMMA WayReportCases ==
    ASSUME NEW s \in Shipments
    PROVE  \/ Arrives(s) /\ WayReport(s) = <<Delivered>> /\ NewMilestone(s) = {}
           \/ ~Arrives(s) /\ WayReport(s) = <<>> /\ NewMilestone(s) = {}
           \/ \E m \in Milestones :
                /\ ~Arrives(s) /\ WayReport(s) = <<m>> /\ NewMilestone(s) = {m}
                /\ m \in Passed(s) \ reached[s] /\ status[s] = "in_transit"
                /\ \A n \in Passed(s) \ reached[s] : n <= m
<1>1. Unreported(s) \subseteq Milestones
    BY DEF Unreported, Passed
<1>2. \A m, n \in NewMilestone(s) : m = n
  <2>1. \A m, n \in Milestones : m <= n /\ n <= m => m = n
    BY ReportValues
  <2> QED BY <1>1, <2>1 DEF NewMilestone
<1>3. CASE Arrives(s)
    BY <1>3 DEF WayReport, NewMilestone, Unreported
<1>4. CASE ~Arrives(s) /\ NewMilestone(s) = {}
    BY <1>4 DEF WayReport
<1>5. CASE ~Arrives(s) /\ NewMilestone(s) # {}
  <2>1. PICK m \in NewMilestone(s) : TRUE
    BY <1>5
  <2>2. NewMilestone(s) = {m} /\ m \in Unreported(s) /\ \A n \in Unreported(s) : n <= m
    BY <1>2, <2>1 DEF NewMilestone
  <2>3. Unreported(s) = Passed(s) \ reached[s] /\ status[s] = "in_transit"
    BY <2>2 DEF Unreported
  <2>4. WayReport(s) = <<m>>
    BY <1>5, <2>2 DEF WayReport
  <2> QED BY <1>1, <1>5, <2>2, <2>3, <2>4
<1> QED BY <1>3, <1>4, <1>5

(* The story once the pick-up that is held back has been told.             *)
Begun(s) == IF s \in held THEN <<PickedUp>> ELSE Story(s)

LEMMA UpdateFacts ==
    ASSUME StoryInv, UpdateTracking, NEW s \in Shipments
    PROVE  /\ Begun(s) \in Seq(Reports) /\ WayReport(s) \in Seq(Reports)
           /\ ReportOf(s) \in Seq(Reports)
           /\ out'[s] = out[s] \o ReportOf(s) /\ log'[s] = log[s]
           /\ Story(s)' = Begun(s) \o WayReport(s)
<1>1. WayReport(s) \in Seq(Reports) /\ PickUpReport(s) \in Seq(Reports)
  <2>1. WayReport(s) = <<>> \/ \E m \in Reports : WayReport(s) = <<m>>
    BY WayReportCases, ReportValues
  <2>2. PickUpReport(s) = <<>> \/ PickUpReport(s) = <<PickedUp>>
    BY DEF PickUpReport
  <2> QED BY <2>1, <2>2, ReportSequences, ReportValues
<1>2. out[s] \in Seq(Reports) /\ log[s] \in Seq(Reports) /\ Story(s) \in Seq(Reports)
    BY ReportSequences DEF StoryInv, ReportTypes, Story
<1>3. ReportOf(s) \in Seq(Reports) /\ ReportOf(s) = PickUpReport(s) \o WayReport(s)
    BY <1>1, ReportSequences DEF ReportOf
<1>4. out'[s] = out[s] \o ReportOf(s) /\ log'[s] = log[s]
    BY DEF UpdateTracking
<1>5. Story(s)' = Story(s) \o ReportOf(s)
  <2>1. Story(s)' = log'[s] \o out'[s]
    BY DEF Story
  <2>2. (log[s] \o out[s]) \o ReportOf(s) = log[s] \o (out[s] \o ReportOf(s))
    BY <1>2, <1>3, Associates
  <2>3. Story(s)' = log[s] \o (out[s] \o ReportOf(s))
    BY <1>4, <2>1
  <2>4. Story(s) = log[s] \o out[s]
    BY DEF Story
  <2> QED BY <2>2, <2>3, <2>4
<1>6. Begun(s) = Story(s) \o PickUpReport(s) /\ Begun(s) \in Seq(Reports)
  <2>1. CASE s \in held
    <3>1. Story(s) = <<>> /\ PickUpReport(s) = <<PickedUp>>
      BY <2>1 DEF StoryInv, ToldIsRemembered, PickUpReport
    <3> QED BY <1>1, <2>1, <3>1, ReportSequences DEF Begun
  <2>2. CASE s \notin held
    BY <1>2, <2>2, ReportSequences DEF Begun, PickUpReport
  <2> QED BY <2>1, <2>2
<1>7. Story(s)' = Begun(s) \o WayReport(s)
  <2>1. (Story(s) \o PickUpReport(s)) \o WayReport(s)
            = Story(s) \o (PickUpReport(s) \o WayReport(s))
    BY <1>1, <1>2, Associates
  <2>2. Story(s)' = Story(s) \o (PickUpReport(s) \o WayReport(s))
    BY <1>3, <1>5
  <2> QED BY <1>6, <2>1, <2>2
<1> QED BY <1>1, <1>3, <1>4, <1>6, <1>7

LEMMA StoryTypes ==
    ASSUME StoryInv, NEW s \in Shipments
    PROVE  /\ out[s] \in Seq(Reports) /\ log[s] \in Seq(Reports)
           /\ Story(s) \in Seq(Reports) /\ Range(Story(s)) = Range(log[s]) \cup Range(out[s])
<1>1. out[s] \in Seq(Reports) /\ log[s] \in Seq(Reports)
    BY DEF StoryInv, ReportTypes
<1>2. Range(log[s] \o out[s]) = Range(log[s]) \cup Range(out[s])
    BY <1>1, RangeConcatenation
<1> QED BY <1>1, <1>2, ReportSequences DEF Story

LEMMA OneReport ==
    ASSUME NEW m
    PROVE  Range(<<m>>) = {m} /\ Range(<<>>) = {} /\ SoundStory(<<m>>) /\ SoundStory(<<>>)
BY DEF Range, SoundStory

LEMMA BegunFacts ==
    ASSUME StoryInv, NEW s \in Shipments
    PROVE  /\ SoundStory(Begun(s))
           /\ status[s] = "in_transit" => Range(Begun(s)) \subseteq {PickedUp} \cup reached[s]
BY OneReport DEF StoryInv, ToldIsRemembered, Begun

LEMMA StoryInit == Init => StoryInv
<1> SUFFICES ASSUME Init PROVE StoryInv
    OBVIOUS
<1>1. ReportTypes
    BY ReportSequences DEF Init, ScheduleInit, ReportTypes, Never
<1>2. ASSUME NEW s \in Shipments PROVE Story(s) = <<>> /\ status[s] = "none"
  <2>1. log[s] = <<>> /\ out[s] = <<>>
    BY DEF Init
  <2> QED BY <2>1, ReportSequences DEF Init, Story
<1> QED BY <1>1, <1>2, OneReport DEF Init, StoryInv, ToldIsRemembered

LEMMA StoryShipRequest ==
    ASSUME StoryInv, ScheduleTypeOK, NEW r \in Shipments, OnShipRequest(r)
    PROVE  StoryInv'
<1>1. tick' = tick /\ tick \in Nat
    BY ScheduleAssumption DEF OnShipRequest, Drains, scheduleVars, ScheduleTypeOK, ScheduleAssumption
<1>2. ReportTypes'
  <2>1. PICK ticks \in BaseTransit..(BaseTransit + TransitJitter) :
            eta' = [eta EXCEPT ![r] = tick + ticks]
    BY DEF OnShipRequest
  <2>2. tick + ticks \in Nat
    BY <1>1, TrackingAssumption DEF TrackingAssumption
  <2> QED BY <1>1, <2>1, <2>2 DEF OnShipRequest, StoryInv, ReportTypes
<1>3. ASSUME NEW s \in Shipments PROVE ToldIsRemembered(s)' /\ SoundStory(Story(s))'
  <2>1. Story(s)' = Story(s) /\ reached'[s] = reached[s]
    BY DEF OnShipRequest, Story
  <2>2. CASE s = r
    <3>1. status[s] = "none" /\ status'[s] = "in_transit"
      BY <2>2 DEF OnShipRequest, StoryInv, ReportTypes
    <3> QED BY <2>1, <3>1, OneReport DEF StoryInv, ToldIsRemembered
  <2>3. CASE s # r
    <3>1. status'[s] = status[s] /\ (s \in held' <=> s \in held)
      BY <2>3 DEF OnShipRequest, StoryInv, ReportTypes
    <3> QED BY <2>1, <3>1 DEF StoryInv, ToldIsRemembered
  <2> QED BY <2>2, <2>3
<1> QED BY <1>2, <1>3 DEF StoryInv

LEMMA StoryUpdate ==
    ASSUME StoryInv, ScheduleTypeOK, UpdateTracking
    PROVE  StoryInv'
<1>1. tick' = tick /\ tick \in Nat
    BY ScheduleAssumption DEF UpdateTracking, Runs, ScheduleTypeOK, ScheduleAssumption
<1>2. \A s \in Shipments : NewMilestone(s) \subseteq Milestones
    BY DEF NewMilestone, Unreported, Passed
<1>3. ReportTypes'
  <2>1. reached' \in [Shipments -> SUBSET Milestones]
    BY <1>2 DEF UpdateTracking, Remembered, StoryInv, ReportTypes
  <2>2. out' \in [Shipments -> Seq(Reports)]
    <3>1. \A s \in Shipments : out[s] \o ReportOf(s) \in Seq(Reports)
      BY UpdateFacts, StoryTypes, ReportSequences
    <3> QED BY <3>1 DEF UpdateTracking
  <2> QED BY <1>1, <2>1, <2>2 DEF UpdateTracking, StoryInv, ReportTypes
<1>4. ASSUME NEW s \in Shipments PROVE ToldIsRemembered(s)' /\ SoundStory(Story(s))'
  <2>1. /\ Story(s)' = Begun(s) \o WayReport(s)
        /\ Begun(s) \in Seq(Reports) /\ WayReport(s) \in Seq(Reports)
    BY UpdateFacts
  <2>2. Range(Story(s)') = Range(Begun(s)) \cup Range(WayReport(s))
    BY <2>1, RangeConcatenation
  <2>3. /\ reached'[s] = reached[s] \cup NewMilestone(s) /\ s \notin held'
        /\ status'[s] = IF Arrives(s) THEN "delivered" ELSE status[s]
    BY DEF UpdateTracking, Remembered
  <2>4. CASE Arrives(s) /\ WayReport(s) = <<Delivered>>
    <3>1. Delivered \notin Range(Begun(s))
      BY <2>4, BegunFacts, ReportValues DEF Arrives, StoryInv, ReportTypes
    <3>2. SoundStory(Story(s)')
      BY <2>1, <2>4, <3>1, BegunFacts, ReportValues, SoundWithOneMore
    <3> QED BY <2>3, <2>4, <3>2 DEF ToldIsRemembered, SoundStory
  <2>5. CASE ~Arrives(s) /\ WayReport(s) = <<>> /\ NewMilestone(s) = {}
    <3>1. Story(s)' = Begun(s)
      BY <2>1, <2>5, ReportSequences
    <3>2. SoundStory(Story(s)')
      BY <3>1, BegunFacts
    <3> QED BY <2>3, <2>5, <3>1, <3>2, BegunFacts
            DEF ToldIsRemembered, SoundStory, Begun, StoryInv
  <2>6. ASSUME NEW m \in Milestones, ~Arrives(s), WayReport(s) = <<m>>,
               NewMilestone(s) = {m}, m \notin reached[s], status[s] = "in_transit"
        PROVE  ToldIsRemembered(s)' /\ SoundStory(Story(s))'
    <3>1. m \notin Range(Begun(s)) /\ Delivered \notin Range(Begun(s))
      BY <2>6, BegunFacts, ReportValues DEF StoryInv, ReportTypes
    <3>2. SoundStory(Story(s)')
      BY <2>1, <2>6, <3>1, BegunFacts, ReportValues, SoundWithOneMore
    <3>3. Range(Story(s)') \subseteq {PickedUp} \cup reached'[s]
      BY <2>2, <2>3, <2>6, BegunFacts, OneReport
    <3> QED BY <2>3, <2>6, <3>2, <3>3 DEF ToldIsRemembered, SoundStory
  <2> QED BY <2>4, <2>5, <2>6, WayReportCases
<1> QED BY <1>3, <1>4 DEF StoryInv

LEMMA StoryStutter ==
    ASSUME StoryInv, UNCHANGED trackingVars, tick' = tick
    PROVE  StoryInv'
BY DEF trackingVars, StoryInv, ReportTypes, ToldIsRemembered, Story

(* A sequence keeps its places when another is put behind it.              *)
LEMMA Joined ==
    ASSUME NEW X, NEW S \in Seq(X), NEW T \in Seq(X)
    PROVE  /\ DOMAIN S \subseteq DOMAIN (S \o T)
           /\ \A i \in DOMAIN S : (S \o T)[i] = S[i]
<1>1. /\ DOMAIN (S \o T) = 1..(Len(S) + Len(T)) /\ Len(S) \in Nat /\ Len(T) \in Nat
      /\ DOMAIN S = 1..Len(S) /\ \A i \in 1..Len(S) : (S \o T)[i] = S[i]
    OBVIOUS
<1> QED BY <1>1

(* At the end of a tick a story stays what it is, or what the log has kept *)
(* of it.                                                                  *)
LEMMA StoryNextTick ==
    ASSUME StoryInv, ScheduleTypeOK, Route \/ CutShort
    PROVE  /\ StoryInv'
           /\ \A s \in Shipments : out'[s] = <<>>
           /\ Route => \A s \in Shipments :
                Story(s)' = Story(s) /\ Range(log'[s]) = Range(log[s]) \cup Range(out[s])
           /\ CutShort => log' = log
<1>1. /\ tick' = tick + 1 /\ tick \in Nat
      /\ UNCHANGED <<status, start, eta, reached, held, doneAt>>
  <2>1. tick \in Nat
    BY ScheduleAssumption DEF ScheduleTypeOK, ScheduleAssumption
  <2>2. CASE Route
    BY <2>1, <2>2 DEF Route, EndTick, NextTick
  <2>3. CASE CutShort
    BY <2>1, <2>3 DEF CutShort, Abort, NextTick
  <2> QED BY <2>2, <2>3
<1>2. ASSUME NEW s \in Shipments
      PROVE  /\ out'[s] = <<>> /\ log'[s] \in Seq(Reports)
             /\ SoundStory(Story(s)') /\ Range(Story(s)') \subseteq Range(Story(s))
             /\ Story(s) = <<>> => Story(s)' = <<>>
             /\ Route => Story(s)' = Story(s) /\ Range(log'[s]) = Range(log[s]) \cup Range(out[s])
             /\ CutShort => log' = log
  <2>1. CASE Route
    <3>1. out'[s] = <<>> /\ log'[s] = Story(s)
      BY <2>1 DEF Route, Story
    <3>2. log'[s] \o out'[s] = Story(s)
      BY <3>1, StoryTypes, ReportSequences
    <3>3. Story(s)' = Story(s)
      BY <3>2 DEF Story
    <3> QED BY <1>1, <2>1, <3>1, <3>3, StoryTypes DEF StoryInv, Route, CutShort, EndTick, Abort
  <2>2. CASE CutShort
    <3>1. out'[s] = <<>> /\ log'[s] = log[s] /\ log' = log
      BY <2>2 DEF CutShort, LostReports
    <3>2. log'[s] \o out'[s] = log[s]
      BY <3>1, StoryTypes, ReportSequences
    <3>3. Story(s)' = log[s]
      BY <3>2 DEF Story
    <3>4. /\ Story(s) = log[s] \o out[s] /\ DOMAIN log[s] \subseteq DOMAIN Story(s)
          /\ \A i \in DOMAIN log[s] : Story(s)[i] = log[s][i]
          /\ Story(s) = <<>> => log[s] = <<>>
      <4>1. log[s] \in Seq(Reports) /\ out[s] \in Seq(Reports)
        BY StoryTypes
      <4>2. Story(s) = log[s] \o out[s]
        BY DEF Story
      <4>3. log[s] \o out[s] = <<>> => log[s] = <<>>
        BY <4>1, ConcatEqualIffEmpty
      <4>4. /\ DOMAIN log[s] \subseteq DOMAIN (log[s] \o out[s])
            /\ \A i \in DOMAIN log[s] : (log[s] \o out[s])[i] = log[s][i]
        BY <4>1, Joined
      <4> QED BY <4>2, <4>3, <4>4
    <3>5. SoundStory(log[s])
      BY <3>4 DEF StoryInv, SoundStory
    <3> QED BY <1>1, <2>2, <3>1, <3>3, <3>4, <3>5, StoryTypes DEF Route, EndTick, Abort
  <2> QED BY <2>1, <2>2
<1>3. ReportTypes'
  <2>1. out' \in [Shipments -> Seq(Reports)] /\ log' \in [Shipments -> Seq(Reports)]
    BY <1>2, ReportSequences DEF Route, CutShort, LostReports, StoryInv, ReportTypes
  <2> QED BY <1>1, <2>1 DEF StoryInv, ReportTypes
<1>4. \A s \in Shipments : ToldIsRemembered(s)'
    BY <1>1, <1>2 DEF StoryInv, ToldIsRemembered
<1>5. \A s \in Shipments : SoundStory(Story(s))'
    BY <1>2 DEF SoundStory
<1>6. StoryInv'
    BY <1>3, <1>4, <1>5 DEF StoryInv
<1>7. CASE Route
    BY <1>2, <1>6, <1>7 DEF Route, CutShort
<1>8. CASE CutShort
    BY <1>2, <1>6, <1>8 DEF Route, CutShort
<1> QED BY <1>7, <1>8

LEMMA StoryStep ==
    ASSUME StoryInv, ScheduleTypeOK, [Next]_vars
    PROVE  StoryInv'
<1>1. ASSUME NEW s \in Shipments, OnShipRequest(s) PROVE StoryInv'
    BY <1>1, StoryShipRequest
<1>2. CASE UpdateTracking
    BY <1>2, StoryUpdate
<1>3. ASSUME NEW a \in Agents, OthersRun(a) \/ TurnGoesOn(a) PROVE StoryInv'
  <2>1. UNCHANGED trackingVars /\ tick' = tick
    BY <1>3 DEF OthersRun, TurnGoesOn, Runs, MarkDue, EndTurn
  <2> QED BY <2>1, StoryStutter
<1>4. CASE Route \/ CutShort
    BY <1>4, StoryNextTick
<1>5. CASE UNCHANGED vars
  <2>1. UNCHANGED trackingVars /\ tick' = tick
    BY <1>5 DEF vars, scheduleVars
  <2> QED BY <2>1, StoryStutter
<1> QED BY <1>1, <1>2, <1>3, <1>4, <1>5 DEF Next

LEMMA StoryHolds == Spec => []StoryInv
<1>1. StoryInv /\ ScheduleInv /\ [Next]_vars => StoryInv'
    BY StoryStep DEF ScheduleInv
<1> QED BY <1>1, StoryInit, ScheduleHolds, PTL DEF Spec

(* Every variable keeps its type, whatever is lost.                        *)
THEOREM TrackingTypeCorrect == Spec => []TypeOK
<1>1. StoryInv /\ ScheduleInv => TypeOK
  <2> SUFFICES ASSUME StoryInv, ScheduleInv PROVE TypeOK
    OBVIOUS
  <2>1. ScheduleTypeOK /\ tick \in Nat
    BY ScheduleAssumption DEF ScheduleInv, ScheduleTypeOK, ScheduleAssumption
  <2> QED BY <2>1 DEF StoryInv, ReportTypes, TypeOK
<1> QED BY <1>1, StoryHolds, ScheduleHolds, PTL

(* Whatever is lost, nothing is reported twice of a shipment, nothing      *)
(* before its pick-up and nothing after its delivery.                      *)
THEOREM StoriesAreSound == Spec => []StoryIsSound
<1>1. StoryInv => StoryIsSound
    BY DEF StoryInv, StoryIsSound, SoundStory
<1> QED BY <1>1, StoryHolds, PTL
-----------------------------------------------------------------------------
(* When a shipment is delivered, and who is told.                          *)
ToldOnce(s) ==
    status[s] = "delivered" =>
        /\ doneAt[s] \in 1..tick
        /\ doneAt[s] \in cut => Delivered \notin Range(log[s])
        /\ doneAt[s] = tick =>
            Delivered \in Range(out[s]) /\ Delivered \notin Range(log[s])
        /\ doneAt[s] # tick => Delivered \notin Range(out[s])
        /\ doneAt[s] # tick /\ doneAt[s] \notin cut => Delivered \in Range(log[s])

(* Until its delivery a shipment has been overdue only in ticks that were  *)
(* cut short, and once transport has run in a tick no shipment is due.     *)
Overdue(s, late) == \A t \in eta[s]..(late - 1) : t \in cut
OnTime(s) ==
    /\ status[s] = "in_transit" =>
        Overdue(s, tick) /\ (ran[Key] = tick => eta[s] > tick)
    /\ status[s] = "delivered" => Overdue(s, doneAt[s])

(* Transport has run in this tick only in its turn, and once.              *)
RanInTurn ==
    /\ ran[Key] <= tick
    /\ ran[Key] = tick => \A i \in DOMAIN Roster :
        Roster[i] = Transport =>
            i < turn \/ (i = turn /\ firing /\ "update_tracking" \notin todo)

DeliveryInv ==
    /\ RanInTurn
    /\ \A s \in Shipments : ToldOnce(s) /\ (EveryTick => OnTime(s))

LEMMA TickFacts ==
    ASSUME ScheduleInv
    PROVE  /\ tick \in Nat /\ tick >= 1 /\ ran[Key] \in Int /\ cut \subseteq 1..(tick - 1)
           /\ turn \in Nat /\ DOMAIN Roster \subseteq Nat /\ firing \in BOOLEAN
<1>1. turn \in 1..(Len(Roster) + 1)
    BY DEF ScheduleInv, ScheduleTypeOK
<1>2. tick \in 1..MaxTick /\ MaxTick \in Nat
    BY ScheduleAssumption DEF ScheduleInv, ScheduleTypeOK, ScheduleAssumption
<1> QED BY <1>1, <1>2, RosterFacts, KeyFacts DEF ScheduleInv, ScheduleTypeOK

(* With an update in every tick, transport has run when the tick ends.     *)
LEMMA RunsInEveryTick ==
    ASSUME ScheduleInv, EveryTick, turn = Len(Roster) + 1
    PROVE  ran[Key] = tick
<1>1. PICK i \in DOMAIN Roster : Roster[i] = Transport
    BY RosterFacts, KeyFacts
<1>2. i < turn /\ turn \notin DOMAIN Roster
    BY <1>1, RosterFacts
<1>3. lastFired[Key] = tick \/ DueTick(Key) > tick
    BY <1>1, <1>2, KeyFacts, RosterFacts DEF ScheduleInv, Marked
<1>4. /\ lastFired[Key] \in Int /\ lastFired[Key] <= tick /\ tick \in Nat
      /\ CycleTicks["update_tracking"] \in Nat /\ offset[Key] \in Int
      /\ DueTick(Key) = lastFired[Key] + CycleTicks["update_tracking"] + offset[Key]
  <2>1. ScheduleTypeOK /\ lastFired[Key] <= tick
    BY KeyFacts DEF ScheduleInv
  <2> QED BY <2>1, KeyFacts, DueTickIsInt, RecurringFacts DEF ScheduleTypeOK, DueTick
<1>5. lastFired[Key] = tick
  <2>1. CycleTicks["update_tracking"] + offset[Key] <= 1
    BY DEF EveryTick, Key
  <2> QED BY <1>3, <1>4, <2>1
<1>6. tick \notin cut /\ ~firing
    BY <1>2, <1>4 DEF ScheduleInv, ScheduleTypeOK
<1> QED BY <1>5, <1>6, KeyFacts DEF ScheduleInv, OnSchedule, DroppedOnlyByFaults

LEMMA DeliveryInit == Init => DeliveryInv
<1> SUFFICES ASSUME Init PROVE DeliveryInv
    OBVIOUS
<1>1. ran[Key] < tick /\ ran[Key] \in Int /\ tick \in Nat
    BY KeyFacts, RecurringFacts DEF Init, ScheduleInit
<1>2. RanInTurn
    BY <1>1 DEF RanInTurn
<1>3. \A s \in Shipments : ToldOnce(s) /\ OnTime(s)
    BY DEF Init, ToldOnce, OnTime
<1> QED BY <1>2, <1>3 DEF DeliveryInv

LEMMA DeliveryShipRequest ==
    ASSUME StoryInv, ScheduleInv, DeliveryInv, NEW r \in Shipments, OnShipRequest(r)
    PROVE  DeliveryInv'
<1>1. UNCHANGED scheduleVars /\ Now(Transport) /\ ~firing /\ status[r] = "none"
    BY DEF OnShipRequest, Drains
<1>2. /\ UNCHANGED <<tick, turn, firing, todo, ran, cut>> /\ EveryTick' = EveryTick
      /\ UNCHANGED <<log, out, doneAt>>
    BY <1>1 DEF scheduleVars, EveryTick, OnShipRequest
<1>3. RanInTurn' /\ ran[Key] # tick
  <2>1. RanInTurn'
    BY <1>2 DEF DeliveryInv, RanInTurn
  <2>2. turn \in DOMAIN Roster /\ Roster[turn] = Transport
    BY <1>1 DEF Now
  <2> QED BY <1>1, <2>1, <2>2, TickFacts DEF DeliveryInv, RanInTurn
<1>4. eta'[r] \in Nat /\ eta'[r] >= tick
  <2>1. PICK ticks \in BaseTransit..(BaseTransit + TransitJitter) :
            eta' = [eta EXCEPT ![r] = tick + ticks]
    BY DEF OnShipRequest
  <2> QED BY <2>1, TickFacts, TrackingAssumption
       DEF TrackingAssumption, StoryInv, ReportTypes
<1>5. ASSUME NEW s \in Shipments PROVE ToldOnce(s)' /\ (EveryTick' => OnTime(s)')
  <2>1. CASE s = r
    <3>1. status'[s] = "in_transit"
      BY <2>1 DEF OnShipRequest, StoryInv, ReportTypes
    <3>2. Overdue(s, tick)'
      BY <1>2, <1>4, <2>1, TickFacts DEF Overdue
    <3> QED BY <1>2, <1>3, <3>1, <3>2 DEF ToldOnce, OnTime
  <2>2. CASE s # r
    <3>1. status'[s] = status[s] /\ eta'[s] = eta[s]
      BY <2>2 DEF OnShipRequest, StoryInv, ReportTypes
    <3> QED BY <1>2, <3>1 DEF DeliveryInv, ToldOnce, OnTime, Overdue
  <2> QED BY <2>1, <2>2
<1> QED BY <1>3, <1>5 DEF DeliveryInv

LEMMA DeliveryUpdate ==
    ASSUME StoryInv, ScheduleInv, DeliveryInv, UpdateTracking
    PROVE  DeliveryInv'
<1>1. /\ UNCHANGED <<tick, turn, firing, cut>> /\ EveryTick' = EveryTick
      /\ turn \in DOMAIN Roster /\ Roster[turn] = Transport /\ firing
      /\ UNCHANGED <<eta, log>>
    BY DEF UpdateTracking, Runs, Now, EveryTick
<1>2. ran'[Key] = tick /\ "update_tracking" \notin todo'
    BY KeyFacts DEF UpdateTracking, Runs, Key, ScheduleInv, ScheduleTypeOK
<1>3. RanInTurn'
    BY <1>1, <1>2, TickFacts, RosterFacts DEF RanInTurn
<1>4. ASSUME NEW s \in Shipments PROVE ToldOnce(s)' /\ (EveryTick' => OnTime(s)')
  <2>1. /\ status'[s] = IF Arrives(s) THEN "delivered" ELSE status[s]
        /\ doneAt'[s] = IF Arrives(s) THEN tick ELSE doneAt[s]
        /\ out'[s] = out[s] \o ReportOf(s)
    BY DEF UpdateTracking
  <2>2. CASE Arrives(s)
    <3>1. Delivered \in Range(out'[s])
      <4>1. ReportOf(s) = PickUpReport(s) \o <<Delivered>>
        BY <2>2 DEF ReportOf, WayReport
      <4>2. PickUpReport(s) \in Seq(Reports) /\ <<Delivered>> \in Seq(Reports)
        BY ReportSequences, ReportValues DEF PickUpReport
      <4>3. Delivered \in Range(ReportOf(s)) /\ ReportOf(s) \in Seq(Reports)
        <5>1. Range(ReportOf(s)) = Range(PickUpReport(s)) \cup Range(<<Delivered>>)
          BY <4>1, <4>2, RangeConcatenation
        <5> QED BY <5>1, OneReport, UpdateFacts
      <4>4. Range(out[s] \o ReportOf(s)) = Range(out[s]) \cup Range(ReportOf(s))
        BY <4>3, StoryTypes, RangeConcatenation
      <4> QED BY <2>1, <4>3, <4>4
    <3>2. Delivered \notin Range(log[s])
      <4>1. status[s] = "in_transit"
        BY <2>2 DEF Arrives
      <4>2. Range(Story(s)) \subseteq {PickedUp} \cup reached[s]
        BY <4>1 DEF StoryInv, ToldIsRemembered
      <4> QED BY <4>2, StoryTypes, ReportValues DEF StoryInv, ReportTypes
    <3>3. ToldOnce(s)'
      BY <1>1, <2>1, <2>2, <3>1, <3>2, TickFacts DEF ToldOnce
    <3>4. EveryTick => Overdue(s, tick)
      BY <2>2 DEF Arrives, DeliveryInv, OnTime
    <3>5. EveryTick => Overdue(s, doneAt[s])'
      BY <1>1, <2>1, <2>2, <3>4 DEF Overdue
    <3> QED BY <1>1, <2>1, <2>2, <3>3, <3>5 DEF OnTime
  <2>3. CASE ~Arrives(s)
    <3>1. status'[s] = status[s] /\ doneAt'[s] = doneAt[s]
      BY <2>1, <2>3
    <3>2. status[s] = "in_transit" => eta[s] > tick
      BY <2>3, TickFacts DEF Arrives, StoryInv, ReportTypes
    <3>3. Range(out[s]) \subseteq Range(out'[s])
          /\ (Delivered \in Range(out'[s]) => Delivered \in Range(out[s]))
      <4>1. Range(out'[s]) = Range(out[s]) \cup Range(ReportOf(s))
        BY <2>1, UpdateFacts, StoryTypes, RangeConcatenation
      <4>2. /\ PickUpReport(s) \in Seq(Reports)
            /\ Range(PickUpReport(s)) \subseteq {PickedUp}
        <5>1. PickUpReport(s) = <<>> \/ PickUpReport(s) = <<PickedUp>>
          BY DEF PickUpReport
        <5>2. Range(<<PickedUp>>) = {PickedUp} /\ Range(<<>>) = {}
          BY OneReport
        <5> QED BY <5>1, <5>2, ReportSequences, ReportValues
      <4>3. Delivered \notin Range(WayReport(s))
        <5>1. WayReport(s) = <<>> \/ \E m \in Milestones : WayReport(s) = <<m>>
          BY <2>3, WayReportCases
        <5>2. CASE WayReport(s) = <<>>
          BY <5>2, OneReport
        <5>3. ASSUME NEW m \in Milestones, WayReport(s) = <<m>>
              PROVE  Delivered \notin Range(WayReport(s))
          BY <5>3, OneReport, ReportValues
        <5> QED BY <5>1, <5>2, <5>3
      <4>4. Range(ReportOf(s)) = Range(PickUpReport(s)) \cup Range(WayReport(s))
        BY <4>2, UpdateFacts, RangeConcatenation, ZenonT(30) DEF ReportOf
      <4> QED BY <4>1, <4>2, <4>3, <4>4, ReportValues
    <3>4. ToldOnce(s)'
      BY <1>1, <3>1, <3>3 DEF DeliveryInv, ToldOnce
    <3>5. EveryTick => OnTime(s)'
      BY <1>1, <3>1, <3>2 DEF DeliveryInv, OnTime, Overdue
    <3> QED BY <1>1, <3>4, <3>5
  <2> QED BY <2>2, <2>3
<1> QED BY <1>3, <1>4 DEF DeliveryInv

(* Other agents' handlers do not touch what transport has run.             *)
LEMMA OthersKeepKey ==
    ASSUME ScheduleInv, NEW a \in Agents, OthersRun(a) \/ TurnGoesOn(a)
    PROVE  ran'[Key] = ran[Key]
<1>1. CASE OthersRun(a)
  <2>1. PICK x \in ActionsOf(a) : Runs(a, x)
    BY <1>1 DEF OthersRun
  <2>2. <<a, x>> # Key /\ ran' = [ran EXCEPT ![<<a, x>>] = tick]
    BY <1>1, <2>1 DEF OthersRun, Runs, Key
  <2> QED BY <2>2, KeyFacts DEF ScheduleInv, ScheduleTypeOK
<1>2. CASE TurnGoesOn(a)
  BY <1>2 DEF TurnGoesOn, MarkDue, EndTurn
<1> QED BY <1>1, <1>2

(* The turn of an agent goes on, or another agent's handlers run.          *)
LEMMA DeliveryTurns ==
    ASSUME ScheduleInv, DeliveryInv, NEW a \in Agents, OthersRun(a) \/ TurnGoesOn(a)
    PROVE  DeliveryInv'
<1>1. UNCHANGED <<tick, cut, trackingVars>> /\ EveryTick' = EveryTick
    BY DEF OthersRun, TurnGoesOn, Runs, MarkDue, EndTurn, EveryTick
<1>2. ran'[Key] = ran[Key]
    BY OthersKeepKey
<1>3. \/ turn' = turn /\ (firing => firing' /\ todo' \subseteq todo)
      \/ turn' = turn + 1
    BY DEF OthersRun, TurnGoesOn, Runs, MarkDue, EndTurn
<1>4. RanInTurn'
    BY <1>1, <1>2, <1>3, TickFacts DEF DeliveryInv, RanInTurn
<1>5. \A s \in Shipments : ToldOnce(s)' /\ (EveryTick' => OnTime(s)')
    BY <1>1, <1>2 DEF trackingVars, DeliveryInv, ToldOnce, OnTime, Overdue
<1> QED BY <1>4, <1>5 DEF DeliveryInv

LEMMA DeliveryNextTick ==
    ASSUME StoryInv, ScheduleInv, DeliveryInv, Route \/ CutShort
    PROVE  DeliveryInv'
<1>0. \A s \in Shipments : Delivered \notin Range(out[s])'
  <2>1. \A s \in Shipments : out'[s] = <<>>
    BY StoryNextTick DEF ScheduleInv
  <2> QED BY <2>1, OneReport
<1>1. /\ tick' = tick + 1 /\ ran' = ran /\ EveryTick' = EveryTick
      /\ UNCHANGED <<status, eta, doneAt>>
    BY DEF Route, CutShort, EndTick, Abort, NextTick, EveryTick
<1>2. RanInTurn'
    BY <1>1, TickFacts DEF DeliveryInv, RanInTurn
<1>3. CASE Route
  <2>1. cut' = cut /\ turn = Len(Roster) + 1
    BY <1>3 DEF Route, EndTick
  <2>2. \A s \in Shipments : Range(log'[s]) = Range(log[s]) \cup Range(out[s])
    BY <1>3, StoryNextTick DEF ScheduleInv
  <2>3. ASSUME NEW s \in Shipments PROVE ToldOnce(s)'
    <3>1. ToldOnce(s)
      BY DEF DeliveryInv
    <3>2. Range(log[s])' = Range(log[s]) \cup Range(out[s])
      BY <2>2
    <3>3. /\ status'[s] = status[s] /\ doneAt'[s] = doneAt[s]
          /\ tick' = tick + 1 /\ cut' = cut /\ tick \notin cut
      BY <1>1, <2>1, TickFacts
    <3>4. ASSUME status[s] = "delivered"
          PROVE  /\ doneAt[s] \in 1..(tick + 1) /\ doneAt[s] # tick + 1
                 /\ doneAt[s] \in cut => Delivered \notin Range(log[s])'
                 /\ doneAt[s] \notin cut => Delivered \in Range(log[s])'
      <4>1. doneAt[s] \in 1..tick
        BY <3>1, <3>4 DEF ToldOnce
      <4>2. CASE doneAt[s] = tick
        BY <3>1, <3>2, <3>3, <3>4, <4>1, <4>2, TickFacts DEF ToldOnce
      <4>3. CASE doneAt[s] # tick
        BY <3>1, <3>2, <3>3, <3>4, <4>1, <4>3, TickFacts DEF ToldOnce
      <4> QED BY <4>2, <4>3
    <3>5. Delivered \notin Range(out[s])'
      BY <1>0
    <3> QED BY <3>3, <3>4, <3>5 DEF ToldOnce
  <2>4. ASSUME NEW s \in Shipments, EveryTick PROVE OnTime(s)'
    <3>1. ran[Key] = tick
      BY <2>1, <2>4, RunsInEveryTick
    <3>2. status[s] = "in_transit" => Overdue(s, tick)'
      BY <1>1, <2>4, <3>1, TickFacts DEF DeliveryInv, OnTime, Overdue, StoryInv, ReportTypes
    <3> QED BY <1>1, <2>1, <2>4, <3>1, <3>2, TickFacts DEF DeliveryInv, OnTime, Overdue
  <2> QED BY <1>1, <1>2, <2>3, <2>4 DEF DeliveryInv
<1>4. CASE CutShort
  <2>1. cut' = cut \cup {tick} /\ log' = log
    BY <1>4, StoryNextTick DEF CutShort, Abort, ScheduleInv
  <2>2. ASSUME NEW s \in Shipments PROVE ToldOnce(s)'
    BY <1>0, <1>1, <2>1, TickFacts DEF DeliveryInv, ToldOnce
  <2>3. ASSUME NEW s \in Shipments, EveryTick PROVE OnTime(s)'
    <3>1. status[s] = "in_transit" => Overdue(s, tick)'
      BY <1>1, <2>1, <2>3, TickFacts DEF DeliveryInv, OnTime, Overdue, StoryInv, ReportTypes
    <3> QED BY <1>1, <2>1, <2>3, <3>1, TickFacts DEF DeliveryInv, OnTime, Overdue, RanInTurn
  <2> QED BY <1>1, <1>2, <2>2, <2>3 DEF DeliveryInv
<1> QED BY <1>3, <1>4

LEMMA DeliveryHolds == Spec => []DeliveryInv
<1>1. StoryInv /\ ScheduleInv /\ DeliveryInv /\ [Next]_vars => DeliveryInv'
  <2> SUFFICES ASSUME StoryInv, ScheduleInv, DeliveryInv, [Next]_vars PROVE DeliveryInv'
    OBVIOUS
  <2>1. CASE UNCHANGED vars
    BY <2>1 DEF vars, scheduleVars, trackingVars, DeliveryInv, RanInTurn, ToldOnce, OnTime,
        Overdue, EveryTick
  <2> QED BY <2>1, DeliveryShipRequest, DeliveryUpdate, DeliveryTurns, DeliveryNextTick
       DEF Next
<1> QED BY <1>1, DeliveryInit, StoryHolds, ScheduleHolds, PTL DEF Spec

(* What has become of the pick-ups.                                        *)
LEMMA PickUpStep ==
    ASSUME StoryInv, ScheduleInv, \A s \in Shipments : PickUpIsTold(s), [Next]_vars
    PROVE  \A s \in Shipments : PickUpIsTold(s)'
<1> SUFFICES ASSUME NEW s \in Shipments PROVE PickUpIsTold(s)'
    OBVIOUS
<1>1. /\ tick \in Nat /\ start[s] \in Nat /\ start[s] <= tick
      /\ PickUpIsTold(s)
    BY TickFacts DEF StoryInv, ReportTypes
<1>2. ASSUME NEW r \in Shipments, OnShipRequest(r) PROVE PickUpIsTold(s)'
  <2>1. /\ UNCHANGED <<tick, cut>> /\ Story(s)' = Story(s) /\ held' = held \cup {r}
    BY <1>2 DEF OnShipRequest, Drains, scheduleVars, Story
  <2>2. s # r => status'[s] = status[s] /\ start'[s] = start[s]
    BY <1>2 DEF OnShipRequest, StoryInv, ReportTypes
  <2> QED BY <1>1, <2>1, <2>2 DEF PickUpIsTold
<1>3. CASE UpdateTracking
  <2>1. UNCHANGED <<tick, cut, start>>
    BY <1>3 DEF UpdateTracking, Runs
  <2>5. status'[s] # "none" => status[s] # "none"
    <3>1. status'[s] = IF Arrives(s) THEN "delivered" ELSE status[s]
      BY <1>3 DEF UpdateTracking
    <3> QED BY <3>1 DEF Arrives
  <2>2. Range(Story(s)') = Range(Begun(s)) \cup Range(WayReport(s))
    <3>1. /\ Story(s)' = Begun(s) \o WayReport(s)
          /\ Begun(s) \in Seq(Reports) /\ WayReport(s) \in Seq(Reports)
      BY <1>3, UpdateFacts
    <3> QED BY <3>1, RangeConcatenation
  <2>3. s \in held => Range(Begun(s)) = {PickedUp}
    BY OneReport DEF Begun
  <2>4. s \notin held => Range(Begun(s)) = Range(Story(s))
    BY DEF Begun
  <2> QED BY <1>1, <2>1, <2>5, <2>2, <2>3, <2>4 DEF PickUpIsTold
<1>4. CASE Route
  <2>1. /\ Story(s)' = Story(s) /\ tick' = tick + 1 /\ cut' = cut
        /\ UNCHANGED <<status, start, held>>
    BY <1>4, StoryNextTick DEF ScheduleInv, Route, EndTick, NextTick
  <2>2. start[s]..(tick - 1) \subseteq start[s]..((tick + 1) - 1)
    BY <1>1
  <2> QED BY <1>1, <2>1, <2>2 DEF PickUpIsTold
<1>5. CASE CutShort
  <2>1. tick' = tick + 1 /\ cut' = cut \cup {tick} /\ start' = start
    BY <1>5 DEF CutShort, Abort, NextTick
  <2>2. tick \in start[s]..((tick + 1) - 1)
    BY <1>1
  <2> QED BY <2>1, <2>2 DEF PickUpIsTold
<1>6. ASSUME UNCHANGED <<tick, cut, trackingVars>> PROVE PickUpIsTold(s)'
  <2>1. Story(s)' = Story(s) /\ UNCHANGED <<tick, cut, status, start, held>>
    BY <1>6 DEF trackingVars, Story
  <2> QED BY <1>1, <2>1 DEF PickUpIsTold
<1>7. ASSUME NEW a \in Agents, OthersRun(a) \/ TurnGoesOn(a) PROVE PickUpIsTold(s)'
    BY <1>6, <1>7 DEF OthersRun, TurnGoesOn, Runs, MarkDue, EndTurn
<1>8. CASE UNCHANGED vars
    BY <1>6, <1>8 DEF vars, scheduleVars
<1> QED BY <1>2, <1>3, <1>4, <1>5, <1>7, <1>8 DEF Next

LEMMA PickUpsHold == Spec => [](\A s \in Shipments : PickUpIsTold(s))
<1>1. Init => \A s \in Shipments : PickUpIsTold(s)
    BY DEF Init, PickUpIsTold
<1>2. StoryInv /\ ScheduleInv /\ (\A s \in Shipments : PickUpIsTold(s)) /\ [Next]_vars
        => (\A s \in Shipments : PickUpIsTold(s))'
    BY PickUpStep
<1> QED BY <1>1, <1>2, StoryHolds, ScheduleHolds, PTL DEF Spec

(* A shipment is delivered at its eta or in the first tick after it that   *)
(* was not cut short, and its recipient is told unless that tick is cut    *)
(* short after transport's turn; its pick-up too is lost only in a tick    *)
(* that was cut short.                                                     *)
THEOREM DeliveriesAreTold == Spec => []DeliveryIsTold
<1>1. StoryInv /\ ScheduleInv /\ DeliveryInv /\ (\A s \in Shipments : PickUpIsTold(s))
        => DeliveryIsTold
  <2> SUFFICES ASSUME StoryInv, ScheduleInv, DeliveryInv, NEW s \in Shipments,
                      PickUpIsTold(s)
               PROVE  LET told == {i \in DOMAIN log[s] : log[s][i] = Delivered}
                          late == IF status[s] = "delivered" THEN doneAt[s] ELSE tick
                      IN  /\ PickUpIsTold(s)
                          /\ EveryTick /\ status[s] # "none" =>
                              \A t \in eta[s]..(late - 1) : t \in cut
                          /\ status[s] = "delivered" =>
                              CASE doneAt[s] \in cut -> told = {}
                                [] doneAt[s] = tick  -> Delivered \in Range(out[s])
                                [] OTHER             -> told # {}
    BY DEF DeliveryIsTold
  <2>1. ToldOnce(s) /\ (EveryTick => OnTime(s)) /\ tick \notin cut
    BY TickFacts DEF DeliveryInv
  <2>2. status[s] \in {"none", "in_transit", "delivered"}
    BY DEF StoryInv, ReportTypes
  <2>3. Delivered \in Range(log[s]) <=> {i \in DOMAIN log[s] : log[s][i] = Delivered} # {}
    BY DEF Range
  <2> QED BY <2>1, <2>2, <2>3 DEF ToldOnce, OnTime, Overdue
<1> QED BY <1>1, StoryHolds, ScheduleHolds, DeliveryHolds, PickUpsHold, PTL
-----------------------------------------------------------------------------
(* The marks passed after e ticks of a way of D, and their order.          *)
MarksBy(e, D) == {m \in Milestones : 100 * e >= m * D}

LEMMA MarksOrdered ==
    ASSUME NEW e \in Int, NEW D \in Nat, NEW m \in Milestones, NEW n \in Milestones,
           m \in MarksBy(e, D), n \notin MarksBy(e, D)
    PROVE  m < n
<1>1. m \in {25, 50, 75} /\ n \in {25, 50, 75} /\ 100 * e >= m * D /\ ~(100 * e >= n * D)
    BY DEF Milestones, MarksBy
<1>2. \A x \in {25, 50, 75} : x * D = IF x = 25 THEN 25 * D ELSE IF x = 50 THEN 50 * D ELSE 75 * D
    OBVIOUS
<1> QED BY <1>1, <1>2

(* On a way of three ticks or more a tick passes one mark at most.         *)
LEMMA OneMarkATick ==
    ASSUME NEW e \in Int, NEW D \in Nat, D >= 3, e + 1 < D,
           NEW m \in MarksBy(e + 1, D) \ MarksBy(e, D),
           NEW n \in MarksBy(e + 1, D) \ MarksBy(e, D)
    PROVE  m = n
<1>1. \A x \in {25, 50, 75} : x * D = IF x = 25 THEN 25 * D ELSE IF x = 50 THEN 50 * D ELSE 75 * D
    OBVIOUS
<1>2. m \in {25, 50, 75} /\ n \in {25, 50, 75}
    BY DEF Milestones, MarksBy
<1>3. /\ ~(100 * e >= m * D) /\ 100 * (e + 1) >= m * D
      /\ ~(100 * e >= n * D) /\ 100 * (e + 1) >= n * D
    BY DEF MarksBy
<1> QED BY <1>1, <1>2, <1>3

LEMMA MarksStay ==
    ASSUME NEW e \in Int, NEW D \in Nat
    PROVE  MarksBy(e, D) \subseteq MarksBy(e + 1, D)
<1> SUFFICES ASSUME NEW m \in Milestones, 100 * e >= m * D PROVE 100 * (e + 1) >= m * D
    BY DEF MarksBy
<1>1. m * D \in Int
    BY ReportValues
<1> QED BY <1>1

(* Before the first tick of a way no mark is passed, before the last of a  *)
(* way of four ticks every mark.                                           *)
LEMMA MarksAtEnds ==
    ASSUME NEW e \in Int, NEW D \in Nat
    PROVE  /\ e < 0 => MarksBy(e, D) = {}
           /\ D >= 4 /\ e = D - 1 => MarksBy(e, D) = Milestones
<1>1. \A x \in Milestones : x * D = IF x = 25 THEN 25 * D ELSE IF x = 50 THEN 50 * D ELSE 75 * D
    BY DEF Milestones
<1>2. e < 0 => MarksBy(e, D) = {}
    BY <1>1 DEF MarksBy, Milestones
<1>3. ASSUME D >= 4, e = D - 1 PROVE MarksBy(e, D) = Milestones
    BY <1>1, <1>3 DEF MarksBy, Milestones
<1> QED BY <1>2, <1>3

Increasing(S) == \A i, j \in DOMAIN S : i < j => S[i] < S[j]

LEMMA IncreasingWithOneMore ==
    ASSUME NEW S \in Seq(Reports), NEW m \in Reports, Increasing(S),
           \A x \in Range(S) : x < m
    PROVE  Increasing(S \o <<m>>)
<1> DEFINE T == S \o <<m>>
<1>1. /\ <<m>> \in Seq(Reports) /\ Len(<<m>>) = 1
      /\ DOMAIN T = 1..(Len(S) + 1) /\ Len(S) \in Nat /\ DOMAIN S = 1..Len(S)
      /\ \A i \in 1..Len(S) : T[i] = S[i]
      /\ T[Len(S) + 1] = m
    OBVIOUS
<1>2. \A i \in 1..Len(S) : S[i] < m
    BY <1>1 DEF Range
<1> HIDE DEF T
<1>3. ASSUME NEW i \in DOMAIN T, NEW j \in DOMAIN T, i < j PROVE T[i] < T[j]
  <2>1. i \in 1..Len(S) /\ T[i] = S[i]
    BY <1>1, <1>3
  <2>2. CASE j \in 1..Len(S)
    BY <1>1, <1>3, <2>1, <2>2 DEF Increasing
  <2>3. CASE j = Len(S) + 1
    BY <1>1, <1>2, <2>1, <2>3
  <2> QED BY <1>1, <2>2, <2>3
<1> QED BY <1>3 DEF Increasing, T
-----------------------------------------------------------------------------
(* The order of the reports, with an update in every tick and no exception: *)
(* every mark passed at the last update has been reported, on any way long *)
(* enough to need more than one.                                           *)
Way(s) == eta[s] - start[s]
AtLastUpdate(s) == (IF ran[Key] = tick THEN tick ELSE tick - 1) - start[s]

Ordered(s) ==
    /\ Increasing(Story(s)) /\ start[s] <= eta[s]
    /\ status[s] = "in_transit" =>
        /\ s \notin held => Range(Story(s)) = {PickedUp} \cup reached[s]
        /\ Way(s) >= 3 => reached[s] = MarksBy(AtLastUpdate(s), Way(s))
        /\ Way(s) < 3 /\ AtLastUpdate(s) < 1 => reached[s] = {}
    /\ status[s] = "delivered" /\ Way(s) >= 4 => Range(Story(s)) = Reports

OrderInv == cut = {} /\ EveryTick => \A s \in Shipments : Ordered(s)

LEMMA ShortStories ==
    ASSUME NEW m \in Reports
    PROVE  Increasing(<<m>>) /\ Increasing(<<>>)
BY DEF Increasing

LEMMA OrderInit == Init => OrderInv
<1> SUFFICES ASSUME Init, NEW s \in Shipments PROVE Ordered(s)
    BY DEF OrderInv
<1>1. Story(s) = <<>> /\ status[s] = "none" /\ start[s] = 0 /\ eta[s] = 0
  <2>1. log[s] = <<>> /\ out[s] = <<>>
    BY DEF Init
  <2>2. status[s] = "none" /\ start[s] = 0 /\ eta[s] = 0
    BY DEF Init, Never
  <2>3. Story(s) = <<>>
    BY <2>1, ReportSequences DEF Story
  <2> QED BY <2>2, <2>3
<1>2. Increasing(<<>>)
    BY DEF Increasing
<1>3. Increasing(Story(s)) /\ start[s] <= eta[s]
    BY <1>1, <1>2
<1> QED BY <1>1, <1>3 DEF Ordered

WayFacts(s) ==
    /\ start[s] \in Nat /\ eta[s] \in Nat /\ tick \in Nat
    /\ Way(s) \in Int /\ AtLastUpdate(s) \in Int

LEMMA WayTypes ==
    ASSUME StoryInv, ScheduleInv, NEW s \in Shipments
    PROVE  WayFacts(s)
BY TickFacts DEF StoryInv, ReportTypes, WayFacts, Way, AtLastUpdate

LEMMA OrderShipRequest ==
    ASSUME StoryInv, ScheduleInv, DeliveryInv, OrderInv, NEW r \in Shipments,
           OnShipRequest(r), cut' = {}, EveryTick'
    PROVE  OrderInv'
<1>1. UNCHANGED <<tick, ran, cut, log, out, reached>> /\ EveryTick' = EveryTick
    BY DEF OnShipRequest, Drains, scheduleVars, EveryTick
<1>2. ran[Key] # tick
  <2>1. turn \in DOMAIN Roster /\ Roster[turn] = Transport /\ ~firing
    BY DEF OnShipRequest, Drains, Now
  <2> QED BY <2>1, TickFacts DEF DeliveryInv, RanInTurn
<1>3. ASSUME NEW s \in Shipments PROVE Ordered(s)'
  <2>1. Story(s)' = Story(s) /\ Increasing(Story(s)) /\ start[s] <= eta[s]
    BY <1>1 DEF OrderInv, Ordered, Story
  <2>2. CASE s = r
    <3>1. PICK ticks \in BaseTransit..(BaseTransit + TransitJitter) :
              eta' = [eta EXCEPT ![r] = tick + ticks]
      BY DEF OnShipRequest
    <3>2. /\ start'[s] = tick /\ eta'[s] = tick + ticks /\ ticks \in Nat
          /\ status'[s] = "in_transit" /\ s \in held' /\ status[s] = "none"
      BY <2>2, <3>1, TrackingAssumption
      DEF OnShipRequest, StoryInv, ReportTypes, TrackingAssumption
    <3>3. reached'[s] = {}
      BY <1>1, <3>2 DEF StoryInv, ToldIsRemembered
    <3>4. AtLastUpdate(s)' = -1 /\ Way(s)' = ticks /\ tick \in Nat
      BY <1>1, <1>2, <3>2, TickFacts DEF AtLastUpdate, Way
    <3>5. MarksBy(-1, ticks) = {}
      BY <3>2, MarksAtEnds
    <3>6. MarksBy(AtLastUpdate(s), Way(s))' = MarksBy(-1, ticks)
      BY <3>4 DEF MarksBy
    <3>7. start'[s] <= eta'[s]
      BY <3>2, <3>4
    <3> QED BY <2>1, <3>2, <3>3, <3>5, <3>6, <3>7 DEF Ordered
  <2>3. CASE s # r
    <3>1. /\ status'[s] = status[s] /\ eta'[s] = eta[s] /\ start'[s] = start[s]
          /\ (s \in held' <=> s \in held)
      BY <2>3 DEF OnShipRequest, StoryInv, ReportTypes
    <3>2. Way(s)' = Way(s) /\ AtLastUpdate(s)' = AtLastUpdate(s) /\ reached'[s] = reached[s]
      BY <1>1, <3>1 DEF Way, AtLastUpdate
    <3>3. MarksBy(AtLastUpdate(s), Way(s))' = MarksBy(AtLastUpdate(s), Way(s))
      BY <3>2 DEF MarksBy
    <3>4. Ordered(s)
      BY <1>1 DEF OrderInv
    <3> QED BY <1>1, <2>1, <3>1, <3>2, <3>3, <3>4 DEF Ordered
  <2> QED BY <2>2, <2>3
<1> QED BY <1>3 DEF OrderInv

LEMMA OrderUpdate ==
    ASSUME StoryInv, ScheduleInv, DeliveryInv, OrderInv, UpdateTracking,
           cut' = {}, EveryTick'
    PROVE  OrderInv'
<1>1. /\ UNCHANGED <<tick, turn, firing, cut, eta, start>> /\ EveryTick
      /\ turn \in DOMAIN Roster /\ Roster[turn] = Transport /\ "update_tracking" \in todo
    BY DEF UpdateTracking, Runs, Now, EveryTick
<1>2. ran'[Key] = tick /\ ran[Key] # tick
  <2>1. ran[Key] # tick
    BY <1>1, TickFacts DEF DeliveryInv, RanInTurn
  <2> QED BY <2>1, KeyFacts DEF UpdateTracking, Runs, Key, ScheduleInv, ScheduleTypeOK
<1>3. ASSUME NEW s \in Shipments PROVE Ordered(s)'
  <2> DEFINE e == tick - 1 - start[s]
             D == eta[s] - start[s]
  <2>1. /\ AtLastUpdate(s) = e /\ Way(s) = D /\ e \in Int /\ D \in Nat /\ e + 1 \in Int
        /\ AtLastUpdate(s)' = e + 1 /\ Way(s)' = D /\ start[s] <= eta[s]
    <3>1. Ordered(s)
      BY <1>1 DEF OrderInv
    <3> QED BY <1>1, <1>2, <3>1, WayTypes DEF Ordered, WayFacts, AtLastUpdate, Way
  <2>2. Passed(s) = MarksBy(e + 1, D)
    BY WayTypes DEF Passed, MarksBy, WayFacts
  <2>3. Arrives(s) <=> status[s] = "in_transit" /\ e + 1 >= D
    BY WayTypes DEF Arrives, WayFacts
  <2>4. status[s] = "in_transit" => e + 1 <= D
    <3>1. status[s] = "in_transit" => Overdue(s, tick)
      BY <1>1 DEF DeliveryInv, OnTime
    <3>2. status[s] = "in_transit" => eta[s] >= tick
      <4>1. eta[s] < tick => eta[s] \in eta[s]..(tick - 1)
        BY WayTypes DEF WayFacts
      <4> QED BY <1>1, <3>1, <4>1, WayTypes DEF Overdue, WayFacts
    <3> QED BY <3>2, WayTypes DEF WayFacts
  <2> HIDE DEF e, D
  <2>5. /\ Increasing(Story(s))
        /\ status[s] = "in_transit" =>
            /\ s \notin held => Range(Story(s)) = {PickedUp} \cup reached[s]
            /\ D >= 3 => reached[s] = MarksBy(e, D)
            /\ D < 3 /\ e < 1 => reached[s] = {}
        /\ status[s] = "delivered" /\ D >= 4 => Range(Story(s)) = Reports
    BY <1>1, <2>1 DEF OrderInv, Ordered
  <2>6. /\ Story(s)' = Begun(s) \o WayReport(s)
        /\ Begun(s) \in Seq(Reports) /\ WayReport(s) \in Seq(Reports)
        /\ Range(Story(s)') = Range(Begun(s)) \cup Range(WayReport(s))
        /\ Increasing(Begun(s))
    <3>1. /\ Story(s)' = Begun(s) \o WayReport(s)
          /\ Begun(s) \in Seq(Reports) /\ WayReport(s) \in Seq(Reports)
      BY UpdateFacts
    <3>2. Range(Begun(s) \o WayReport(s)) = Range(Begun(s)) \cup Range(WayReport(s))
      BY <3>1, RangeConcatenation
    <3>3. Increasing(Begun(s))
      BY <2>5, ShortStories, ReportValues DEF Begun
    <3> QED BY <3>1, <3>2, <3>3
  <2>7. status[s] = "in_transit" => Range(Begun(s)) = {PickedUp} \cup reached[s]
    BY <2>5, OneReport DEF Begun, StoryInv, ToldIsRemembered
  <2>8. /\ reached'[s] = reached[s] \cup NewMilestone(s) /\ s \notin held'
        /\ status'[s] = IF Arrives(s) THEN "delivered" ELSE status[s]
        /\ reached[s] \subseteq Milestones
        /\ MarksBy(AtLastUpdate(s), Way(s))' = MarksBy(e + 1, D)
    BY <2>1 DEF UpdateTracking, Remembered, StoryInv, ReportTypes, MarksBy
  <2>9. start'[s] <= eta'[s]
    BY <1>1, <2>1
  <2>10. CASE Arrives(s) /\ WayReport(s) = <<Delivered>>
    <3>1. Increasing(Story(s)')
      <4>1. \A x \in Range(Begun(s)) : x < Delivered
        BY <2>3, <2>7, <2>8, <2>10 DEF PickedUp, Delivered, Milestones
      <4> QED BY <2>6, <2>10, <4>1, IncreasingWithOneMore, ReportValues
    <3>2. D >= 4 => Range(Story(s)') = Reports
      <4>1. status[s] = "in_transit" /\ e = D - 1
        BY <2>1, <2>3, <2>4, <2>10
      <4>2. D >= 4 => reached[s] = Milestones
        BY <2>1, <2>5, <4>1, MarksAtEnds
      <4> QED BY <2>6, <2>7, <2>10, <4>1, <4>2, OneReport DEF Reports
    <3> QED BY <2>1, <2>8, <2>9, <2>10, <3>1, <3>2 DEF Ordered
  <2>11. CASE ~Arrives(s) /\ status[s] # "in_transit"
    <3>1. s \notin held /\ WayReport(s) = <<>>
      BY <2>11, WayReportCases DEF StoryInv, ToldIsRemembered
    <3>2. Story(s)' = Story(s)
      BY <2>6, <3>1, ReportSequences DEF Begun
    <3> QED BY <2>1, <2>5, <2>8, <2>9, <2>11, <3>2 DEF Ordered
  <2>12. CASE ~Arrives(s) /\ status[s] = "in_transit"
    <3>1. e + 1 < D /\ D \in Nat /\ e \in Int
      BY <2>1, <2>3, <2>12
    <3>2. CASE NewMilestone(s) = {} /\ WayReport(s) = <<>>
      <4>1. Unreported(s) = Passed(s) \ reached[s]
        BY <2>12 DEF Unreported
      <4>2. Story(s)' = Begun(s) /\ reached'[s] = reached[s]
        BY <2>6, <2>8, <3>2, ReportSequences
      <4>3. D >= 3 => reached[s] = MarksBy(e + 1, D)
        <5>1. ASSUME NEW m \in Passed(s) \ reached[s], D >= 3 PROVE FALSE
          <6>1. \A n \in Passed(s) \ reached[s] : n = m
            BY <2>2, <2>5, <2>12, <3>1, <5>1, OneMarkATick
          <6>2. m \in NewMilestone(s)
            BY <4>1, <5>1, <6>1 DEF NewMilestone, Passed, Milestones
          <6> QED BY <3>2, <6>2
        <5>2. D >= 3 => reached[s] = MarksBy(e, D) /\ Passed(s) \subseteq reached[s]
          BY <2>5, <2>12, <5>1
        <5>3. MarksBy(e, D) \subseteq MarksBy(e + 1, D)
          BY <3>1, MarksStay
        <5>4. ASSUME D >= 3 PROVE reached[s] = MarksBy(e + 1, D)
          <6>1. reached[s] \subseteq Passed(s) /\ Passed(s) \subseteq reached[s]
            BY <2>2, <5>2, <5>3, <5>4
          <6>2. reached[s] = Passed(s)
            BY <6>1
          <6> QED BY <2>2, <6>2
        <5> QED BY <5>4
      <4>4. D < 3 /\ e + 1 < 1 => reached[s] = {}
        BY <2>5, <2>12, <3>1
      <4> QED BY <2>1, <2>6, <2>7, <2>8, <2>9, <2>12, <4>2, <4>3, <4>4 DEF Ordered
    <3>3. ASSUME NEW m \in Milestones, WayReport(s) = <<m>>, NewMilestone(s) = {m},
                 m \in Passed(s) \ reached[s]
          PROVE  Ordered(s)'
      <4>1. \A x \in reached[s] : x < m
        <5>1. CASE D >= 3
          <6>1. m \notin MarksBy(e, D) /\ reached[s] = MarksBy(e, D)
            BY <2>5, <2>12, <3>3, <5>1
          <6> QED BY <2>8, <3>1, <6>1, MarksOrdered
        <5>2. CASE D < 3
          <6>1. ASSUME e >= 1 PROVE FALSE
            BY <3>1, <5>2, <6>1
          <6> QED BY <2>5, <2>12, <3>1, <5>2, <6>1
        <5> QED BY <3>1, <5>1, <5>2
      <4>2. \A x \in Range(Begun(s)) : x < m
        BY <2>7, <2>12, <4>1 DEF PickedUp, Milestones
      <4>3. Increasing(Story(s)')
        BY <2>6, <3>3, <4>2, IncreasingWithOneMore, ReportValues
      <4>4. Range(Story(s)') = {PickedUp} \cup reached'[s]
        BY <2>6, <2>7, <2>8, <2>12, <3>3, OneReport
      <4>5. D >= 3 => reached'[s] = MarksBy(e + 1, D)
        <5>1. ASSUME D >= 3 PROVE MarksBy(e + 1, D) \subseteq MarksBy(e, D) \cup {m}
          BY <2>2, <2>5, <2>12, <3>1, <3>3, <5>1, OneMarkATick
        <5> QED BY <2>2, <2>5, <2>8, <2>12, <3>1, <3>3, <5>1, MarksStay
      <4>6. ~(e + 1 < 1)
        <5>1. e + 1 < 0 => MarksBy(e + 1, D) = {}
          BY <3>1, MarksAtEnds
        <5>2. e + 1 = 0 => ~(100 * (e + 1) >= m * D)
          BY <3>1, <3>3 DEF Milestones
        <5> QED BY <2>2, <3>1, <3>3, <5>1, <5>2 DEF MarksBy
      <4> QED BY <2>1, <2>8, <2>9, <2>12, <4>3, <4>4, <4>5, <4>6 DEF Ordered
    <3> QED BY <2>12, <3>2, <3>3, WayReportCases
  <2> QED BY <2>10, <2>11, <2>12, WayReportCases
<1> QED BY <1>3 DEF OrderInv

LEMMA OrderTurns ==
    ASSUME ScheduleInv, OrderInv, NEW a \in Agents, OthersRun(a) \/ TurnGoesOn(a)
    PROVE  OrderInv'
<1>1. UNCHANGED <<tick, cut, trackingVars>> /\ EveryTick' = EveryTick
    BY DEF OthersRun, TurnGoesOn, Runs, MarkDue, EndTurn, EveryTick
<1>2. ran'[Key] = ran[Key]
    BY OthersKeepKey
<1>3. ASSUME NEW s \in Shipments, Ordered(s) PROVE Ordered(s)'
  <2>1. Way(s)' = Way(s) /\ AtLastUpdate(s)' = AtLastUpdate(s) /\ Story(s)' = Story(s)
    BY <1>1, <1>2 DEF trackingVars, Way, AtLastUpdate, Story
  <2>2. MarksBy(AtLastUpdate(s), Way(s))' = MarksBy(AtLastUpdate(s), Way(s))
    BY <2>1 DEF MarksBy
  <2> QED BY <1>1, <1>3, <2>1, <2>2 DEF trackingVars, Ordered
<1> QED BY <1>1, <1>3 DEF OrderInv

LEMMA OrderNextTick ==
    ASSUME StoryInv, ScheduleInv, OrderInv, Route \/ CutShort, cut' = {}, EveryTick'
    PROVE  OrderInv'
<1>1. Route
  <2>1. CutShort => tick \in cut'
    BY DEF CutShort, Abort
  <2> QED BY <2>1
<1>2. /\ tick' = tick + 1 /\ ran' = ran /\ cut' = cut /\ EveryTick' = EveryTick
      /\ UNCHANGED <<status, start, eta, reached, held>> /\ turn = Len(Roster) + 1
    BY <1>1 DEF Route, EndTick, NextTick, EveryTick
<1>3. ran[Key] = tick
    BY <1>2, RunsInEveryTick
<1>4. ASSUME NEW s \in Shipments PROVE Ordered(s)'
  <2>1. Story(s)' = Story(s)
    BY <1>1, StoryNextTick DEF ScheduleInv
  <2>2. Way(s)' = Way(s) /\ AtLastUpdate(s)' = AtLastUpdate(s)
    BY <1>2, <1>3, TickFacts DEF Way, AtLastUpdate
  <2>3. MarksBy(AtLastUpdate(s), Way(s))' = MarksBy(AtLastUpdate(s), Way(s))
    BY <2>2 DEF MarksBy
  <2>4. Ordered(s)
    BY <1>2 DEF OrderInv
  <2> QED BY <1>2, <2>1, <2>2, <2>3, <2>4 DEF Ordered
<1> QED BY <1>4 DEF OrderInv

LEMMA OrderHolds == Spec => []OrderInv
<1>1. StoryInv /\ ScheduleInv /\ DeliveryInv /\ OrderInv /\ [Next]_vars => OrderInv'
  <2> SUFFICES ASSUME StoryInv, ScheduleInv, DeliveryInv, OrderInv, [Next]_vars,
                      cut' = {}, EveryTick'
               PROVE  OrderInv'
    BY DEF OrderInv
  <2>1. CASE UNCHANGED vars
    <3>1. /\ UNCHANGED <<tick, ran, cut, trackingVars>> /\ EveryTick' = EveryTick
      BY <2>1 DEF vars, scheduleVars, EveryTick
    <3>2. ASSUME NEW s \in Shipments, Ordered(s) PROVE Ordered(s)'
      <4>1. /\ Way(s)' = Way(s) /\ AtLastUpdate(s)' = AtLastUpdate(s)
            /\ Story(s)' = Story(s)
        BY <3>1 DEF trackingVars, Way, AtLastUpdate, Story
      <4>2. MarksBy(AtLastUpdate(s), Way(s))' = MarksBy(AtLastUpdate(s), Way(s))
        BY <4>1 DEF MarksBy
      <4> QED BY <3>1, <3>2, <4>1, <4>2 DEF trackingVars, Ordered
    <3> QED BY <3>1, <3>2 DEF OrderInv
  <2> QED BY <2>1, OrderShipRequest, OrderUpdate, OrderTurns, OrderNextTick DEF Next
<1> QED BY <1>1, OrderInit, StoryHolds, ScheduleHolds, DeliveryHolds, PTL DEF Spec

(* With an update in every tick and no exception the milestones come in    *)
(* the order of the way, and four ticks are enough for all of them.        *)
THEOREM StoriesAreInOrder == Spec => []StoryInOrder
<1>1. StoryInv /\ ScheduleInv /\ OrderInv => StoryInOrder
  <2> SUFFICES ASSUME StoryInv, ScheduleInv, OrderInv, cut = {}, EveryTick,
                      NEW s \in Shipments
               PROVE  /\ Increasing(Story(s))
                      /\ status[s] = "delivered" /\ Way(s) >= 4 =>
                            {Story(s)[i] : i \in DOMAIN Story(s)} = Reports
    BY DEF StoryInOrder, Increasing, Way
  <2>1. Ordered(s)
    BY DEF OrderInv
  <2> QED BY <2>1 DEF Ordered, Range
<1> QED BY <1>1, StoryHolds, ScheduleHolds, OrderHolds, PTL
=============================================================================
