--------------------------- MODULE ScheduleProofs ---------------------------
(***************************************************************************)
(* Proofs about Schedule, for every roster, cycle and jitter: recurring    *)
(* actions skip a turn or lose their work only in ticks an exception has   *)
(* cut short, and until then every action is a countdown.                  *)
(***************************************************************************)
EXTENDS Schedule, TLAPS

(* Everything that was due is marked for the agents whose turn is over or  *)
(* who are running their handlers.                                         *)
Marked ==
    \A i \in DOMAIN Roster : i < turn \/ (i = turn /\ firing) =>
        \A k \in Recurring : k[1] = Roster[i] =>
            lastFired[k] = tick \/ DueTick(k) > tick

(* What has still to run was marked in this tick.                          *)
ToRunIsMarked ==
    firing => \A x \in todo : lastFired[<<Roster[turn], x>>] = tick

ScheduleInv ==
    /\ ScheduleTypeOK
    /\ \A k \in Recurring : lastFired[k] <= tick
    /\ Marked /\ ToRunIsMarked
    /\ OnSchedule
-----------------------------------------------------------------------------
LEMMA RosterFacts ==
    /\ Len(Roster) \in Nat /\ DOMAIN Roster = 1..Len(Roster)
    /\ \A i, j \in DOMAIN Roster : Roster[i] = Roster[j] => i = j
    /\ \A i \in DOMAIN Roster : Roster[i] \in Agents
    /\ \A a \in Agents : \E i \in DOMAIN Roster : Roster[i] = a
BY ScheduleAssumption DEF ScheduleAssumption, Agents

LEMMA RecurringFacts ==
    \A k \in Recurring :
        /\ k[1] \in Agents /\ k[2] \in Actions /\ k[2] \in ActionsOf(k[1])
        /\ k = <<k[1], k[2]>> /\ CycleTicks[k[2]] \in Nat
<1> SUFFICES ASSUME NEW k \in Recurring
             PROVE  /\ k[1] \in Agents /\ k[2] \in Actions /\ k[2] \in ActionsOf(k[1])
                    /\ k = <<k[1], k[2]>> /\ CycleTicks[k[2]] \in Nat
    OBVIOUS
<1>1. PICK a \in Agents : k \in {a} \X ActionsOf(a)
    BY DEF Recurring
<1>2. k[1] = a /\ k[2] \in ActionsOf(a) /\ k = <<k[1], k[2]>>
    BY <1>1
<1>3. k[2] \in Actions
    BY <1>2 DEF Actions
<1> QED BY <1>2, <1>3, ScheduleAssumption DEF ScheduleAssumption

LEMMA KeyIsRecurring ==
    ASSUME NEW a \in Agents, NEW x \in ActionsOf(a)
    PROVE  <<a, x>> \in Recurring
BY DEF Recurring, Actions

(* The number of aborts is only a bound; a tick is a number.               *)
LEMMA DueTickIsInt ==
    ASSUME ScheduleTypeOK, NEW k \in Recurring
    PROVE  DueTick(k) \in Int /\ lastFired[k] \in Int /\ ran[k] \in Int /\ tick \in Nat
BY RecurringFacts, ScheduleAssumption DEF ScheduleTypeOK, DueTick, ScheduleAssumption

LEMMA ScheduleInitInv == ScheduleInit => ScheduleInv
<1> SUFFICES ASSUME ScheduleInit PROVE ScheduleInv
    OBVIOUS
<1>1. offset \in [Recurring -> Int]
  <2>1. \A x \in Actions : (-Jitter[x])..Jitter[x] \subseteq Int
    BY ScheduleAssumption DEF ScheduleAssumption
  <2>2. UNION {(-Jitter[x])..Jitter[x] : x \in Actions} \subseteq Int
    BY <2>1
  <2> QED BY <2>2 DEF ScheduleInit
<1>2. /\ lastFired \in [Recurring -> Int] /\ ran \in [Recurring -> Int]
      /\ \A k \in Recurring : lastFired[k] <= tick
    BY RecurringFacts DEF ScheduleInit
<1>3. ScheduleTypeOK
  <2>1. tick \in 1..MaxTick /\ turn \in 1..(Len(Roster) + 1) /\ cut \subseteq 1..(tick - 1)
    BY RosterFacts, ScheduleAssumption DEF ScheduleInit, ScheduleAssumption
  <2>2. ~firing /\ firing \in BOOLEAN /\ todo = {}
    BY DEF ScheduleInit
  <2> QED BY <1>1, <1>2, <2>1, <2>2 DEF ScheduleTypeOK
<1>4. Marked /\ ToRunIsMarked
    BY RosterFacts DEF ScheduleInit, Marked, ToRunIsMarked
<1>5. OnSchedule
    BY DEF ScheduleInit, OnSchedule, OverdueOnlyByFaults, DroppedOnlyByFaults
<1> QED BY <1>2, <1>3, <1>4, <1>5 DEF ScheduleInv
-----------------------------------------------------------------------------
LEMMA MarkDueInv ==
    ASSUME ScheduleInv, NEW a \in Agents, MarkDue(a)
    PROVE  ScheduleInv'
<1> USE DEF ScheduleInv
<1>1. /\ turn \in DOMAIN Roster /\ Roster[turn] = a /\ ~firing /\ firing'
      /\ tick' = tick /\ turn' = turn /\ offset' = offset /\ ran' = ran /\ cut' = cut
      /\ tick \in Nat
    BY ScheduleAssumption DEF MarkDue, Now, ScheduleTypeOK
<1>2. \A k \in Recurring :
        lastFired'[k] = IF k[1] = a /\ DueTick(k) <= tick THEN tick ELSE lastFired[k]
    BY DEF MarkDue, Due, FiredNow
<1>3. todo' = {x \in ActionsOf(a) : DueTick(<<a, x>>) <= tick}
    BY DEF MarkDue, Due
<1>4. ScheduleTypeOK'
  <2>1. lastFired' \in [Recurring -> Int]
    BY <1>1 DEF MarkDue, FiredNow, ScheduleTypeOK
  <2> QED BY <1>1, <1>3, <2>1 DEF ScheduleTypeOK
<1>5. \A k \in Recurring : lastFired'[k] <= tick'
    BY <1>1, <1>2
<1>6. \A k \in Recurring :
        lastFired'[k] = tick \/ (lastFired'[k] = lastFired[k] /\ DueTick(k)' = DueTick(k))
    BY <1>1, <1>2 DEF DueTick
<1>7. Marked'
  <2> SUFFICES ASSUME NEW i \in DOMAIN Roster, i <= turn,
                      NEW k \in Recurring, k[1] = Roster[i]
               PROVE  lastFired'[k] = tick \/ DueTick(k)' > tick
    BY <1>1, RosterFacts DEF Marked
  <2>1. CASE i = turn
    <3>1. DueTick(k) \in Int
      BY DueTickIsInt
    <3> QED BY <1>1, <1>2, <1>6, <2>1, <3>1
  <2>2. CASE i < turn
    BY <1>6, <2>2 DEF Marked
  <2> QED BY <2>1, <2>2, <1>1, RosterFacts
<1>8. ToRunIsMarked'
    BY <1>1, <1>2, <1>3, KeyIsRecurring DEF ToRunIsMarked
<1>9. OverdueOnlyByFaults'
    BY <1>1, <1>6 DEF OnSchedule, OverdueOnlyByFaults
<1>10. DroppedOnlyByFaults'
  <2> SUFFICES ASSUME NEW k \in Recurring, ran[k] # lastFired'[k]
               PROVE  \/ lastFired'[k] \in cut
                      \/ lastFired'[k] = tick /\ k[1] = Roster[turn] /\ k[2] \in todo'
    BY <1>1 DEF DroppedOnlyByFaults
  <2>1. CASE k[1] = a /\ DueTick(k) <= tick
    BY <1>1, <1>2, <1>3, <2>1, RecurringFacts
  <2>2. CASE ~(k[1] = a /\ DueTick(k) <= tick)
    BY <1>1, <1>2, <2>2 DEF OnSchedule, DroppedOnlyByFaults
  <2> QED BY <2>1, <2>2
<1> QED BY <1>4, <1>5, <1>7, <1>8, <1>9, <1>10 DEF OnSchedule

LEMMA RunsInv ==
    ASSUME ScheduleInv, NEW a \in Agents, NEW x \in ActionsOf(a), Runs(a, x)
    PROVE  ScheduleInv'
<1> USE DEF ScheduleInv
<1>1. /\ turn \in DOMAIN Roster /\ Roster[turn] = a /\ firing
      /\ tick' = tick /\ turn' = turn /\ firing' = firing
      /\ lastFired' = lastFired /\ offset' = offset /\ cut' = cut
      /\ todo' = todo \ {x} /\ x \in todo
      /\ ran' = [ran EXCEPT ![<<a, x>>] = tick]
      /\ tick \in Nat
    BY DEF Runs, Now, ScheduleTypeOK
<1>2. ScheduleTypeOK'
    BY <1>1, KeyIsRecurring DEF ScheduleTypeOK
<1>3. Marked' /\ ToRunIsMarked'
    BY <1>1 DEF Marked, ToRunIsMarked, DueTick
<1>4. OverdueOnlyByFaults'
    BY <1>1 DEF OnSchedule, OverdueOnlyByFaults, DueTick
<1>5. DroppedOnlyByFaults'
  <2> SUFFICES ASSUME NEW k \in Recurring, ran'[k] # lastFired[k]
               PROVE  \/ lastFired[k] \in cut
                      \/ lastFired[k] = tick /\ k[1] = Roster[turn] /\ k[2] \in todo \ {x}
    BY <1>1 DEF DroppedOnlyByFaults
  <2>1. ran'[k] = IF k = <<a, x>> THEN tick ELSE ran[k]
    BY <1>1 DEF ScheduleTypeOK
  <2>2. k # <<a, x>>
    BY <1>1, <2>1 DEF ToRunIsMarked
  <2>3. k[1] = Roster[turn] => k[2] # x
    BY <1>1, <2>2, RecurringFacts
  <2> QED BY <1>1, <2>1, <2>2, <2>3 DEF OnSchedule, DroppedOnlyByFaults
<1> QED BY <1>1, <1>2, <1>3, <1>4, <1>5 DEF OnSchedule

LEMMA EndTurnInv ==
    ASSUME ScheduleInv, NEW a \in Agents, EndTurn(a)
    PROVE  ScheduleInv'
<1> USE DEF ScheduleInv
<1>1. /\ turn \in DOMAIN Roster /\ firing /\ todo = {} /\ turn \in Nat
      /\ turn' = turn + 1 /\ ~firing' /\ todo' = todo
      /\ tick' = tick /\ lastFired' = lastFired /\ offset' = offset
      /\ ran' = ran /\ cut' = cut
    BY RosterFacts DEF EndTurn, Now, ScheduleTypeOK
<1>2. ScheduleTypeOK'
  <2>1. turn' \in 1..(Len(Roster) + 1)
    BY <1>1, RosterFacts
  <2>2. firing' \in BOOLEAN
    BY DEF EndTurn
  <2> QED BY <1>1, <2>1, <2>2 DEF ScheduleTypeOK
<1>3. Marked' /\ ToRunIsMarked'
  <2>1. \A i \in DOMAIN Roster : i < turn' => i < turn \/ (i = turn /\ firing)
    BY <1>1, RosterFacts
  <2> QED BY <1>1, <2>1 DEF Marked, ToRunIsMarked, DueTick
<1>4. OnSchedule'
    BY <1>1 DEF OnSchedule, OverdueOnlyByFaults, DroppedOnlyByFaults, DueTick
<1> QED BY <1>1, <1>2, <1>3, <1>4

(* What a tick leaves overdue when it ends: nothing, or it was cut short.  *)
LEMMA NextTickInv ==
    ASSUME ScheduleInv, NextTick, tick < MaxTick,
           UNCHANGED <<lastFired, offset, ran>>,
           \/ turn = Len(Roster) + 1 /\ cut' = cut
           \/ cut' = cut \cup {tick}
    PROVE  ScheduleInv'
<1> USE DEF ScheduleInv
<1>1. /\ tick' = tick + 1 /\ turn' = 1 /\ ~firing' /\ todo' = {} /\ tick \in Nat
      /\ tick \in 1..MaxTick /\ MaxTick \in Nat /\ cut \subseteq cut'
    BY ScheduleAssumption DEF NextTick, ScheduleTypeOK, ScheduleAssumption
<1>2. cut \subseteq 1..(tick - 1)
    BY DEF ScheduleTypeOK
<1>3. ScheduleTypeOK'
  <2>1. cut' \subseteq 1..(tick' - 1)
    BY <1>1, <1>2
  <2>2. tick' \in 1..MaxTick /\ turn' \in 1..(Len(Roster) + 1)
    BY <1>1, RosterFacts
  <2>3. firing' \in BOOLEAN
    BY DEF NextTick
  <2> QED BY <1>1, <2>1, <2>2, <2>3 DEF ScheduleTypeOK
<1>4. \A k \in Recurring : lastFired'[k] <= tick'
    BY <1>1, DueTickIsInt
<1>5. Marked' /\ ToRunIsMarked'
    BY <1>1, RosterFacts DEF Marked, ToRunIsMarked
<1>6. OverdueOnlyByFaults'
  <2> SUFFICES ASSUME NEW k \in Recurring, NEW t \in 1..(tick' - 1),
                      DueTick(k) <= t, lastFired[k] < t
               PROVE  t \in cut'
    BY DEF OverdueOnlyByFaults, DueTick
  <2>1. CASE t < tick
    BY <1>1, <2>1 DEF OnSchedule, OverdueOnlyByFaults
  <2>2. CASE t = tick /\ tick \notin cut'
    <3>1. turn = Len(Roster) + 1
      BY <2>2
    <3>2. PICK i \in DOMAIN Roster : Roster[i] = k[1]
      BY RosterFacts, RecurringFacts
    <3>3. lastFired[k] = tick \/ DueTick(k) > tick
      BY <3>1, <3>2, RosterFacts DEF Marked
    <3> QED BY <2>2, <3>3, DueTickIsInt
  <2> QED BY <1>1, <2>1, <2>2
<1>7. DroppedOnlyByFaults'
  <2> SUFFICES ASSUME NEW k \in Recurring, ran[k] # lastFired[k]
               PROVE  lastFired[k] \in cut'
    BY DEF DroppedOnlyByFaults
  <2>1. CASE lastFired[k] \in cut
    BY <1>1, <2>1
  <2>2. CASE lastFired[k] = tick /\ firing
    <3>1. turn # Len(Roster) + 1
      BY <2>2, RosterFacts DEF ScheduleTypeOK
    <3> QED BY <2>2, <3>1
  <2> QED BY <2>1, <2>2 DEF OnSchedule, DroppedOnlyByFaults
<1> QED BY <1>3, <1>4, <1>5, <1>6, <1>7 DEF OnSchedule

LEMMA ScheduleStepInv == ScheduleInv /\ [ScheduleNext]_scheduleVars => ScheduleInv'
<1> SUFFICES ASSUME ScheduleInv, [ScheduleNext]_scheduleVars PROVE ScheduleInv'
    OBVIOUS
<1>1. ASSUME NEW a \in Agents, MarkDue(a) PROVE ScheduleInv'
    BY <1>1, MarkDueInv
<1>2. ASSUME NEW a \in Agents, EndTurn(a) PROVE ScheduleInv'
    BY <1>2, EndTurnInv
<1>3. ASSUME NEW a \in Agents, NEW x \in ActionsOf(a), Runs(a, x) PROVE ScheduleInv'
    BY <1>3, RunsInv
<1>4. CASE EndTick
    BY <1>4, NextTickInv DEF EndTick
<1>5. CASE Abort
    BY <1>5, NextTickInv DEF Abort
<1>6. CASE UNCHANGED scheduleVars
    BY <1>6 DEF scheduleVars, ScheduleInv, ScheduleTypeOK, Marked, ToRunIsMarked,
        OnSchedule, OverdueOnlyByFaults, DroppedOnlyByFaults, DueTick
<1> QED BY <1>1, <1>2, <1>3, <1>4, <1>5, <1>6 DEF ScheduleNext

LEMMA ScheduleInductive == ScheduleSpec => []ScheduleInv
BY ScheduleInitInv, ScheduleStepInv, PTL DEF ScheduleSpec

(* For every roster, cycles and jitters: a recurring action skips a turn   *)
(* or loses the work of its handler only in ticks an exception cut short.  *)
THEOREM RunsOnSchedule == ScheduleSpec => []OnSchedule
<1>1. ScheduleInv => OnSchedule
    BY DEF ScheduleInv
<1> QED BY <1>1, ScheduleInductive, PTL
-----------------------------------------------------------------------------
LEMMA CountdownInit == ScheduleInit => Beats!StartsCounting
<1> SUFFICES ASSUME ScheduleInit PROVE Beats!StartsCounting
    OBVIOUS
<1>1. ScheduleTypeOK
    BY ScheduleInitInv DEF ScheduleInv
<1>2. ASSUME NEW k \in Recurring
      PROVE  /\ NotNegative(DueTick(k) - tick) \in Nat
             /\ NotNegative(CycleTicks[k[2]] + offset[k]) \in Nat
  <2>1. DueTick(k) - tick \in Int /\ CycleTicks[k[2]] + offset[k] \in Int
    BY <1>1, DueTickIsInt, RecurringFacts DEF ScheduleTypeOK
  <2> QED BY <2>1 DEF NotNegative
<1> QED BY <1>2 DEF Beats!StartsCounting

LEMMA CountdownStep ==
    ASSUME ScheduleInv, [ScheduleNext]_scheduleVars, cut' = {}
    PROVE  Beats!Fire \/ Beats!TickPasses \/ UNCHANGED Beats!countdownVars
<1> DEFINE wait(k) == NotNegative(DueTick(k) - tick)
           gap(k) == NotNegative(CycleTicks[k[2]] + offset[k])
<1> USE DEF ScheduleInv
<1>1. ASSUME NEW k \in Recurring
      PROVE  /\ DueTick(k) \in Int /\ lastFired[k] \in Int /\ tick \in Int
             /\ CycleTicks[k[2]] + offset[k] \in Int
    BY DueTickIsInt, RecurringFacts DEF ScheduleTypeOK
<1>2. ASSUME UNCHANGED <<tick, lastFired, offset>>
      PROVE  UNCHANGED Beats!countdownVars
    BY <1>2 DEF Beats!countdownVars, DueTick
<1>3. ASSUME NEW a \in Agents, MarkDue(a) PROVE Beats!Fire
  <2>1. tick' = tick /\ offset' = offset
    BY <1>3 DEF MarkDue
  <2> DEFINE due == {k \in Recurring : k[1] = a /\ Due(k)}
  <2>2. \A k \in due : wait(k) = 0
    BY <1>1 DEF Due, NotNegative
  <2>3. ASSUME NEW k \in Recurring
        PROVE  NotNegative(DueTick(k)' - tick') = IF k \in due THEN gap(k) ELSE wait(k)
    <3>1. lastFired'[k] = IF k \in due THEN tick ELSE lastFired[k]
      BY <1>3 DEF MarkDue, FiredNow
    <3>2. DueTick(k)' - tick' =
            IF k \in due THEN CycleTicks[k[2]] + offset[k] ELSE DueTick(k) - tick
      BY <1>1, <2>1, <3>1, RecurringFacts DEF DueTick, ScheduleTypeOK
    <3> QED BY <3>2
  <2> QED BY <2>1, <2>2, <2>3 DEF Beats!Fire
<1>4. ASSUME EndTick PROVE Beats!TickPasses
  <2>1. tick' = tick + 1 /\ UNCHANGED <<lastFired, offset>> /\ turn = Len(Roster) + 1
    BY <1>4 DEF EndTick, NextTick
  <2>2. ASSUME NEW k \in Recurring, wait(k) = 0 PROVE gap(k) = 0
    <3>1. PICK i \in DOMAIN Roster : Roster[i] = k[1]
      BY RosterFacts, RecurringFacts
    <3>2. lastFired[k] = tick \/ DueTick(k) > tick
      BY <2>1, <3>1, RosterFacts DEF Marked
    <3>3. DueTick(k) <= tick
      BY <1>1, <2>2 DEF NotNegative
    <3>4. CycleTicks[k[2]] + offset[k] <= 0
      BY <1>1, <3>2, <3>3, RecurringFacts DEF DueTick, ScheduleTypeOK
    <3> QED BY <1>1, <3>4 DEF NotNegative
  <2>3. ASSUME NEW k \in Recurring
        PROVE  NotNegative(DueTick(k)' - tick') = IF wait(k) > 0 THEN wait(k) - 1 ELSE 0
    <3>1. DueTick(k)' = DueTick(k)
      BY <2>1 DEF DueTick
    <3> QED BY <1>1, <2>1, <3>1 DEF NotNegative
  <2> QED BY <2>1, <2>2, <2>3 DEF Beats!TickPasses
<1>5. ~Abort
    BY DEF Abort
<1>6. ASSUME NEW a \in Agents, NEW x \in ActionsOf(a), Runs(a, x) \/ EndTurn(a)
      PROVE  UNCHANGED <<tick, lastFired, offset>>
    BY <1>6 DEF Runs, EndTurn
<1>7. ASSUME NEW a \in Agents, EndTurn(a) PROVE UNCHANGED <<tick, lastFired, offset>>
    BY <1>7 DEF EndTurn
<1>8. CASE UNCHANGED scheduleVars
    BY <1>2, <1>8 DEF scheduleVars
<1> QED BY <1>2, <1>3, <1>4, <1>5, <1>6, <1>7, <1>8 DEF ScheduleNext

(* For every roster, cycles and jitters: until an exception each action    *)
(* counts down its own constant gap, as the order and restock models       *)
(* assume of theirs.                                                       *)
THEOREM ScheduleCountsDown == ScheduleSpec => IsCountdown
<1>1. ScheduleInv /\ [ScheduleNext]_scheduleVars =>
        [cut' = {} => Beats!Fire \/ Beats!TickPasses]_(Beats!countdownVars)
    BY CountdownStep
<1> QED BY <1>1, CountdownInit, ScheduleInductive, PTL DEF ScheduleSpec, IsCountdown
=============================================================================
