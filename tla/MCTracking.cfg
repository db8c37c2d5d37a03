SPECIFICATION Spec
CONSTANTS
    tr = tr
    s1 = s1
    Roster <- TwoAgents
    Plan <- Lists
    CycleTicks <- Cycles
    Jitter <- Jitters
    MaxTick = 8
    MaxAborts = 2
    Transport = tr
    Shipments = {h1}
    BaseTransit = 0
    TransitJitter = 6
CHECK_DEADLOCK FALSE
INVARIANTS
    TypeOK
    OnSchedule
    StoryIsSound
    StoryInOrder
    DeliveryIsTold
PROPERTIES
    IsCountdown
