SPECIFICATION Spec
CONSTANTS
    m1 = m1
    m2 = m2
    m3 = m3
    m4 = m4
    m5 = m5
    m6 = m6
    x1 = x1
    food = food
    tech = tech
    Members <- SixMembers
    Sharers = {m1, m2, x1}
    Present = {m1, m3}
    Topics = {food, tech}
    AvgDegree = 3
    MaxHops = 2
    MaxActivations = 2
    InitialWeights = {1}
    Delta = 1
    MaxWeight = 2
    One = 2
    Neutral = 2
    Boost = 2
    TrendMax = 4
    Decay <- OneStepDown
    MaxQueue = 3
INVARIANTS
    TypeOK
    CascadeIsForest
    TrendsFade
PROPERTIES
    InfluenceIsEarned
