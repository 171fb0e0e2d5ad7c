\* Two items, times up to two.
SPECIFICATION Spec
CONSTANTS
    lit = lit
    unlit = unlit
    stump = stump
    splash = splash
    Item = {i1, i2}
    Type = {lit, unlit, stump, splash}
    decayTime <- DecayTime
    decayTo <- DecayTo
    stopTime = {unlit}
    Vanish = Vanish
    Never = Never
    None = None
    MaxDuration = 2
    MinInterval = 1
INVARIANTS
    TypeOK
    ScheduleExact
PROPERTIES
    NoTimeGained
    DueIsServed
