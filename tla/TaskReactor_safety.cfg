\* Two threads, two tasks, inboxes of two, one task per cycle; runLoop may return.
SPECIFICATION FairSpec
CONSTANTS
    Producer = {p1, p2}
    MaxInbox = 2
    MaxTasksPerCycle = 1
    MaxSequence = 2
    Horizon = 1
CHECK_DEADLOCK FALSE
INVARIANTS
    TypeOK
    RunsAtMostOnce
    CancelsExact
PROPERTIES
    NoOvertaking
    NoSilentDrop
    EveryTaskServed
