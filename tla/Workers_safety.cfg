SPECIFICATION Spec
CONSTANTS
    Worker = {w1, w2}
    Job = {j1, j2}
    Query = {q1, q2}
    Net = {net}
    Main = main
INVARIANT ShutdownSafe
PROPERTIES
    FlushIsBarrier
    ImplementsFifo
    WorkDone
