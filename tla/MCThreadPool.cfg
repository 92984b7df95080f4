SPECIFICATION MCSpec
CONSTANTS
    Worker = {w1, w2}
    Client = {c1, c2}
    Owner = c1
    Task = {k1, k2, k3}
    Endless = {}
    NoTask = NoTask
    Capacity = 1
    MaxThrows = 1
INVARIANTS EveryTaskOnce CompletedAtMostSubmitted DrainedAtReturn FailedConstructionEnds
PROPERTIES IsTaskPool
CHECK_DEADLOCK FALSE
