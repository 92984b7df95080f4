SPECIFICATION MCSpec
CONSTANTS
    Worker = {w1}
    Client = {c1, c2}
    Owner = c1
    Task = {k1, k2, k3}
    Endless = {k1}
    NoTask = NoTask
    Capacity = 1
    MaxThrows = 1
PROPERTIES ShutdownReturns AcceptedRuns ShutdownReleasesSubmit
CHECK_DEADLOCK FALSE
