SPECIFICATION MCStatsSpec
CONSTANTS
    Worker = {w1, w2}
    Client = {c1}
    Owner = c1
    Task = {k1, k2, k3}
    NoTask = NoTask
    Capacity = 1
    MaxThrows = 0
INVARIANT StatsNeverAhead
CHECK_DEADLOCK FALSE
