SPECIFICATION MCSpec
CONSTANTS
    Thread = {t1, t2}
    Key = {x, y}
    Value = {v1, v2}
    Absent = Absent
    NoKey = NoKey
    FsyncLinks = TRUE
    MaxLog = 3
SYMMETRY Symmetry
INVARIANTS TypeOK AckedDurable StoreReflectsLog TornTailIsLast UnappliedUnanswered
PROPERTIES DurableRecordsStay
