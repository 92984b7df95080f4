SPECIFICATION MCSpec
CONSTANTS
    Thread = {t1, t2}
    Key = {x, y}
    Value = {v1, v2}
    Absent = Absent
    NoKey = NoKey
    FsyncLinks = FALSE
    MaxLog = 2
SYMMETRY Symmetry
INVARIANT AckedDurable
