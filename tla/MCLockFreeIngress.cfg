SPECIFICATION MCSpec
CONSTANTS
    Thread = {t1, t2, t3}
    Value = {a, b}
    NoValue = NoValue
    Capacity = 2
    Weak = TRUE
    MaxPushes = 4
    Solo = t1
SYMMETRY Symmetry
INVARIANTS OneOwnerPerCell TakenAsPushed
