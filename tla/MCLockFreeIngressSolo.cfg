SPECIFICATION SoloSpec
CONSTANTS
    Thread = {t1, t2, t3}
    Value = {a}
    NoValue = NoValue
    Capacity = 2
    Weak = FALSE
    MaxPushes = 3
    Solo = t1
PROPERTIES NeverWaits
