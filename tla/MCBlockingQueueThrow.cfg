SPECIFICATION MCSpec
CONSTANTS
    Thread = {t1, t2, t3}
    Value = {a, b, c}
    Capacity = 1
    NoValue = NoValue
    MaxThrows = 1
PROPERTIES ProducersWaitForRoom
