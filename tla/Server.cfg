SPECIFICATION Spec
CONSTANTS
    Conn = {c1, c2, c3, c4}
    Worker = {w1, w2}
    Capacity = 1
    Addresses = 2
    NoConn = NoConn
INVARIANTS OneOwner BacklogBounded NothingLeft
PROPERTIES ProcessEnds
CHECK_DEADLOCK FALSE
