SPECIFICATION MCSpec
CONSTANTS
    Stream = {"up", "down"}
    Base = 2
    Payload <- MCPayload
    MaxPayload = 2
    Answer <- MCAnswer
    TooLarge <- MCTooLarge
    Addresses = 2
    ConnectTimeout = 2
    MaxRequests = 2
    Window = 2
    MaxKey = 4
    MaxText = 8
    Symbol = {"SET", "DEL", "PING", "k", "!", " ", "vt", "nul"}
    MaxSymbols = 6
INVARIANTS TypeOK InStep AnswersMatch CutRequestNotExecuted
INVARIANTS ParserMatchesGrammar StoredCanBeReplayedAndRead
PROPERTIES IsFrameChannel RequestReturns
CHECK_DEADLOCK FALSE
