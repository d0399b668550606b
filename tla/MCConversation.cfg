SPECIFICATION FairSpec
CONSTANTS
    Keys = {k1, k2}
    Bodies = {b1, b2}
    Sources = {s1}
    Clients = {c1, c2}
    None = None
    Disturbances = {"write", "mark", "crash", "acknowledgement"}
    MaxFaults = 1
INVARIANTS
    OneAnswerInProgress
    AnswerStoredWhole
    CitationsResolve
PROPERTIES
    ImplementsConversationLog
    NewMessagesAtEnd
    SettledKeyIsSpent
    PendingTurnSettles
CHECK_DEADLOCK FALSE
