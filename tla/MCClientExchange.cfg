CONSTANTS
    a = a
    Clients = {a}
    Servers <- AllServers
    BaseVersions <- AnyBase
    MaxCommands = 2
    Garbage = Garbage
SPECIFICATION FairSpec
CHECK_DEADLOCK FALSE
INVARIANTS
    TypeOK
    AnswerIsOwn
    ConnectionsAccounted
    TimeoutTriedAll
    NegotiationSettles
PROPERTIES
    AnswerTaken
    CallsReturn
