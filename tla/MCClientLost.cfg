CONSTANTS
    a = a
    Clients = {a}
    Servers <- AllServers
    BaseVersions <- AnyBase
    MaxCommands = 2
    Garbage = Garbage
SPECIFICATION Spec
CHECK_DEADLOCK FALSE
PROPERTY TimeoutMeansNoAnswer
