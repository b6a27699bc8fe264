CONSTANTS
    Servers <- MCServers
    PortLists <- MCPortLists
    Uris <- MCUris
    CallData <- MCCallData
    CallResp <- MCCallResp
SPECIFICATION Spec
INVARIANTS
    AskedIsMeant
    TakenIsDone
    PacketsMatch
    EnumeratedIsOpened
