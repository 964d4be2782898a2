\* A chat and a subagent over one host, one scheduler and one plan.
SPECIFICATION Spec
CONSTANTS
    chat = chat
    sub = sub
    Chats <- MCChats
    Subagents <- MCSubagents
    Repertoires <- MCRepertoires
    HostSets <- MCHostSets
    MaxCalls = 2
    MaxChanges = 1
    MaxFaults = 2
INVARIANTS
    HubsConsistent
    SchedulesKept
    
PROPERTIES
    CallsEnd
CHECK_DEADLOCK FALSE
