\* Every wire, every gateway, with check events, cuts and silences.
SPECIFICATION Spec
CONSTANTS
    Pieces = 2
    Tools <- ToolNames
    KindOf <- Kinds
    Bare <- BareTools
    Turns <- TurnsOfInterest
    Wires = {"responses", "chat", "messages", "gemini"}
    Gateways <- GatewaysOfInterest
    Labels <- LabelsOfInterest
    MaxThreshold = 8
    MaxChecks = 1
INVARIANTS
    OwnArguments
    TurnAssembled
    UiAgrees
