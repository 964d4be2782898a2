\* Two chats of one session with cancels, deletions and a crash.
SPECIFICATION Spec
CONSTANTS
    c1 = c1
    c2 = c2
    s1 = s1
    s2 = s2
    a = a
    b = b
    Chats = {c1, c2}
    NoChat = NoChat
    Sessions = {s1}
    NoSession = NoSession
    Signatures = {a, b}
    NoSignature = NoSignature
    NudgeAfter = 1
    MaxIdentical = 2
    Threshold = 5
    Keep = 3
    MaxTurns = 2
    MaxCancels = 2
    MayCrash = TRUE
    MayDelete = TRUE
    Answers <- StubbornAnswers
INVARIANTS
    HistoriesWellPaired
    CancelStops
    CancelStopsOneTurn
    LoneTurnCancellable
    CompletedTurnsKept
CHECK_DEADLOCK FALSE
