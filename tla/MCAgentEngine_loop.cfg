\* Long turns of repeating models.
SPECIFICATION FairSpec
CONSTANTS
    c1 = c1
    c2 = c2
    s1 = s1
    s2 = s2
    a = a
    b = b
    Chats = {c1, c2}
    NoChat = NoChat
    Sessions = {s1}
    NoSession = NoSession
    Signatures = {a, b}
    NoSignature = NoSignature
    NudgeAfter = 2
    MaxIdentical = 3
    Threshold = 8
    Keep = 5
    MaxTurns = 4
    MaxCancels = 0
    MayCrash = FALSE
    MayDelete = FALSE
    Answers <- StubbornAnswers
INVARIANT StationaryRuns
PROPERTY ChatsEnd
CHECK_DEADLOCK FALSE
