\* Two tasks, one waiter.
SPECIFICATION FairTaskSpec
CONSTANTS
    MaxTasks = 2
    MaxTurns = 2
    MaxCalls = 2
    w1 = w1
    Waiters = {w1}
INVARIANTS
    KilledTaskStops
    WaitMeansEnded
PROPERTIES
    
    ResumeContinues
    BackgroundTasksEnd
CHECK_DEADLOCK FALSE
