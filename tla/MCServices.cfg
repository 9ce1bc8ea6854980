SPECIFICATION MCSpec
CONSTANTS
    Caller = {ann, bob, cleo}
    MaxConcurrent = 2
    RequestsPerMinute = 1
    TokensPerMinute = 1
    TokensPerDay = 1
    MaxTokens = 1
    MaxUse = 2
    MaxDayTokens = 1
    Honest = FALSE
    Threshold <- MCThreshold
    Cap <- MCCap
    MaxCost = 2
    MaxDepth = 2
    CacheKey = {plan, diff, tests}
    CacheValue = {first, second}
    MaxSize = 2
    Process = {cli, web}
    Key = {key}
    Value = {old, new}
    MaxStarts = 2
    Psutil = TRUE
    KillOnExceed = TRUE
    Path = {left_py, right_py}
    MaxOps = 2
    Command = {cmd1, cmd2, cmd3}
    OverrideId = {id1, id2}
    Manager = {man1, man2}
    ScopedId = {ovr1, ovr2}
    LimitedScope = {"file"}
    FreeScope = {}
    ScopeMax <- MCScopeMax
    Artifact = {plan1, plan2}
    Run = {run1, run2}
    MaxSeconds = 2
    SourceFile = {main_py}
    Text = {old_text, new_text}
    Validator = {val1, val2}
INVARIANTS TypeOK NoSlotLost LimitHolds DayBudget 
           AllIndexed NoOrphanServer AllOrNothing OverridesKept
           EnforcedUntilReconciled RollbackRestores SkippedWasExamined
PROPERTY EvictsLeastRecent
CHECK_DEADLOCK FALSE
