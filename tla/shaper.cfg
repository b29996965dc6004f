SPECIFICATION FairSpec
CONSTANTS
    main = main
    pipe = pipe
    v1 = v1
    v2 = v2
    Callers = {main, pipe}
    Values = {v1, v2}
    Initial = Initial
    MaxCalls = 4
    Options <- Executions
    Free = Free
    LinkTask = LinkTask
    NotSet = NotSet
INVARIANTS ShapersExclusive EndsAgree ShapedAfterConfigured
PROPERTIES CallsReturn
CHECK_DEADLOCK FALSE
