SPECIFICATION Spec
CONSTANTS
    Names = {"i", "j", "x"}
    Input <- LoopsAndLets
    File <- SetAndRun
    MaxLines = 6
    MaxValue = 2
    Unbound = Unbound
    None = None
INVARIANTS NestCounts MeansAsWritten
CHECK_DEADLOCK FALSE
