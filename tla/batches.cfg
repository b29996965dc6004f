SPECIFICATION Spec
CONSTANTS
    Commands <- TwoAndThree
    PerPart = 2
    MaxAttempts = 1
    None = None
INVARIANTS OkMeansInstalled RunInOrder BuiltOnce BuiltConfigured
