SPECIFICATION LifeFairSpec
CONSTANTS
    CoreErrors = {"StopIteration", "RuntimeError"}
    CommandErrors = {"io", "ssh"}
    Values = {"original", "other"}
    MaxCalls = 2
INVARIANTS Undone OrderedCleanup
PROPERTIES PipeReleasesHost
