SPECIFICATION Spec
CONSTANTS
    n0 = n0
    n1 = n1
    Hosts = {n0, n1}
    Links <- OneLink
    NWorkers = 2
    Options <- OnlyTunnels
INVARIANTS LinksBridged
