SPECIFICATION FairSpec
CONSTANTS
    n0 = n0
    n1 = n1
    Hosts = {n0, n1}
    NWorkers = 2
    Main = Main
    None = None
INVARIANTS EarlierHostsStopped NoTaskWithoutBridges
PROPERTIES ClosesEnd
CHECK_DEADLOCK FALSE
