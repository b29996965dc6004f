SPECIFICATION FairSpec
CONSTANTS
    n0 = n0
    n1 = n1
    Hosts = {n0, n1}
    Links <- OneLink
    NWorkers = 2
    Options <- CleanOrFaulty
INVARIANTS TypeOK LinksBeforeRoutes NoStopWhileCreating ClosedStopsAll
PROPERTIES OnlyAdmDropped BuiltComplete Terminates
