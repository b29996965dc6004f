SPECIFICATION Spec
CONSTANTS
    h1 = h1
    h2 = h2
    h3 = h3
    h4 = h4
    h5 = h5
    h6 = h6
    Hosts = {h1, h2, h3, h4, h5, h6}
    Nodes = 2
    MaxPerNode = 2
    MaxWorkers = 3
    Boot = Boot
    Nobody = Nobody
SYMMETRY Symmetry
INVARIANTS CoresExclusive NoCoreWasted SharedAlwaysServed
