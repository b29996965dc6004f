SPECIFICATION FairSpec
CONSTANTS
    main = main
    w1 = w1
    w2 = w2
    f1 = f1
    f2 = f2
    foreign = foreign
    t1 = t1
    pipe1 = pipe1
    Owners = {main, w1, w2, foreign}
    Transient = {}
    Timers = {}
    Pipes = {}
    PoolSize = 3
    MaxReconnects = 0
    NoClient = NoClient
    Nobody = Nobody
PROPERTIES EveryRequestServed
CHECK_DEADLOCK FALSE
