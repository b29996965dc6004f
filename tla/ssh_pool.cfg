SPECIFICATION FairSpec
CONSTANTS
    main = main
    w1 = w1
    w2 = w2
    f1 = f1
    f2 = f2
    foreign = foreign
    t1 = t1
    pipe1 = pipe1
    Owners = {main, f1, f2}
    Transient = {f1, f2}
    Timers = {t1, pipe1}
    Pipes = {pipe1}
    PoolSize = 2
    MaxReconnects = 1
    NoClient = NoClient
    Nobody = Nobody
INVARIANTS TypeOK PopFindsClient ClientsExclusive SharedWrapperLive
PROPERTIES EveryRequestServed SlotsReturn ImplementsSlots
CHECK_DEADLOCK FALSE
