SPECIFICATION RoutesSpec
CONSTANTS
    n0 = n0
    n1 = n1
    n2 = n2
    n3 = n3
    Hosts = {n0, n1, n2, n3}
    Delays <- SomeAndNone
    MaxLinks = 4
SYMMETRY Symmetry
INVARIANTS Delivered CompressedSame TreeDelivered
CONSTRAINT WeightlessAreFewer
CHECK_DEADLOCK FALSE
