SPECIFICATION Spec
CONSTANTS
    Goroutines = {g1, g2}
    Callbacks = {cb1, cb2}
    NoCallback = NoCallback
    Fds = {0, 1, 4}
    FdModulus = 7
    NonceModulus = 4
    granularity = 2
    shardCnt = 2
    boundary = 2
    MaxAdds = 3
SYMMETRY Symmetry
PROPERTIES
    ImplementsMap
