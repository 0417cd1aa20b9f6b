CONSTANTS
    Bounded = TRUE
    Addrs <- MCAddrs
    Widths = {8, 16}
    StoreVals <- MCBoundedVals
    MaxAddr = 3
SPECIFICATION Spec
INVARIANT TypeOK ByteRoundTrip
