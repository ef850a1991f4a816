SPECIFICATION FairSpec
CONSTANTS
    MaxPush = 2
    MaxDepth = 1
    ConfigOf <- AllMake
    KickPatterns <- OnlyGeneric
    SyncMayFail = FALSE
PROPERTY KickoffReachesCache
\* Pushes are bounded, so the system really stops once all is handled.
CHECK_DEADLOCK FALSE
