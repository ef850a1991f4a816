SPECIFICATION Spec
CONSTANTS
    MaxPush = 1
    MaxDepth = 1
    ConfigOf <- AllMake
    KickPatterns <- OnlyGeneric
    SyncMayFail = FALSE
INVARIANT DeploymentAbandoned
\* Pushes are bounded, so the system really stops once all is handled.
CHECK_DEADLOCK FALSE
