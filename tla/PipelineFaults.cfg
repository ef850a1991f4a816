SPECIFICATION Spec
CONSTANTS
    MaxPush = 2
    MaxDepth = 2
    ConfigOf <- Nested
    KickPatterns <- AnyPattern
    SyncMayFail = TRUE
INVARIANT TypeOK SingleFlight NoLostDeployment FreshBuild CompletedIsPublished
PROPERTY PublishedMonotonic ImplementsRefBuild
\* Pushes are bounded, so the system really stops once all is handled.
CHECK_DEADLOCK FALSE
