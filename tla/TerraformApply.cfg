SPECIFICATION FairSpec
CONSTANTS
    tf1 = tf1
    u1 = u1
    u2 = u2
    k1 = k1
    k2 = k2
    main = main
    None = None
    Absent = Absent
    Urls <- TwoUrls
    Keys <- TwoKeys
    Refs <- OneBranch
    Tags <- NoTags
    Methods <- Calls
    MaxFaults = 1
    Provider = tf1
    MayForget = TRUE
INVARIANT TypeOK AppliedIsRegistered AppliedIsInForce NoChangeMeansOrigin
PROPERTY ApplyEnds
