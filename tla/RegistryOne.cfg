SPECIFICATION Spec
CONSTANTS
    c1 = c1
    c2 = c2
    u1 = u1
    u2 = u2
    k1 = k1
    k2 = k2
    main = main
    None = None
    Clients <- OneClient
    Urls <- TwoUrls
    Keys <- TwoKeys
    Refs <- OneBranch
    Tags <- NoTags
    Methods <- AllMethods
    MaxFaults = 2
INVARIANT TypeOK LastAckWins ReadIsLastAcked DownloadServesOrigin KeyInUseIsComplete
PROPERTY ImplementsRegistration
