SPECIFICATION Spec
CONSTANTS
    c1 = c1
    c2 = c2
    u1 = u1
    u2 = u2
    k1 = k1
    k2 = k2
    main = main
    None = None
    Clients <- TwoClients
    Urls <- TwoUrls
    Keys <- OneKey
    Refs <- OneBranch
    Tags <- NoTags
    Methods <- Writers
    MaxFaults = 0
SYMMETRY Symmetry
INVARIANT RegisteredIsComplete KeyAtRestIsComplete
