SPECIFICATION FairSpec
CONSTANTS
    t1 = t1
    r1 = r1
    r2 = r2
    s1 = s1
    q1 = q1
    q2 = q2
    None = None
    NFiles = 2
    NSecrets = 2
    Tokens <- OneToken
    Rules <- TwoRules
    Requests <- TwoRequests
    Allows <- NarrowAndWide
    Secrets <- OneSecret
    MaxOps = 4
INVARIANT TypeOK NoLostSignal RevokedIsGone
PROPERTY SignalledSettles
\* The operator stops after MaxOps actions, and then the server waits.
CHECK_DEADLOCK FALSE
