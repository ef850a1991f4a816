SPECIFICATION FairSpec
CONSTANTS
    debug = debug
    listen = listen
    h1 = h1
    h2 = h2
    secretsDir = secretsDir
    a = a
    b = b
    None = None
    Off = Off
    Bad = Bad
    Gone = Gone
    Settings <- FiveSettings
    Headers <- TwoHeaders
    Unmerged <- SecretsDir
    Values <- TwoValues
    Defaults <- Given
    Contents <- FourContents
    Envs <- FourEnvs
    NFiles = 2
    MaxEdits = 2
INVARIANT TypeOK LastSettingWins NothingLeftOut
PROPERTY RepairHeals
\* Edits are bounded, so a server that is up really may stay as it is.
CHECK_DEADLOCK FALSE
