SPECIFICATION Spec
CONSTANTS
    r1 = r1
    r2 = r2
    main = main
    make = make
    k1 = k1
    h1 = h1
    f1 = f1
    f2 = f2
    f3 = f3
    FileNames <- ThreeFiles
    RepoFile <- ByRepo
    RefFile <- ByRef
    None = None
    Sources <- Forges
    Repo = r1
    Repos <- TwoRepos
    Names <- OneName
    Patterns <- TwoPatterns
    Keys <- OneKey
    SecretLists <- Lists
    Patches <- TwoPatches
    Handlers <- OneHandler
    MaxPushes = 2
    Calls <- OneCall
    MaxEdits = 1
    MaxCalls = 1
    Overrides <- Chain
INVARIANT TypeOK NoPushLeftBehind StartedWasAsked
\* Pushes, calls and edits are bounded, so the system really stops at the bounds.
CHECK_DEADLOCK FALSE
