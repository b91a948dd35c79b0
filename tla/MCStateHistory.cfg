CONSTANTS
    r1 = r1
    r2 = r2
    sydney = sydney
    perth = perth
    ap = ap
    switch = switch
    up = up
    down = down
    pipeline = pipeline
    cli = cli
    Runs <- TwoRuns
    Order <- TwoScopes
    Entities <- TwoEntities
    Values <- OneValue
    Writers <- OneWriter
    None = None
SPECIFICATION Spec
CONSTRAINT SecondScopePlain
INVARIANTS
    LatestResolvable
PROPERTIES
    PartialKeepsLatest
    LedgerKept
CHECK_DEADLOCK FALSE
