CONSTANTS
    Closers = {wd, s1}
    Watchdog = wd
    Button = {b1}
    Counts = {3}
    WedgeDrops = 2
    MaxWire = 1
SPECIFICATION FairSpec
INVARIANTS
    GestureHeard
    VerdictsHaveGrounds
PROPERTIES
    WedgeNamed
    WarningsFollowTheBus
