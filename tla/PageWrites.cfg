CONSTANTS
    Page = {p}
    Config = {a, b}
    NoConfig = NoConfig
    Flow = {f1}
    Services = {b}
    Faults = {"lost", "failed", "crash", "reload", "swap"}
    Trust = 1
SPECIFICATION FairSpec
INVARIANTS
    BelievedIsHeld
PROPERTIES
    SavesReachThePanel
