SPECIFICATION FairSpec
CONSTANTS
    lamp = lamp
    switch = switch
    cover = cover
    None = None
    Page = {1}
    Light = {lamp}
    Switch = {switch}
    Cover = {cover}
    Offered <- MCOffered
    Elsewhere <- MCElsewhere
    Touched = {0, 65}
    Low = 2000
    High = 6500
    MaxEvents = 3
INVARIANTS CallsSuitTargets SetIsTold
PROPERTIES PollingSettles ScreensEndTrue
