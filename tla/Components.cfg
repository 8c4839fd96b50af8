SPECIFICATION Spec
CONSTANTS
    panel = panel
    Address = {panel}
    Page <- MCPage
    MaxButtons = 3
    MaxEvents = 2
INVARIANTS NothingBeyondEvidence NothingHeardIsMissed OfferedAsLoaded
PROPERTIES TrafficOnlyAdds WrongTypeWarned
