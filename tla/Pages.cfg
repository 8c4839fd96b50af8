CONSTANTS
    p1 = p1
    q1 = q1
    Page = {p1, q1}
    First = {p1, q1}
    AddressOf <- MCAddressOf
    MaxQueued = 2
    MaxLeftovers = 1
SYMMETRY Symmetry
SPECIFICATION Spec
PROPERTIES
    ListedByFindingOnly
    BehindOnlyFromSetup
    SettledChoiceKept
    DismissedNotAdopted
    DismissalLostOnlyToOlderRecord
