SPECIFICATION Spec
CONSTANTS
    Panel = {"kitchen", "hall"}
    Address = {16, 17, 18}
    PanelOf <- MCPanelOf
    Keypad = {16}
    NoLabel = none
    MaxWire = 2
    MaxEvents = 6
INVARIANTS BacklightWrongOnlyUnnoticed
PROPERTIES GroupedWereGone
