CONSTANTS
    u1 = u1
    u2 = u2
    a1 = a1
    a2 = a2
    a3 = a3
    panel1 = panel1
    panel2 = panel2
    t1 = t1
    t2 = t2
    Unit = {u1, u2}
    Panel = {panel1, panel2}
    PanelOf <- MCPanelOf
    FirstAddress <- MCFirstAddress
    Address = {a1, a2, a3}
    GatewayAddress = a3
    Task = {t1, t2}
    MaxMore = 0
    MaxWire = 1
SYMMETRY Symmetry
SPECIFICATION Spec
INVARIANTS
    WaiterIsNotDone
PROPERTIES
    CompleteCheckIsSafe
