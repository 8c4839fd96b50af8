CONSTANTS
    Conns = {c1, c2, c3, c4}
    Foreign = {c4}
    Senders = {s1}
    Watchdog = wd
    Stopper = st
    NoConn = none
SPECIFICATION Spec
CHECK_DEADLOCK FALSE
SYMMETRY Symmetry
INVARIANTS
    WriterServed
    AnnouncementOwned
PROPERTIES
    UnannouncedOnlyByLateTeardown
    OrphanOnlyByLateEviction
    FreshSessionKept
    ImplementsSession
