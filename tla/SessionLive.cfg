CONSTANTS
    Conns = {c1, c2}
    Foreign = {}
    Senders = {s1, s2}
    Watchdog = wd
    Stopper = st
    NoConn = none
SPECIFICATION FairSpec
CHECK_DEADLOCK FALSE
PROPERTIES
    DeadSessionDropped
    AnnouncementSettles
    EveryWaitEnds
    SessionComesBack
    StopSettles
