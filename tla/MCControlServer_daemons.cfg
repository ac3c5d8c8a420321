CONSTANTS
    Daemons = {d1, d2}
    Clients = {c1, c2}
    NoFile = NoFile
    MaxStarts = 3
    MaxDials = 2
    MaxHiccups = 1
SPECIFICATION Spec
CHECK_DEADLOCK FALSE
INVARIANT OneReachableDaemon
PROPERTY NoClientHangs
