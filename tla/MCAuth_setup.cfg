SPECIFICATION Spec
CONSTANTS
    Requests = {r1, r2, r3}
    Sources = {home}
    Passwords = {1, 2}
    Slots = 2
    Threshold = 2
    Cap = 3
    MaxCalls = 4
INVARIANTS SetupHappensOnce FewSessionsOutliveAChange
PROPERTY EveryoneIsAnswered
CHECK_DEADLOCK FALSE
