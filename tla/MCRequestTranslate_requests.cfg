\* Every conversation of up to three messages, all efforts and controls, two targets.
SPECIFICATION Spec
CONSTANTS
    MaxMessages = 3
    Requests <- AllRequests
    Segments <- SegmentSets
    None = None
    MaxTargets = 2
INVARIANTS
    ConversationIsKept
    PromptsAreServed
    EffortIsKept
    ControlsAreKept
CHECK_DEADLOCK FALSE
