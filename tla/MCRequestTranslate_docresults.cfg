\* An Anthropic client's answers to tool calls, with more to say.
SPECIFICATION Spec
CONSTANTS
    MaxMessages = 3
    Requests <- ToolAnswers
    Segments <- SegmentSets
    None = None
    MaxTargets = 1
INVARIANT ToolResultsFollowTheirCalls
CHECK_DEADLOCK FALSE
