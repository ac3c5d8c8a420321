\* The four translations, upstreams of up to six events.
SPECIFICATION Spec
CONSTANTS
    Routes = {"anthropic_chat", "responses_chat", "chat_anthropic", "responses_anthropic"}
    Reasons = {"stop", "length", "tool_calls", "content_filter"}
    None = None
    MaxEvents = 6
INVARIANTS
    AnswerArrives
    FramesAreAccepted
    EndMeansEnd
    StreamAgreesWithUnary
    TokensAreRecorded
CHECK_DEADLOCK FALSE
