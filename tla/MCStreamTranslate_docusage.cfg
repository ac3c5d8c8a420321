\* The four translations, and what the README says of the tokens.
SPECIFICATION Spec
CONSTANTS
    Routes = {"anthropic_chat", "responses_chat", "chat_anthropic", "responses_anthropic"}
    Reasons = {"stop", "length", "tool_calls", "content_filter"}
    None = None
    MaxEvents = 3
INVARIANT UsageIsRecorded
CHECK_DEADLOCK FALSE
