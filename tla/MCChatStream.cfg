\* Two exchanges in two conversations, messages of one and three tokens.
CONSTANTS
    Exchanges = {e1, e2}
    Conversations = {c1, c2}
    Sizes = {2, 6}
    None = None
    CharsPerToken = 2
    CharBudget = 4
    MaxMessages = 2
SYMMETRY Symmetry
SPECIFICATION Spec
INVARIANTS TypeOK ToldIsStored TelemetryPerReply QuotesStayInside PromptHasQuestion LastIsAMessage
PROPERTIES NothingPartial PromptIsLongestRecent TranscriptKept
CHECK_DEADLOCK FALSE
