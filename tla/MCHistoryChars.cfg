\* What the README says of the context budget, refuted on one conversation.
CONSTANTS
    Exchanges = {e1, e2}
    Conversations = {c1}
    Sizes = {2, 6}
    None = None
    CharsPerToken = 2
    CharBudget = 4
    MaxMessages = 2
SYMMETRY Symmetry
SPECIFICATION Spec
INVARIANT HistoryWithinChars
CHECK_DEADLOCK FALSE
