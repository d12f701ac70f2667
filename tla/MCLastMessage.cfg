\* What the database notes say of LAST_MESSAGE_AT, refuted on one conversation.
CONSTANTS
    Exchanges = {e1, e2}
    Conversations = {c1}
    Sizes = {2, 6}
    None = None
    CharsPerToken = 2
    CharBudget = 4
    MaxMessages = 2
SYMMETRY Symmetry
SPECIFICATION Spec
INVARIANT LastIsNewest
CHECK_DEADLOCK FALSE
