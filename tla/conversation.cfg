SPECIFICATION ConvFairSpec
CONSTANTS
    MaxMessages = 2
    MaxConversations = 2
    MAX_ATTEMPTS = 2
INVARIANTS
    ConvTypeOK
    LoneTurnsAreKept
    LiveLogIsStoredLog
    SpinnerHasACause
PROPERTIES
    PollNarrates
CHECK_DEADLOCK FALSE
