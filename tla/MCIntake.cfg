SPECIFICATION Spec
CONSTANTS
    None = None
    AllowedPorts = {80, 443}
    AllowPrivate = FALSE
    Raws <- AllLines
    Tracking = {9}
    MaxUrlLength = 5
    MaxLines = 2
    Answers <- SomeAnswers
INVARIANTS
    OneRowPerPage
    PendingIsWanted
    PinnedIsPublic
    PublicGetsThrough
PROPERTIES
    RelistAddsNothing
CHECK_DEADLOCK FALSE
