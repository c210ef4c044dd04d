SPECIFICATION Spec
CONSTANTS
    BodyPages <- SomePages
    Json <- MCJson
    Depth <- MCDepth
    Confidences <- MCConfidences
    Top = 4
    AcceptSmall = 3
    AcceptLarge = 2
    None = None
INVARIANTS
    StructuredFound
    OnlyEmptyPagesAreFree
    LanguageKept
    SpendBounded
    SettledIsSure
    AnswerKept
