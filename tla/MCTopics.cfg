SPECIFICATION FairSpec
CONSTANTS
    a = a
    b = b
    c = c
    x = x
    None = None
    Ids = {a, b, c, x}
    Files <- MCFiles
    Answers <- MCAnswers
INVARIANTS
    LoadedIsForest
    TopicsResolved
PROPERTIES
    ResolvingEnds
