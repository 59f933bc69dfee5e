SPECIFICATION Spec
CONSTANTS
    LearningDelay = 1
    ReviewDelay = 1
    Fuzz = 0
    StageTransitionDelay = 1
    None = None
    WordIds = {w1, w2}
    Texts = {a, b}
    Examples = {x}
    Bare = a
    Annotated = c
    PlainText <- Plain
    LibraryPages = {l1}
    Jobs <- NoJob
    MaxExtras = 1
    MaxClock = 0
    MaxDisturbances = 1
SYMMETRY Symmetry
INVARIANTS
    TypeOK
    WaitsForItsOperation
    SelectionIsListed
PROPERTIES
    WholeLibraryNeedsPhrase
    VerifiedIsStored
