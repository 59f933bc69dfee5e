SPECIFICATION Spec
CONSTANTS
    LearningDelay = 1
    ReviewDelay = 1
    Fuzz = 0
    StageTransitionDelay = 1
    None = None
    WordIds = {w1}
    Texts = {a}
    Examples = {}
    Bare = a
    Annotated = c
    PlainText <- Plain
    PracticePages = {p1, p2}
    MemoryPages = {}
    LibraryPages = {}
    Jobs <- NoJob
    OneTab = FALSE
    MaxClock = 1
    MaxDisturbances = 1
    MaxAnswers = 3
SYMMETRY PageSymmetry
INVARIANTS
    RowsWellFormed
    NoInventedAttempts
    StagesAreEarned
PROPERTIES
    AnswersStartHidden
