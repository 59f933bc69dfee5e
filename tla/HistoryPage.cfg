SPECIFICATION Spec
CONSTANTS
    LearningDelay = 1
    ReviewDelay = 1
    Fuzz = 0
    StageTransitionDelay = 1
    None = None
    Nothing = Nothing
    WordIds = {w1, w2}
    Texts = {a, b}
    Examples = {}
    PlainText <- Plain
    MaxClock = 2
    MaxDisturbances = 1
    MaxExtras = 3
    MaxElsewhere = 3
    TicksPerDay = 2
    SummaryPage = 1
    Queries <- SomeQueries
    GivenRatings = {"good"}
    MaxFlights = 2
    Paths = {"/", "/practice"}
    Home = "/"
    SessionSeconds = 1
    TicksPerSecond = 2
    Secrets = {s1, s2}
    MaxDeployments = 2
    MaxNesting = 2
SYMMETRY Symmetry
CONSTRAINT Watched
INVARIANTS
    TypeOK
    BackWhereAsked
    RedirectsEnd
    FilterIsCurrent
    AttemptsBelong
PROPERTIES
    OnlyWhileSignedIn
    OpenedByLearner
    TodayIsCovered
