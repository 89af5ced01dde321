\* A forest that is full is done, and so is a queue that is disposed of.
CHECK_DEADLOCK FALSE
CONSTANTS
    s1 = s1  s2 = s2  t1 = t1  t2 = t2
    None = None
    Sids = {s1, s2}
    Types = {"Normal", "Gateway", "Tracker"}
    Counts = {2}
    Knowns <- SomeKnown
    MaxNodes = 3
    NoData = NoData
    Texts = {t1, t2}
    Shrinks <- SomeShrinks
    MaxZips = 1
    NoHost = NoHost  Incorrect = Incorrect  Unparsable = Unparsable  NoUrl = NoUrl
    Hosts = {"http://a", "https://a"}
    Segments = {"b"}
    Rests = {"", " :8000?q#f"}
    MaxPath = 1
    MaxSlashes = 3
    MaxPassed = 2
    f1 = f1  f2 = f2  f3 = f3
    a1 = a1  a2 = a2
    Nobody = Nobody
    Finishers = {f1, f2, f3}
    Awaiters = {a1, a2}
    MaxParallel = 2
    MaxJobs = 4
    Second = 3
    MinSpan = 4
    Lens = {0, 1, 5}
    LastNow = 14
    MaxBytes = 12
SPECIFICATION PartsSpec
INVARIANTS
    WalkIsByDepth
    SendDataIsCut
    MentionsDecide
    RumoursFade
    ParamSurvives
    SpellingsMeet
    ReadyIsWoken
    TakenOnce
    StartsBehindEnded
    RateIsWithinTwice
PROPERTIES
    OutcomeIsTaken
    JobsGetDone
