SPECIFICATION Spec
CONSTANTS
    None = None
    Raised = Raised
    Torn = Torn
    Processes = {"gui", "tui"}
    Fields = {"language", "provider"}
    Values = {0, 1}
    Defaults <- MCDefaults
    Environment <- MCEnvironment
    FirstContents <- MCFirstContents
    ViewModels = {"overview", "usage", "route", "execute", "settings"}
    LoadPages = {"usage"}
    Tasks = {"blank", "one"}
    LanguageField = "language"
    MaxSnapshots = 2
    MaxThreads = 2
    MaxPlans = 2
    MaxAttempts = 3
    MaxSteps = 1
    Journeys <- MCJourneys
INVARIANTS
    EscalationsAreNotApproved
    ShowsTheLatestPlan
PROPERTIES
    BusyEnds
    SavesAreAtomic
CHECK_DEADLOCK FALSE
