SPECIFICATION Spec
CONSTANTS
    None = None
    Effective = "old"
    MaxReady = 2
    Configs = {"old", "new", "newer"}
    LoadKinds = {"usage", "models"}
    MaxSnapshots = 2
    MaxBack = 4
    PlanIds = {1, 2}
    MaxAttempts = 2
    MaxSteps = 1
    Journeys <- MCJourneys
INVARIANTS
    AttemptsWereApproved
    QuestionIsShown
    OneOperationAtATime
    QuitLeavesNoRun
    RouteMatchesTask
PROPERTIES
    NeverShowsOlder
    ExecutionEnds
CHECK_DEADLOCK FALSE
