SPECIFICATION Spec
CONSTANTS
    None = None
    Effective = "old"
    MaxReady = 2
    Configs = {"old", "new", "newer"}
    LoadKinds = {"usage", "models"}
    MaxSnapshots = 2
    MaxBack = 2
    PlanIds = {1, 2}
    MaxAttempts = 2
    MaxSteps = 1
    Journeys <- MCJourneys
PROPERTIES DiscardIsConfirmed
CHECK_DEADLOCK FALSE
