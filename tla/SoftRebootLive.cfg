CONSTANTS
    Apics = {0, 1, 2}
    FaultyApics = {0, 1}
    FaultPlaces <- WhenUp
    MaxBoots = 2
SPECIFICATION FairSpec
PROPERTIES PanicReachesPromptOrLocks RebootCompletesOrLocks AllCoresUp
CHECK_DEADLOCK FALSE
