CONSTANTS
    Apics = {0, 1, 2}
    FaultyApics = {1}
    FaultPlaces <- WhenUp
    MaxBoots = 2
SPECIFICATION FairSpec
PROPERTY PanicReachesPrompt
CHECK_DEADLOCK FALSE
