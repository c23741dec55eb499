CONSTANTS
    Apics = {0, 1}
    FaultyApics = {0}
    FaultPlaces <- NoFaults
    MaxBoots = 2
SPECIFICATION Spec
INVARIANT AllCoresStopped
CHECK_DEADLOCK FALSE
