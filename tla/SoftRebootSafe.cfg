CONSTANTS
    Apics = {0, 1, 2, 4}
    FaultyApics = {0, 1, 2}
    FaultPlaces <- WhenUp
    MaxBoots = 2
SPECIFICATION Spec
INVARIANTS OneCoreInBootloader LoadedInPeace OwnStackAndId BringUpConsistent
PROPERTIES PanicsOnce
CHECK_DEADLOCK FALSE
