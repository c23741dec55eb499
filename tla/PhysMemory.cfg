CONSTANTS
    MaxAddr = 15
    Capacity = 3
    Memory <- MCMemory
    Reserved <- MCReserved
    Sizes = {1, 2, 3}
    Aligns = {1, 2, 4}
    Preferences <- MCPreferences
    MaxBlocks = 2
SPECIFICATION Spec
INVARIANTS NoDoubleAllocation UpdatesExact AllocExact 
CHECK_DEADLOCK FALSE
