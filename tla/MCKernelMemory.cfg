CONSTANTS
    c1 = c1
    c2 = c2
    None = None
    Null = Null
    Cores = {c1, c2}
    Classes <- MCClasses
    Slots <- MCSlots
    Segments <- MCSegments
    Frames = {1, 2, 3, 4, 5, 6, 7, 8, 9, 10, 11, 12, 13, 14, 15}
    Radix = 2
    PerPage = 2
    LargePages = 2
    GUARD_PAGE = 1
    KERNEL_VMEM_BASE = 8
    VmemEnd = 13
    WindowPages = 2
    RunWith = {2}
    MaxSmall = 3
    MaxHeld = 1
SPECIFICATION Spec
INVARIANTS  OneUse LargeBacked RefCounts 
