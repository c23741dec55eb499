CONSTANTS
    Agents = {a1, a2, a3}
    TicketMod = 5
SPECIFICATION FairSpec
INVARIANTS Inv MutualExclusion
PROPERTIES FifoSpec LockReturns
