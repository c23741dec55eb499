CONSTANTS
    Cores = {c1, c2}
    Packet <- MCPacket
    RX_DESCS_N = 2
    TX_DESCS_N = 3
    PoolCapacity = 1
    MaxRx = 3
    MaxTx = 1
    None = None
SPECIFICATION FairSpec
INVARIANTS OnePlace RingsAgree
PROPERTIES HeldStable  TxInOrder SendReturns
