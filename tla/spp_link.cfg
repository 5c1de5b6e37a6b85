SPECIFICATION SppSpec
CONSTANTS
    MaxCmds = 3
    MaxConns = 2
    RingCap = 2
    TxCap = 3
    BatchMax = 1
INVARIANTS DeliveredInOrder PanicAfterAck
PROPERTIES NothingWrittenLate LoopReturns
CHECK_DEADLOCK FALSE
