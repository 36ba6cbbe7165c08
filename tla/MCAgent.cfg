\* Two tests, so that a push can wait for a drain, two results of one and one of
\* the other; the buffer holds at most three bytes.
SPECIFICATION FairSpec
CONSTANTS
    Tests = {t1, t2}
    MaxTicks = 2
    Ticks <- MCTicks
    MsgSize <- MCMsgSize
    MaxSize = 3
    MaxUnacked = 1
INVARIANTS
    NothingSilentlyLost
    AckedOnce
    BufferInOrder
    SizeAccounting
PROPERTIES
    DeliverySpec
    ShutdownTerminates
    BufferDrains
CHECK_DEADLOCK FALSE
