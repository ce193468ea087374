SPECIFICATION Spec
CONSTANTS
    a = a
    b = b
    c = c
    w1 = w1
    w2 = w2
    t1 = t1
    t2 = t2
    None = None
    Queues <- MCQueues
    SerialQueues <- MCSerialQueues
    Workers <- MCWorkers
    Clients <- MCClients
    MaxItems = 4
    AsyncCalls <- AnyCall
    SyncCalls <- AnyCall
SYMMETRY Symmetry
CHECK_DEADLOCK FALSE
INVARIANTS
    TypeOK
    SerialOrder
    SerialExclusion
    NoStrandedItem
    SyncFrameAlive
