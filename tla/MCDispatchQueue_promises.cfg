SPECIFICATION FairSpec
CONSTANTS
    a = a
    b = b
    c = c
    w1 = w1
    w2 = w2
    t1 = t1
    t2 = t2
    None = None
    Queues <- MCQueues
    SerialQueues <- MCSerialQueues
    Workers <- MCWorkers
    Clients <- MCClients
    MaxItems = 3
    AsyncCalls <- ClientAsync
    SyncCalls <- NestedSync
CHECK_DEADLOCK FALSE
PROPERTIES
    ImplementsExecutor
    EveryItemRuns
    EverySyncReturns
