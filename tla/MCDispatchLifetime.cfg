SPECIFICATION LifetimeSpec
CONSTANTS
    a = a
    w1 = w1
    w2 = w2
    t1 = t1
    None = None
    Queues <- MCQueues
    SerialQueues <- MCQueues
    Workers <- MCWorkers
    Clients <- MCClients
    MaxItems = 2
    AsyncCalls <- NoAsync
    SyncCalls <- ClientSync
    References = 1
CHECK_DEADLOCK FALSE
INVARIANT NoUseAfterDestroy
