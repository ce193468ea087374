SPECIFICATION FairSpec
CONSTANTS
    c1 = c1
    None = None
    Clients <- OneClient
    Ports <- Twice
    Callers <- CallersOfOne
    Names = {"svc"}
    Name = "svc"
    MaxSends = 2
    MaxEvents = 1
    MaxFaults = 3
CHECK_DEADLOCK FALSE
INVARIANTS
    TypeOK
    RightsBalanced
PROPERTIES
    ImplementsRequestReply
    RequestsAnswered
    ServiceComesBack
