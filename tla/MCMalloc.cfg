SPECIFICATION FairSpec
CONSTANTS
    Threads = {t1, t2}
    Sizes = {40, 170}
    Products <- TwoProducts
    Alignments = {64}
    Bases = {192, 384}
    ARENA_SIZE = 192
    SizeSize = 1024
    MaxBlocks = 3
    MaxLeaks = 1
INVARIANTS
    TypeOK
    LockExcludes
PROPERTIES
    ImplementsHeap
    CallsReturn
