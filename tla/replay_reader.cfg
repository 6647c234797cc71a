SPECIFICATION FairSpec
CONSTANTS
    Clients = {c1}
    MaxSeq = 2
    MaxFaults = 2
    LazySeqs = {2}
CHECK_DEADLOCK FALSE
INVARIANTS
    PinnedStaysReplayable
    NothingSkipped
    ViewIsPrefix
PROPERTIES
    CatchesUp
