SPECIFICATION FairSpec
CONSTANTS
    Unit = 2
    NoDsn = NoDsn
    Transports = {"smtp", "retry"}
    Retry = "retry"
    Sites = {"d1","d2"}
    Dsns = {"r1"}
    Entries = {e1,e2}
    Config <- ConfigRate
    MaxPend = 2
INVARIANTS
    OneAtATime
PROPERTY ActiveQueueDrains
