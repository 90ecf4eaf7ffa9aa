SPECIFICATION Spec
CONSTANTS
    Unit = 2
    NoDsn = NoDsn
    Transports = {"smtp", "retry"}
    Retry = "retry"
    Sites = {"d1","d2"}
    Dsns = {"r1","r2"}
    Entries = {e1,e2,e3}
    Config <- ConfigPlain
    MaxPend = 2
SYMMETRY Symmetry
INVARIANTS
    TypeOK NoPanic TimersMatchStatus NoMailBehindDead ConcurrencyLimit EntryInOnePlace
