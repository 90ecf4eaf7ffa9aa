SPECIFICATION FairSpec
CONSTANTS
    h1 = h1
    h2 = h2
    h3 = h3
    h4 = h4
    r1 = r1
    r2 = r2
    Rcpts <- MCRcpts
    Self = {h3}
    Configs <- MCConfigs
    PipeSize = 2
    SndBuf = 2
    RcvBuf = 1
    MaxRequests = 1
    NoAddr = NoAddr
    NoSession = NoSession
    NoConn = NoConn
CHECK_DEADLOCK FALSE
INVARIANTS NoPanic InSync NoWriteDeadlock TakenOnce Accounted VerdictsJust
PROPERTY RequestEnds
