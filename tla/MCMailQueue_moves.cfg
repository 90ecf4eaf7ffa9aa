SPECIFICATION FairSpec
CONSTANTS
    l1 = l1
    f1 = f1
    f2 = f2
    f3 = f3
    c1 = c1
    LocalMsgs = {l1}
    RemoteMsgs = {}
    Ids = {f1, f2, f3}
    Cleaners = {c1}
    Slots = {1, 2}
    Pickup = Pickup
    NoMsg = NoMsg
    NoFile = NoFile
    NoClient = NoClient
    MaxFaults = 1
CHECK_DEADLOCK FALSE
INVARIANTS
    AtMostOnce
PROPERTY MailGetsOut
