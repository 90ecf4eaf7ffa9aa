SPECIFICATION Spec
CONSTANTS
    r1 = r1
    f1 = f1
    f2 = f2
    f3 = f3
    c1 = c1
    LocalMsgs = {}
    RemoteMsgs = {r1}
    Ids = {f1, f2, f3}
    Cleaners = {c1}
    Slots = {1, 2}
    Pickup = Pickup
    NoMsg = NoMsg
    NoFile = NoFile
    NoClient = NoClient
    MaxFaults = 2
CHECK_DEADLOCK FALSE
INVARIANTS
    NoMailLost
    ActiveOwned
    
