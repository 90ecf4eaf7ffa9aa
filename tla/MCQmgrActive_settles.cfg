SPECIFICATION FairSpec
CONSTANTS
    Agents = {a1}
    Daemons = {b1}
    Configs <- RestartConfigs
CHECK_DEADLOCK FALSE
PROPERTIES
    EventuallySettled 
