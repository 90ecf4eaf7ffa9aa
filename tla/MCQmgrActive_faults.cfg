SPECIFICATION Spec
CONSTANTS
    Agents = {a1, a2}
    Daemons = {b1, b2}
    Configs <- FaultConfigs
CHECK_DEADLOCK FALSE
SYMMETRY Symmetry
INVARIANTS
     AtMostOnce DeliveredOrReported CorruptKept NothingForgotten
