SPECIFICATION Spec
CONSTANTS
  Services = {"smtp", "pickup"}
  Pids = {p1, p2}
  Configs <- ConfigsTwo
  NoConf = NoConf
  None = None
  MaxGen = 3
  MaxBacklog = 1
  PipeSize = 1
  MaxReloads = 1
  MaxFaults = 1
CHECK_DEADLOCK FALSE
SYMMETRY Symmetry
INVARIANTS NoPanic CountsMatch ListenPolicy ViewCorrect SignalsKept
