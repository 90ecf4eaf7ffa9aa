SPECIFICATION FairSpec
CONSTANTS
  Services = {"smtp"}
  Pids = {p1, p2}
  Configs <- ConfigsOne
  NoConf = NoConf
  None = None
  MaxGen = 3
  MaxBacklog = 1
  PipeSize = 1
  MaxReloads = 1
  MaxFaults = 1
CHECK_DEADLOCK FALSE
PROPERTIES Served OldServersLeave
