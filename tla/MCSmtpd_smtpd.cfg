\* smtpd: one client session after another, any sequence of commands.
SPECIFICATION FairSpec
CONSTANTS
  Senders = {s1}
  Rcpts = {r1, pm}
  Postmaster = pm
  NoAddr = none
  Configs <- SessionConfigs
  Lists <- StageLists
  HardErrorLimit = 2
  JunkLimit = 0
  RcptLimit = 2
  OverLimit = 1
  SizeLimit = 2
  
PROPERTIES SessionEnds
