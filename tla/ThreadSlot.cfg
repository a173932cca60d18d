\* Both servers; five connections through the slot, two workers.
CONSTANTS
  NThreads = 2
  Servers = {TRUE, FALSE}
  MaxConn = 5
SPECIFICATION FairSpec
PROPERTIES HandsOff NoStandstill
