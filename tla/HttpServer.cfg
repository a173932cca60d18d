\* Four connections, two at a time, and four descriptors, so that the table grows,
\* numbers are used again, directories left open push them up and they run out.
CONSTANTS
  N = 4
  MaxAtOnce = 2
  MaxFd = 4
  MaxReset = 1
  Request <- MCRequest
  TOR_MAX_EVENT = 2
SPECIFICATION FairSpec
INVARIANTS EventFindsContext OverrunByDirs AnswerFits
PROPERTIES RequestServed
