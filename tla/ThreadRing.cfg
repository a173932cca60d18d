\* A ring of three; seven connections wrap it twice and can overrun it.
CONSTANTS
  MAX_THREADS = 3
  ArgN = 2
  MaxConn = 7
SPECIFICATION FairSpec
INVARIANTS QueueUntilOverrun
PROPERTIES WaitingServed
