SPECIFICATION FairSpec
CONSTANTS
  Workers = {w1, w2}
  MaxN = 2
  ChanCap = 1
  MaxEmit = 2
  MaxChunks = 1
INVARIANTS RequestsExact ResultsAccounted PrintAfterReporter
PROPERTIES NoWorkAfterDeadline BenchEnds
