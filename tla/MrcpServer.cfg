\* Two clients that run the test program once each, or one that may run it twice;
\* one connect or recognition may fail, and every opening of the engine.
CONSTANTS
  Client = {a, b}
  MaxRound = 2
  MaxFail = 1
  NWorkers = 3
SPECIFICATION MrcpFairSpec
INVARIANTS ServiceOnLiveEngine
PROPERTIES ClientsFinish
