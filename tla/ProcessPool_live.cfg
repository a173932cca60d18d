\* Finite timeouts and no kernel failure: what must eventually happen.
CONSTANTS
  ArgNp = {1}
  ArgMin = {0, 1}
  ArgFlags <- FlagWords
  ArgMs = {500}
  Garbage = {0}
  GarbageFlags <- ZeroFlags
  SockCap = 1
  MaxAdds = 2
  MaxAddn = 1
  KernelErrors = FALSE
SPECIFICATION FairSpec
PROPERTIES CallsReturn WaitEnds QueuedServed
