\* Every way pp_pool_new may leave the pool; up to three children (np = 1 and
\* -1 in run_process).  Two calls of pp_pool_add, one record in the socket.
CONSTANTS
  ArgNp = {0, 1}
  ArgMin = {1, 2}
  ArgFlags <- FlagWords
  ArgMs <- MsValues
  Garbage <- GarbageInts
  GarbageFlags <- ZeroFlags
  SockCap = 2
  MaxAdds = 2
  MaxAddn = 1
  KernelErrors = TRUE
SPECIFICATION Spec
INVARIANTS Delivery StartedInOrder ForkBudget AddResult
