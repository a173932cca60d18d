\* Three urls for two connections, and two failures.  A chunked body that breaks
\* off may look complete or not; one of known length behaves like the latter.
CONSTANTS
  Url = {u1}
  Code = {200, 301}
  Mode = {"chunked"}
  maxconn = 2
  Fd = {1, 2, 3, 4}
  NTask = 1
  MaxTry = 1
  MaxAdd = 3
  MaxFail = 2
SPECIFICATION FairSpec
INVARIANTS EventFindsConn ConnsCounted DumpedOnce
PROPERTIES QueueDrained
