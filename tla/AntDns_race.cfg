\* url_add appends to a queue that the resolver joins and frees: no failure needed.
CONSTANTS
  d1 = d1
  d2 = d2
  Domain <- Domains
  Url <- Urls
  Sock = {s1, s2}
  MAX_NCONN = 2
  Batch = 1
  ANT_MAX_EVENTS = 1
  Tasks = 1
  MaxFail = 0
SPECIFICATION Spec
INVARIANTS NoUrlLost
