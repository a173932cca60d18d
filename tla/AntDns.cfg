CONSTANTS
  d1 = d1
  d2 = d2
  Domain <- Domains
  Url <- Urls
  Sock = {s1, s2}
  MAX_NCONN = 2
  Batch = 1
  ANT_MAX_EVENTS = 1
  Tasks = 1
  MaxFail = 1
SPECIFICATION Spec
INVARIANTS UrlInOnePlace AnswerBeforeDownload WaitingHostAsked SocketTable JoinedOnce
SYMMETRY Symmetry
