CONSTANTS
  d1 = d1
  d2 = d2
  Domain <- Domains
  Url <- Urls
  Sock = {s1}
  MAX_NCONN = 1
  Batch = 1
  ANT_MAX_EVENTS = 2
  Tasks = 1
  MaxFail = 1
SPECIFICATION FairSpec
PROPERTIES UrlDownloaded
