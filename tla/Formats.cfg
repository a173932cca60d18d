CONSTANTS
  OutLen = 10
  FirstLen = 5
  InLen = 9
  IoSizes = {1, 3, 20}
  Url <- MCUrl
  UrlHash <- MCUrlHash
  Junk = "junk"
  Buckets = 2
  Block = {b1, b2}
  MaxAdd = 4
  FirstSize = 5
  PageSize = 4
  Token <- MCToken
  Digits <- MCDigits
  Response <- MCResponse
  MaxTry = 2
  Stream <- MCStream
  M = 2
  Hash <- MCHash
  From <- MCFrom
  MaxData = 3
  MaxTime = 1
  MaxFd = 2
  NULL = NULL
SPECIFICATION Spec
INVARIANTS RecordsArrive PassedOnce HeldBack PageWhole TextRead MailStays HoleNeedsQuit
PROPERTIES CapturesMail
CHECK_DEADLOCK FALSE
