SPECIFICATION FairSpec
CONSTANTS
  Patience = 1
  Resend = 0
  Retry = 0
  Tries = 2
  PortSpan = 2
  PortStride = 1
  MaxRedirects = 1
  Limit = 2
  HeadRoom = 1
  MaxStarts = 2
  MaxConnections = 2
  Replies <- Pages
INVARIANTS TypeOK WholePage RightPage
PROPERTY FetchSettles
