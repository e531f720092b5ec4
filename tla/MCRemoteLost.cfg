SPECIFICATION FairSpec
CONSTANTS
  a = a
  b = b
  x = x
  NoSource = NoSource
  Sources <- Three
  Wirings <- LostWirings
CHECK_DEADLOCK FALSE
PROPERTY RemoteStarts
