SPECIFICATION FairSpec
CONSTANTS
  a = a
  b = b
  x = x
  NoSource = NoSource
  Sources <- Three
  Wirings <- SafeWirings
CHECK_DEADLOCK FALSE
INVARIANT OneEvent
INVARIANT RemoteParents
PROPERTY RemoteStarts
