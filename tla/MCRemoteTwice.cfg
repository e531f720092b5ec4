SPECIFICATION Spec
CONSTANTS
  a = a
  b = b
  x = x
  NoSource = NoSource
  Sources <- Three
  Wirings <- RemoteOr
CHECK_DEADLOCK FALSE
INVARIANT TriggeredOnce
