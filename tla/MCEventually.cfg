SPECIFICATION FairSpec
CONSTANTS
  hi = hi
  a = a
  b = b
  c = c
  Msg = {a, b}
  Hello = hi
  MessageId = {1, 2, 3}
  LocalId = {1, 2}
  NoMsg = noMsg
  Forever = forever
  Keep = forever
  MaxClock = 0
  Tolerance = 2
  MaxForward = 3
  MaxLost = 1
  MaxExpired = 0
  MaxSenderCrash = 0
  MaxReceiverCrash = 0
PROPERTIES
  EveryMessageAppears
