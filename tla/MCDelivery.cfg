SPECIFICATION Spec
CONSTANTS
  hi = hi
  a = a
  b = b
  c = c
  Msg = {hi, a}
  Hello = hi
  MessageId = {1, 2, 3, 4}
  LocalId = {1, 2}
  NoMsg = noMsg
  Forever = forever
  Keep = 0
  MaxClock = 1
  Tolerance = 2
  MaxForward = 3
  MaxLost = 1
  MaxExpired = 1
  MaxSenderCrash = 1
  MaxReceiverCrash = 1
INVARIANTS
  AckedIsStored
  StoredOnce
  NothingStranded
  NothingVanishes
PROPERTIES
  ImplementsMailbox
