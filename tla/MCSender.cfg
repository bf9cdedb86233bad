SPECIFICATION CustodySpec
CONSTANTS
  hi = hi
  a = a
  b = b
  c = c
  Msg = {hi, a, b, c}
  Hello = hi
  MessageId = {1, 2, 3, 4, 5}
  LocalId = {1, 2, 3}
  NoMsg = noMsg
  NoManifest = noManifest
  Forever = forever
  Keep = 1
  MaxClock = 2
  MaxLost = 1
  MaxExpired = 0
  MaxSenderCrash = 1
SYMMETRY Symmetry
INVARIANTS
  ManifestIsHonest
  ScreenIsTrue
  GenerationsUnique
  SentIsBacked
  PersistedStayApart
PROPERTIES
  FlushedBySecond
