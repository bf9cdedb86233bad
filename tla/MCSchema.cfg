SPECIFICATION FairSpec
CONSTANTS
  p = p
  q = q
  Opener = {p, q}
  MaxFaults = 2
INVARIANTS
  OpenedIsWhole
PROPERTIES
  EveryoneOpens
