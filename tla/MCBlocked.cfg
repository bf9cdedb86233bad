SPECIFICATION FairSpec
CONSTANTS
  c1 = c1
  c2 = c2
  m1 = m1
  m2 = m2
  Conv = {c1, c2}
  Msg = {m1, m2}
  Large = {}
  Unopened = unopened
  Blank = blank
  Known = known
  NoCall = noCall
  MaxOutages = 1
PROPERTY
  EverythingGoesOut
