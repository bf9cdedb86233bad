\* A torn file can leave a client that never opens again: it stops there.
CHECK_DEADLOCK FALSE
SPECIFICATION Spec
CONSTANTS
  p1 = p1
  p2 = p2
  s1 = s1
  s2 = s2
  s3 = s3
  d1 = d1
  d2 = d2
  d3 = d3
  Phrase = {p1, p2}
  NoPhrase = noPhrase
  Salt = {s1, s2, s3}
  DeviceKey = {d1, d2, d3}
  NoKey = noKey
  Device = device
  Absent = absent
  Torn = torn
  Shell = "desktop"
INVARIANTS
  OpensAsPromised
