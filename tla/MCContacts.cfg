SPECIFICATION Spec
CONSTANTS
  k1 = k1
  k2 = k2
  k3 = k3
  c1 = c1
  c2 = c2
  c3 = c3
  Key = {k1, k2}
  Conv = {c1, c2, c3}
  Nobody = nobody
SYMMETRY Symmetry
INVARIANTS
  VerifiedUnderThisKey
  ChangeStaysUntilAnswered
  MarkIsComparedOrAnswered
PROPERTIES
  MarkGoesOnlyWithItsKey
  ThreadKeepsItsContact
