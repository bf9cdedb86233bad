SPECIFICATION Spec
CONSTANTS
  c1 = c1
  c2 = c2
  i1 = i1
  i2 = i2
  Conv = {c1, c2}
  Invite = {i1, i2}
  Nothing = nothing
  Blank = blank
  Known = known
SYMMETRY Symmetry
INVARIANTS
  AddedIsDurable
  OpenedIsDurable
  AddressIsLearned
  HeardIsAddressed
  OnePollSuffices
PROPERTIES
  ImplementsIntroduction
