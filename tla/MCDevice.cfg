SPECIFICATION Spec
CONSTANTS
  Key = {k1, k2}
  Conversation = {c1}
  Message = {m1, m2}
  NoKey = noKey
  NoRow = noRow
  NoConversation = noConversation
  NoBackup = noBackup
  Follow = follow
  Forever = forever
  Policy = {0}
  Seconds = {0, 1, 15}
  Word = 16
  MaxTime = 1
  MaxFaults = 1
SYMMETRY Symmetry
INVARIANTS
  HistoryOpens
  RetentionIsApplied
  OneIdentity
PROPERTIES
  NothingGoesEarly
  RestoreIsWhole
