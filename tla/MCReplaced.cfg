SPECIFICATION Spec
CONSTANTS
  Key = {k1, k2}
  Conversation = {c1}
  Message = {m1}
  NoKey = noKey
  NoRow = noRow
  NoConversation = noConversation
  NoBackup = noBackup
  Follow = follow
  Forever = forever
  Policy = {0}
  Seconds = {1}
  Word = 16
  MaxTime = 0
  MaxFaults = 0
INVARIANTS
  RowsAreOfTheIdentity
