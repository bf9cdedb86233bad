\* Bucket 2 and Ttl 3 are coprime, so arrivals fall on and off a boundary and
\* an expiry is no multiple of the bucket.  The last expiry, 7, is before the
\* clock stops.
SPECIFICATION FairSpec
CONSTANTS
  i1 = i1
  i2 = i2
  m1 = m1
  m2 = m2
  Inbox = {i1, i2}
  Own = i1
  Malformed = malformed
  MessageId = {m1, m2}
  Size = {1, 2}
  MaxBlob = 1
  Ttl = 3
  Bucket = 2
  LastArrival = 3
  MaxClock = 8
INVARIANTS
  NeverErasedEarly
  CollectIsTimely
  ExpiryHidesArrival
PROPERTIES
  EventuallyErased
  CollectIsComplete
  ImplementsMailDrop
