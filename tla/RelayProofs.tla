---------------------------- MODULE RelayProofs ----------------------------
(***************************************************************************)
(* Theorems about Relay for every set of inboxes and identifiers, every    *)
(* time to live and every bucket.                                          *)
(***************************************************************************)
EXTENDS Relay, TLAPS

\* What flooring gives away, one bucket pays back: a blob that arrives at
\* second t lives more than its Ttl, and at most one bucket longer.
LEMMA ExpiryBounds ==
  ASSUME NEW t \in Nat
  PROVE  /\ BucketedExpiry(t) \in Nat
         /\ t + Ttl < BucketedExpiry(t)
         /\ BucketedExpiry(t) <= t + Ttl + Bucket
  <1>1. t = (t \div Bucket) * Bucket + (t % Bucket)
    BY TimeAssumption, Z3T(30)
  <1>2. t % Bucket \in 0 .. Bucket - 1 /\ t \div Bucket \in Nat
    BY TimeAssumption, Z3T(30)
  <1>3. (t \div Bucket) * Bucket \in Int
    BY <1>2, TimeAssumption
  <1>4. (t \div Bucket) * Bucket \in Nat
    BY <1>2, TimeAssumption, Z3T(30)
  <1> QED
    BY <1>1, <1>2, <1>4, TimeAssumption DEF BucketedExpiry
----------------------------------------------------------------------------

\* Where each row of the queue comes from.
Provenance ==
  \A q \in queue : \E a \in arrivals :
    a.id = q.id /\ a.inbox = q.inbox /\ q.expires = BucketedExpiry(a.at)

\* An identifier names one arrival, and no arrival lies in the future.
ArrivalsSound ==
  /\ \A a, b \in arrivals : a.id = b.id => a = b
  /\ \A a \in arrivals : a.at <= clock

\* A response names arrivals only.
ResponseSound == response.ids \subseteq {a.id : a \in arrivals}

\* The inductive invariant.  NeverErasedEarly alone is not inductive: that a
\* sweep spares what is younger than Ttl needs to know where the expiry of
\* the row came from.
IInv ==
  /\ TypeOK
  /\ Provenance
  /\ ArrivalsSound
  /\ ResponseSound
  /\ NeverErasedEarly
  /\ CollectIsTimely

LEMMA InitIInv == Init => IInv
  BY DEF Init, IInv, TypeOK, Provenance, ArrivalsSound, ResponseSound,
         NeverErasedEarly, CollectIsTimely, NoResponse

\* Accepting a blob adds one arrival and its row, under a fresh identifier.
LEMMA EnqueueIInv ==
  ASSUME IInv, NEW i \in Inbox \cup {Malformed}, NEW size \in Size,
         Enqueue(i, size)
  PROVE  IInv'
  <1> USE DEF IInv
  <1>1. PICK m \in MessageId \ {a.id : a \in arrivals} :
          /\ queue' = queue \cup
               {[id |-> m, inbox |-> i, expires |-> BucketedExpiry(clock)]}
          /\ arrivals' = arrivals \cup {[id |-> m, inbox |-> i, at |-> clock]}
    BY DEF Enqueue
  <1>2. i \in Inbox /\ clock' = clock /\ response' = response /\ acked' = acked
    BY DEF Enqueue, Valid
  <1>3. BucketedExpiry(clock) \in Nat
    BY ExpiryBounds DEF TypeOK
  <1> DEFINE new == [id |-> m, inbox |-> i, at |-> clock]
  <1>4. \A a \in arrivals : a.id # new.id
    BY <1>1
  <1>5. TypeOK'
    BY <1>1, <1>2, <1>3 DEF TypeOK, Row, Arrival
  <1>6. Provenance'
    <2> SUFFICES ASSUME NEW q \in queue'
                 PROVE  \E a \in arrivals' : a.id = q.id /\ a.inbox = q.inbox
                                             /\ q.expires = BucketedExpiry(a.at)
      BY <1>2 DEF Provenance, BucketedExpiry
    <2>1. CASE q \in queue
      BY <2>1, <1>1 DEF Provenance
    <2>2. CASE q = [id |-> m, inbox |-> i, expires |-> BucketedExpiry(clock)]
      <3>1. new \in arrivals'
        BY <1>1
      <3> QED
        BY <2>2, <3>1
    <2> QED
      BY <1>1, <2>1, <2>2
  <1>7. ArrivalsSound'
    BY <1>1, <1>2, <1>4 DEF ArrivalsSound, TypeOK
  <1>8. ResponseSound'
    BY <1>1, <1>2 DEF ResponseSound
  <1>9. NeverErasedEarly'
    <2> SUFFICES ASSUME NEW a \in arrivals'
                 PROVE  Waiting(a)' \/ Acked(a) \/ clock >= a.at + Ttl
      BY <1>2 DEF NeverErasedEarly, Acked
    <2>1. CASE a \in arrivals
      BY <2>1, <1>1 DEF NeverErasedEarly, Waiting
    <2>2. CASE a = new
      <3> DEFINE row == [id |-> m, inbox |-> i, expires |-> BucketedExpiry(clock)]
      <3>1. row \in queue' /\ row.id = m /\ row.inbox = i
        BY <1>1
      <3> QED
        BY <2>2, <3>1 DEF Waiting
    <2> QED
      BY <1>1, <2>1, <2>2
  <1>10. CollectIsTimely'
    BY <1>1, <1>2, <1>4 DEF CollectIsTimely, ResponseSound
  <1> QED
    BY <1>5, <1>6, <1>7, <1>8, <1>9, <1>10

\* A GET answers with rows that have not expired, so with young arrivals.
LEMMA CollectIInv ==
  ASSUME IInv, NEW i \in Inbox \cup {Malformed}, Collect(i)
  PROVE  IInv'
  <1> USE DEF IInv
  <1>1. i \in Inbox
    BY DEF Collect, Valid
  <1>2. /\ response' = [inbox |-> i, ids |-> {q.id : q \in Live(i)}, at |-> clock]
        /\ UNCHANGED <<clock, queue, arrivals, acked>>
    BY DEF Collect
  <1>3. {q.id : q \in Live(i)} \subseteq MessageId
    BY DEF Live, TypeOK, Row
  <1>4. TypeOK'
    BY <1>1, <1>2, <1>3 DEF TypeOK, Response
  <1>5. Provenance' /\ ArrivalsSound' /\ NeverErasedEarly'
    BY <1>2 DEF Provenance, ArrivalsSound, NeverErasedEarly, Waiting, Acked
  <1>6. ResponseSound'
    BY <1>2 DEF ResponseSound, Provenance, Live
  <1>7. CollectIsTimely'
    <2> SUFFICES ASSUME NEW a \in arrivals, a.id \in {q.id : q \in Live(i)}
                 PROVE  i = a.inbox /\ clock < a.at + Ttl + Bucket
      BY <1>2 DEF CollectIsTimely
    <2>1. PICK q \in queue : q.id = a.id /\ q.inbox = i /\ q.expires > clock
      BY DEF Live
    <2>2. a.inbox = q.inbox /\ q.expires = BucketedExpiry(a.at)
      BY <2>1 DEF Provenance, ArrivalsSound
    <2>3. a.at \in Nat /\ clock \in Nat
      BY DEF TypeOK, Arrival
    <2>4. BucketedExpiry(a.at) \in Nat /\ BucketedExpiry(a.at) <= a.at + Ttl + Bucket
      BY <2>3, ExpiryBounds
    <2> QED
      BY <2>1, <2>2, <2>3, <2>4, TimeAssumption
  <1> QED
    BY <1>4, <1>5, <1>6, <1>7

\* An acknowledgement removes rows of its own inbox, and records that it did.
LEMMA AcknowledgeIInv ==
  ASSUME IInv, NEW i \in Inbox \cup {Malformed},
         NEW ids \in SUBSET {a.id : a \in arrivals}, Acknowledge(i, ids)
  PROVE  IInv'
  <1> USE DEF IInv
  <1>1. i \in Inbox
    BY DEF Acknowledge, Valid
  <1>2. /\ queue' = {q \in queue : ~(q.id \in ids /\ q.inbox = i)}
        /\ acked' = acked \cup {<<i, m>> : m \in ids}
        /\ UNCHANGED <<clock, response, arrivals>>
    BY DEF Acknowledge, InScope
  <1>3. ids \subseteq MessageId
    BY DEF TypeOK, Arrival
  <1>4. TypeOK'
    BY <1>1, <1>2, <1>3 DEF TypeOK
  <1>5. Provenance' /\ ArrivalsSound' /\ ResponseSound' /\ CollectIsTimely'
    BY <1>2 DEF Provenance, ArrivalsSound, ResponseSound, CollectIsTimely
  <1>6. NeverErasedEarly'
    BY <1>2 DEF NeverErasedEarly, Waiting, Acked
  <1> QED
    BY <1>4, <1>5, <1>6

\* A sweep removes rows whose arrival is at least Ttl seconds old.
LEMMA SweepIInv ==
  ASSUME IInv, SweepExpired
  PROVE  IInv'
  <1> USE DEF IInv
  <1>1. /\ queue' = {q \in queue : ~(q.expires <= clock)}
        /\ UNCHANGED <<clock, response, arrivals, acked>>
    BY DEF SweepExpired, Expired
  <1>2. TypeOK' /\ Provenance' /\ ArrivalsSound' /\ ResponseSound' /\ CollectIsTimely'
    BY <1>1 DEF TypeOK, Provenance, ArrivalsSound, ResponseSound, CollectIsTimely
  <1>3. NeverErasedEarly'
    <2> SUFFICES ASSUME NEW a \in arrivals, NEW q \in queue,
                        q.id = a.id, q.inbox = a.inbox, q.expires <= clock
                 PROVE  clock >= a.at + Ttl
      BY <1>1 DEF NeverErasedEarly, Waiting, Acked
    <2>1. q.expires = BucketedExpiry(a.at)
      BY DEF Provenance, ArrivalsSound
    <2>2. a.at \in Nat /\ clock \in Nat
      BY DEF TypeOK, Arrival
    <2>3. BucketedExpiry(a.at) \in Nat /\ a.at + Ttl < BucketedExpiry(a.at)
      BY <2>2, ExpiryBounds
    <2> QED
      BY <2>1, <2>2, <2>3, TimeAssumption
  <1> QED
    BY <1>2, <1>3

\* The passing of a second makes nothing false: what was young enough to be
\* answered was answered earlier.
LEMMA TickIInv ==
  ASSUME IInv, Tick
  PROVE  IInv'
  <1> USE DEF IInv
  <1>1. clock' = clock + 1 /\ UNCHANGED <<queue, response, arrivals, acked>>
    BY DEF Tick
  <1>2. TypeOK' /\ Provenance' /\ ResponseSound' /\ CollectIsTimely'
    BY <1>1 DEF TypeOK, Provenance, ResponseSound, CollectIsTimely
  <1>3. ArrivalsSound' /\ NeverErasedEarly'
    <2>1. clock \in Nat /\ \A a \in arrivals : a.at \in Nat
      BY DEF TypeOK, Arrival
    <2> QED
      BY <1>1, <2>1, TimeAssumption
      DEF ArrivalsSound, NeverErasedEarly, Waiting, Acked
  <1> QED
    BY <1>2, <1>3

LEMMA NextIInv == IInv /\ [Next]_vars => IInv'
  <1> SUFFICES ASSUME IInv, [Next]_vars PROVE IInv'
    OBVIOUS
  <1>1. CASE Next
    BY <1>1, EnqueueIInv, CollectIInv, AcknowledgeIInv, SweepIInv, TickIInv DEF Next
  <1>2. CASE UNCHANGED vars
    BY <1>2 DEF vars, IInv, TypeOK, Provenance, ArrivalsSound, ResponseSound,
               NeverErasedEarly, CollectIsTimely, Waiting, Acked
  <1> QED
    BY <1>1, <1>2

LEMMA Invariance == Spec => []IInv
  BY InitIInv, NextIInv, PTL DEF Spec

\* The variables of the relay keep their types, refused requests included.
THEOREM TypeCorrect == Spec => []TypeOK
  <1>1. IInv => TypeOK
    BY DEF IInv
  <1> QED
    BY <1>1, Invariance, PTL

\* No accepted blob leaves the relay before its Ttl unless the inbox it was
\* sent to acknowledged it (store.rs:218, store.rs:164).
THEOREM NothingErasedEarly == Spec => []NeverErasedEarly
  <1>1. IInv => NeverErasedEarly
    BY DEF IInv
  <1> QED
    BY <1>1, Invariance, PTL

\* Nothing older than Ttl plus one bucket is ever handed out, and nothing is
\* handed to another inbox, sweeper or no sweeper (store.rs:139).
THEOREM NothingHandedOutLate == Spec => []CollectIsTimely
  <1>1. IInv => CollectIsTimely
    BY DEF IInv
  <1> QED
    BY <1>1, Invariance, PTL

\* D-020: the expiry column is constant over the arrivals of a bucket.
THEOREM ExpiryIsCoarse == Spec => []ExpiryHidesArrival
  <1>1. IInv => ExpiryHidesArrival
    BY DEF IInv, ExpiryHidesArrival, Provenance, ArrivalsSound, BucketedExpiry
  <1> QED
    BY <1>1, Invariance, PTL

----------------------------------------------------------------------------

\* Every answer to a GET holds all that its inbox is owed: by NeverErasedEarly
\* a young, unacknowledged blob still has its row, and by ExpiryBounds that
\* row passes the filter of collect.
THEOREM NothingWithheld == Spec => CollectIsComplete
  <1>1. ASSUME IInv, NEW i \in Inbox, Collect(i), NEW a \in arrivals,
               a.inbox = i, ~Acked(a), clock < a.at + Ttl
        PROVE  a.id \in response'.ids
    <2>1. a.at \in Nat /\ clock \in Nat
      BY <1>1 DEF IInv, TypeOK, Arrival
    <2>2. PICK q \in queue : q.id = a.id /\ q.inbox = a.inbox
      BY <1>1, <2>1, TimeAssumption DEF IInv, NeverErasedEarly, Waiting
    <2>3. q.expires = BucketedExpiry(a.at)
      BY <1>1, <2>2 DEF IInv, Provenance, ArrivalsSound
    <2>4. q.expires > clock
      BY <1>1, <2>1, <2>3, ExpiryBounds, TimeAssumption
    <2>5. q \in Live(i)
      BY <1>1, <2>2, <2>4 DEF Live
    <2> QED
      BY <1>1, <2>2, <2>5 DEF Collect
  <1>2. IInv /\ [Next]_vars =>
          [\A i \in Inbox : Collect(i) =>
             \A a \in arrivals :
               a.inbox = i /\ ~Acked(a) /\ clock < a.at + Ttl
                 => a.id \in response'.ids]_vars
    BY <1>1
  <1> QED
    BY <1>2, Invariance, PTL DEF Spec, CollectIsComplete

\* Each inbox is a mail drop, whatever happens to the others: the fresh
\* identifier of Enqueue makes Submit, time makes Expire, and a sweep, which
\* removes only what no GET would return, is invisible.
THEOREM RelayImplementsMailDrop == Spec => ImplementsMailDrop
  <1> USE DEF Posted, Waits, Erased, Live
  <1>1. Init => Drop!Init
    BY DEF Init, Drop!Init
  <1>2. ASSUME IInv, NEW i \in Inbox \cup {Malformed}, NEW size \in Size,
               Enqueue(i, size)
        PROVE  Drop!Next \/ UNCHANGED <<Posted, Waits, Erased>>
    <2>1. PICK m \in MessageId \ {a.id : a \in arrivals} :
            /\ queue' = queue \cup
                 {[id |-> m, inbox |-> i, expires |-> BucketedExpiry(clock)]}
            /\ arrivals' = arrivals \cup {[id |-> m, inbox |-> i, at |-> clock]}
            /\ UNCHANGED <<clock, response, acked>>
      BY <1>2 DEF Enqueue
    <2>2. clock \in Nat /\ BucketedExpiry(clock) > clock
      BY <1>2, ExpiryBounds, TimeAssumption DEF IInv, TypeOK
    <2>3. CASE i = Own
      <3>1. m \notin Posted
        BY <2>1
      <3> DEFINE row == [id |-> m, inbox |-> i, expires |-> BucketedExpiry(clock)]
                 new == [id |-> m, inbox |-> i, at |-> clock]
      <3>2. Posted' = Posted \cup {m}
        <4>1. new.id = m /\ new.inbox = Own /\ arrivals' = arrivals \cup {new}
          BY <2>1, <2>3
        <4> HIDE DEF new
        <4> QED
          BY <4>1
      <3>3. Waits' = Waits \cup {m}
        <4>1. /\ row.id = m /\ row.inbox = Own /\ row.expires > clock
              /\ queue' = queue \cup {row} /\ clock' = clock
          BY <2>1, <2>2, <2>3
        <4> HIDE DEF row
        <4> QED
          BY <4>1
      <3> QED
        BY <2>1, <3>1, <3>2, <3>3 DEF Drop!Next, Drop!Submit
    <2>4. CASE i # Own
      BY <2>1, <2>4
    <2> QED
      BY <2>3, <2>4
  <1>3. ASSUME NEW i \in Inbox \cup {Malformed}, Collect(i)
        PROVE  UNCHANGED <<Posted, Waits, Erased>>
    BY <1>3 DEF Collect
  <1>4. ASSUME IInv, NEW i \in Inbox \cup {Malformed},
               NEW ids \in SUBSET {a.id : a \in arrivals}, Acknowledge(i, ids)
        PROVE  Drop!Next \/ UNCHANGED <<Posted, Waits, Erased>>
    <2>1. /\ queue' = {q \in queue : ~(q.id \in ids /\ q.inbox = i)}
          /\ acked' = acked \cup {<<i, m>> : m \in ids}
          /\ UNCHANGED <<clock, response, arrivals>>
      BY <1>4 DEF Acknowledge, InScope
    <2>2. ids \subseteq MessageId
      BY <1>4 DEF IInv, TypeOK, Arrival
    <2>3. CASE i = Own
      <3>1. Waits' = Waits \ ids
        BY <2>1, <2>3
      <3>2. Erased' = Erased \cup ids
        BY <2>1, <2>2, <2>3
      <3> QED
        BY <2>1, <2>2, <3>1, <3>2 DEF Drop!Next, Drop!Acknowledge
    <2>4. CASE i # Own
      BY <2>1, <2>4
    <2> QED
      BY <2>3, <2>4
  <1>5. ASSUME IInv, SweepExpired
        PROVE  UNCHANGED <<Posted, Waits, Erased>>
    <2>1. /\ queue' = {q \in queue : ~(q.expires <= clock)}
          /\ UNCHANGED <<clock, response, arrivals, acked>>
      BY <1>5 DEF SweepExpired, Expired
    <2>2. clock \in Nat /\ \A q \in queue : q.expires \in Nat
      BY <1>5 DEF IInv, TypeOK, Row
    <2> QED
      BY <2>1, <2>2
  <1>6. ASSUME IInv, Tick
        PROVE  Drop!Next
    <2>1. clock' = clock + 1 /\ UNCHANGED <<queue, response, arrivals, acked>>
      BY <1>6 DEF Tick
    <2>2. clock \in Nat /\ \A q \in queue : q.expires \in Nat /\ q.id \in MessageId
      BY <1>6 DEF IInv, TypeOK, Row
    <2>3. Waits' \subseteq Waits
      BY <2>1, <2>2
    <2>4. UNCHANGED <<Posted, Erased>>
      BY <2>1
    <2>5. \E gone \in SUBSET MessageId : gone \subseteq Waits /\ Waits' = Waits \ gone
      <3>1. (Waits \ Waits') \in SUBSET MessageId
        OBVIOUS
      <3>2. Waits' = Waits \ (Waits \ Waits')
        BY <2>3
      <3> QED
        BY <3>1, <3>2
    <2> QED
      BY <2>4, <2>5 DEF Drop!Next, Drop!Expire
  <1>7. ASSUME UNCHANGED vars
        PROVE  UNCHANGED <<Posted, Waits, Erased>>
    BY <1>7 DEF vars
  <1>8. IInv /\ [Next]_vars => [Drop!Next]_<<Posted, Waits, Erased>>
    BY <1>2, <1>3, <1>4, <1>5, <1>6, <1>7 DEF Next
  <1> QED
    BY <1>1, <1>8, Invariance, PTL DEF Spec, ImplementsMailDrop, Drop!Spec

=============================================================================
