------------------------------- MODULE Relay -------------------------------
(***************************************************************************)
(* The relay's blob queue: server/src/store.rs, driven by the handlers of  *)
(* server/src/http.rs and by the sweeper of server/src/main.rs.            *)
(*                                                                         *)
(* Every handler holds the one Mutex<Store> for its whole body, so each    *)
(* operation is one atomic action.  The queue is an SQLite table: a        *)
(* restart of the relay loses nothing and is a stuttering step.            *)
(*                                                                         *)
(* Seconds are natural numbers.  The u64 additions of bucketed_expiry      *)
(* saturate more than 10^11 years away, so their width is not modelled.    *)
(***************************************************************************)
EXTENDS Integers, FiniteSets

CONSTANTS
  Inbox,        \* inbox identifiers is_valid_inbox_id accepts
  Own,          \* the inbox whose owner the refinement watches
  Malformed,    \* an inbox identifier it refuses, such as the empty string
  MessageId,    \* the random 128-bit identifiers
  Size,         \* sizes of a submitted blob, in bytes
  MaxBlob,      \* max_blob_bytes
  Ttl,          \* DEFAULT_TTL, in seconds
  Bucket,       \* EXPIRY_BUCKET, in seconds
  LastArrival,  \* bound: no blob is submitted after this second
  MaxClock      \* bound: the clock stops here

ASSUME TimeAssumption == /\ Ttl \in Nat
                         /\ Bucket \in Nat \ {0}
                         /\ LastArrival \in Nat
                         /\ MaxClock \in Nat

ASSUME InboxAssumption == Own \in Inbox /\ Malformed \notin Inbox

ASSUME SizeAssumption == Size \subseteq Nat /\ MaxBlob \in Nat

VARIABLES
  clock,     \* now(), in seconds
  queue,     \* the rows of the queue table: [id, inbox, expires]
  response,  \* the answer to the latest GET: [inbox, ids, at]
  arrivals,  \* history: every accepted blob, [id, inbox, at]
  acked      \* history: <<inbox, id>> of every acknowledgement received

vars == <<clock, queue, response, arrivals, acked>>

Row == [id : MessageId, inbox : Inbox, expires : Nat]
Arrival == [id : MessageId, inbox : Inbox, at : Nat]
Response == [inbox : Inbox, ids : SUBSET MessageId, at : Nat]
NoResponse == [ids |-> {}]  \* no GET has been answered yet

TypeOK ==
  /\ clock \in Nat
  /\ queue \subseteq Row
  /\ response \in Response \cup {NoResponse}
  /\ arrivals \subseteq Arrival
  /\ acked \subseteq Inbox \X MessageId

----------------------------------------------------------------------------

\* Faulty variants, each standing in for the definition it precedes.
BucketedExpiryNoSlack(now) == (now \div Bucket) * Bucket + Ttl
BucketedExpiryOfTheSum(now) == ((now + Ttl) \div Bucket) * Bucket + Bucket
LiveUnfiltered(i) == {q \in queue : q.inbox = i}
InScopeOfAnyInbox(i, q) == TRUE
InScopeWhileFresh(i, q) == q.inbox = i /\ q.expires > clock + Bucket
ExpiredExactly(q) == q.expires = clock

\* is_valid_inbox_id.
Valid(i) == i # Malformed

\* The arrival is floored to its bucket, and one bucket of slack pays back
\* what flooring gave away.
BucketedExpiry(now) == (now \div Bucket) * Bucket + Ttl + Bucket

\* The SELECT of collect: rows of this inbox whose expiry is in the future.
Live(i) == {q \in queue : q.inbox = i /\ q.expires > clock}

\* The WHERE clause that scopes an acknowledgement to its own inbox.
InScope(i, q) == q.inbox = i

\* The WHERE clause of sweep_expired.
Expired(q) == q.expires <= clock

----------------------------------------------------------------------------

Init ==
  /\ clock = 0
  /\ queue = {}
  /\ response = NoResponse
  /\ arrivals = {}
  /\ acked = {}

\* POST /inbox/:inbox_id.  A malformed inbox or an oversized blob is refused
\* and leaves no row; a random identifier is one never drawn before.
Enqueue(i, size) ==
  /\ clock <= LastArrival
  /\ Valid(i)
  /\ size <= MaxBlob
  /\ \E m \in MessageId \ {a.id : a \in arrivals} :
       /\ queue' = queue \cup
                     {[id |-> m, inbox |-> i, expires |-> BucketedExpiry(clock)]}
       /\ arrivals' = arrivals \cup {[id |-> m, inbox |-> i, at |-> clock]}
  /\ UNCHANGED <<clock, response, acked>>

\* GET /inbox/:inbox_id.  Answers without deleting.
Collect(i) ==
  /\ Valid(i)
  /\ response' = [inbox |-> i, ids |-> {q.id : q \in Live(i)}, at |-> clock]
  /\ UNCHANGED <<clock, queue, arrivals, acked>>

\* POST /inbox/:inbox_id/ack.  The body may name any identifiers at all; those
\* the relay never handed out match no row.
Acknowledge(i, ids) ==
  /\ Valid(i)
  /\ queue' = {q \in queue : ~(q.id \in ids /\ InScope(i, q))}
  /\ acked' = acked \cup {<<i, m>> : m \in ids}
  /\ UNCHANGED <<clock, response, arrivals>>

\* One run of the background sweeper.
SweepExpired ==
  /\ \E q \in queue : Expired(q)
  /\ queue' = {q \in queue : ~Expired(q)}
  /\ UNCHANGED <<clock, response, arrivals, acked>>

Tick ==
  /\ clock < MaxClock
  /\ clock' = clock + 1
  /\ UNCHANGED <<queue, response, arrivals, acked>>

Next ==
  \/ \E i \in Inbox \cup {Malformed}, size \in Size : Enqueue(i, size)
  \/ \E i \in Inbox \cup {Malformed} : Collect(i)
  \/ \E i \in Inbox \cup {Malformed}, ids \in SUBSET {a.id : a \in arrivals} :
       Acknowledge(i, ids)
  \/ SweepExpired
  \/ Tick

Spec == Init /\ [][Next]_vars

\* Time passes, and main.rs runs the sweeper on an interval for as long as
\* the process lives.  No client is obliged to do anything.
FairSpec == Spec /\ WF_vars(Tick) /\ WF_vars(SweepExpired)

----------------------------------------------------------------------------

Acked(a) == <<a.inbox, a.id>> \in acked
Waiting(a) == \E q \in queue : q.id = a.id /\ q.inbox = a.inbox

\* store.rs:218 "a blob is never erased earlier than its full TTL": a blob
\* that was accepted is still in the queue unless its own inbox acknowledged
\* it or its full time to live has passed since it arrived.
NeverErasedEarly ==
  \A a \in arrivals : Waiting(a) \/ Acked(a) \/ clock >= a.at + Ttl

\* store.rs:139 "a stopped sweeper cannot cause over-retention": whatever a
\* GET answers with arrived less than Ttl plus one bucket ago and belongs to
\* the inbox that asked, whether or not the sweeper ever ran.
CollectIsTimely ==
  \A a \in arrivals :
    a.id \in response.ids =>
      /\ response.inbox = a.inbox
      /\ response.at < a.at + Ttl + Bucket

\* A GET answers with every blob of its inbox that is unacknowledged and
\* within its time to live: no accepted message is silently withheld.
CollectIsComplete ==
  [][\A i \in Inbox : Collect(i) =>
       \A a \in arrivals :
         a.inbox = i /\ ~Acked(a) /\ clock < a.at + Ttl => a.id \in response'.ids]_vars

\* D-020: blobs that arrive in the same bucket carry the same expiry, so the
\* column cannot be read backwards as a clock finer than one bucket.
ExpiryHidesArrival ==
  \A q, r \in queue : \A a, b \in arrivals :
    /\ a.id = q.id
    /\ b.id = r.id
    /\ a.at \div Bucket = b.at \div Bucket
    => q.expires = r.expires

\* D-021 and the TTL: every blob is gone in the end, whether or not anyone
\* collects or acknowledges it.
EventuallyErased ==
  \A m \in MessageId :
    (\E q \in queue : q.id = m) ~> (\A q \in queue : q.id # m)

----------------------------------------------------------------------------

\* What the owner of one inbox, Own, can observe, as the mail drop of
\* MailDrop.tla: a letter waits while a GET would return it.
Posted == {m \in MessageId : \E a \in arrivals : a.id = m /\ a.inbox = Own}
Waits == {m \in MessageId : \E q \in Live(Own) : q.id = m}
Erased == {m \in MessageId : <<Own, m>> \in acked}

Drop == INSTANCE MailDrop WITH
  Letter <- MessageId, posted <- Posted, waiting <- Waits, erased <- Erased

\* Whatever happens to other inboxes, Own is a mail drop: an identifier is
\* used once, a letter waits until its own inbox acknowledges it or it runs
\* out of time, and one that is gone never comes back.
ImplementsMailDrop == Drop!Spec

=============================================================================
