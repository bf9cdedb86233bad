-------------------------------- MODULE Reply ------------------------------
(***************************************************************************)
(* A client that was invited writes back: what send_message, flush_outbox  *)
(* and receive_messages of core/src/api/messaging.rs do with messages for  *)
(* several conversations, of which some have no reply address yet.         *)
(*                                                                         *)
(* try_join opens a conversation with an empty reply address, the Hello    *)
(* brings the real one, and either may come in any batch.  A message that  *)
(* could not be posted is queued with the address of that moment, and the  *)
(* one outbox of all conversations is retried from its head.  An outage of *)
(* the relay is bounded; a POST to an empty inbox, or of a blob above the  *)
(* limit, is refused however often it is repeated.                         *)
(*                                                                         *)
(* The calls do not stop here and answers are not lost: Sender has both.   *)
(* Retention stands at its default, which purges nothing.                  *)
(***************************************************************************)
EXTENDS Naturals, Sequences

CONSTANTS
  Conv,       \* conversations the client is invited to
  Msg,        \* texts, one call of send_message each
  Large,      \* the texts whose blob is above the relay's limit
  Unopened,   \* no conversation of that id
  Blank,      \* the empty reply address
  Known,      \* the inbox of the other side
  NoCall,     \* no text in hand: the call only collects
  MaxOutages  \* bound: requests that find the relay out of reach

VARIABLES
  replyTo,   \* memory: peer_inbox_id of each conversation
  outbox,    \* disk: outbox rows in the order of queued()
  phase,     \* memory: the next step of the call in progress
  toFlush,   \* memory: what is left of the snapshot queued() took
  inHand,    \* memory: [msg, conv] being sent, or NoCall
  composed,  \* history: texts handed to send_message
  accepted,  \* history: texts the relay has taken
  outages    \* bound: requests that failed so far

vars == <<replyTo, outbox, phase, toFlush, inHand, composed, accepted, outages>>

Row == [msg : Msg, to : {Blank, Known}]

TypeOK ==
  /\ replyTo \in [Conv -> {Unopened, Blank, Known}]
  /\ outbox \in Seq(Row)
  /\ phase \in {"idle", "flush", "post", "collect"}
  /\ toFlush \in Seq(Row)
  /\ inHand \in [msg : Msg, conv : Conv] \cup {NoCall}
  /\ composed \subseteq Msg
  /\ accepted \subseteq composed
  /\ outages \in 0..MaxOutages

Init ==
  /\ replyTo = [c \in Conv |-> Unopened]
  /\ outbox = <<>> /\ toFlush = <<>>
  /\ phase = "idle" /\ inHand = NoCall
  /\ composed = {} /\ accepted = {}
  /\ outages = 0

----------------------------------------------------------------------------

\* What no retry changes: POST /inbox/ has no route, and a blob above the
\* limit is answered PAYLOAD_TOO_LARGE.
Refused(row) == row.to = Blank \/ row.msg \in Large

\* A POST is taken, or is refused, or finds no relay.
Taken(row) == ~Refused(row) /\ accepted' = accepted \cup {row.msg} /\ UNCHANGED outages
NotTaken(row) ==
  /\ UNCHANGED accepted
  /\ \/ Refused(row) /\ UNCHANGED outages
     \/ outages < MaxOutages /\ outages' = outages + 1

\* The step after the flush.
Resumed(call) == IF call = NoCall THEN "collect" ELSE "post"

\* A call begins with flush_outbox, which reads the queue once.
Begin ==
  /\ phase = "idle"
  /\ toFlush' = outbox
  /\ phase' = IF outbox = <<>> THEN Resumed(inHand') ELSE "flush"
  /\ UNCHANGED <<replyTo, outbox, accepted, outages>>

\* send_message, for a conversation that is open
Send(m, c) ==
  /\ m \notin composed /\ replyTo[c] # Unopened
  /\ inHand' = [msg |-> m, conv |-> c]
  /\ composed' = composed \cup {m}
  /\ Begin

\* receive_messages
Receive == inHand' = NoCall /\ UNCHANGED composed /\ Begin

\* The head of the snapshot is posted and its row removed.
FlushOne ==
  /\ phase = "flush"
  /\ Taken(Head(toFlush))
  /\ outbox' = SelectSeq(outbox, LAMBDA r : r.msg # Head(toFlush).msg)
  /\ toFlush' = Tail(toFlush)
  /\ phase' = IF Tail(toFlush) = <<>> THEN Resumed(inHand) ELSE "flush"
  /\ UNCHANGED <<replyTo, inHand, composed>>

\* record_attempt, and the loop breaks: flush_outbox answers Ok.
FlushStops ==
  /\ phase = "flush"
  /\ NotTaken(Head(toFlush))
  /\ toFlush' = <<>>
  /\ phase' = Resumed(inHand)
  /\ UNCHANGED <<replyTo, outbox, inHand, composed>>

\* The message itself: posted, or queued with the address of this moment.
Post ==
  /\ phase = "post"
  /\ LET row == [msg |-> inHand.msg, to |-> replyTo[inHand.conv]]
     IN \/ Taken(row) /\ UNCHANGED outbox
        \/ NotTaken(row) /\ outbox' = Append(outbox, row)
  /\ phase' = "idle"
  /\ inHand' = NoCall
  /\ UNCHANGED <<replyTo, toFlush, composed>>

\* A batch: Welcomes open conversations (try_join), and Hellos give those
\* that are open their address (set_peer).  No queued row is touched.
Collect ==
  /\ phase = "collect"
  /\ \E welcomes \in SUBSET {c \in Conv : replyTo[c] = Unopened} :
     \E hellos \in SUBSET {c \in Conv : replyTo[c] = Blank \/ c \in welcomes} :
        replyTo' = [c \in Conv |-> IF c \in hellos THEN Known
                                   ELSE IF c \in welcomes THEN Blank ELSE replyTo[c]]
  /\ phase' = "idle"
  /\ UNCHANGED <<outbox, toFlush, inHand, composed, accepted, outages>>

Step == FlushOne \/ FlushStops \/ Post \/ Collect

Next == Receive \/ Step \/ \E m \in Msg, c \in Conv : Send(m, c)

\* The clients poll, and a call that has begun goes on.
FairSpec == Init /\ [][Next]_vars /\ WF_vars(Receive) /\ WF_vars(Step)

----------------------------------------------------------------------------

\* A message that waits in the outbox is on its way in the end.
\* clients/cli/src/commands/storage.rs:101 tells the user so.  Refuted: a row
\* queued with an empty address keeps it after the Hello, and everything
\* behind it waits with it.
EverythingGoesOut ==
  \A m \in Msg : (\E i \in DOMAIN outbox : outbox[i].msg = m) ~> m \in accepted
=============================================================================
