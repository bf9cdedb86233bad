-------------------------------- MODULE Wire -------------------------------
(***************************************************************************)
(* What the two ends of one direction of a conversation share: the inbox   *)
(* of the recipient on the relay, seen through core/src/transport.rs, and  *)
(* the passing of time.                                                    *)
(*                                                                         *)
(* The inbox is the mail drop that Relay implements.  A letter is one      *)
(* accepted POST: an envelope with the relay's random identifier around a  *)
(* blob, which is an MLS ciphertext of one body at one ratchet generation. *)
(***************************************************************************)
EXTENDS Integers, FiniteSets

CONSTANTS
  Msg,         \* what is sent; each is sent once
  Hello,       \* the one that says where to reply: in Msg if the sender
               \* added the contact, and not if it was the one who was added
  MessageId,   \* the relay's random identifiers
  Keep,        \* seconds the conversation's retention keeps a message
  Forever,     \* the value of Keep when there is no limit
  MaxClock,    \* bound: the clock stops here
  MaxLost,     \* bound: answers of the relay that get lost
  MaxExpired   \* bound: letters the relay's time to live removes

ASSUME WireAssumption == /\ Keep \in Nat \cup {Forever}
                         /\ MaxClock \in Nat
                         /\ MaxLost \in Nat
                         /\ MaxExpired \in Nat

VARIABLES
  clock,    \* now(), in seconds
  posted,   \* the mail drop: every letter ever accepted,
  waiting,  \*   those a collect returns,
  erased,   \*   those an acknowledgement named
  lost      \* bound: answers lost so far

Envelope == [id : MessageId, msg : Msg, gen : Nat]

Drop == INSTANCE MailDrop WITH Letter <- Envelope

wireVars == <<clock, posted, waiting, erased, lost>>

WireTypeOK ==
  /\ clock \in Nat
  /\ posted \subseteq Envelope
  /\ waiting \subseteq posted
  /\ erased \subseteq posted
  /\ lost \in Nat

WireInit == clock = 0 /\ lost = 0 /\ Drop!Init

----------------------------------------------------------------------------

\* The relay accepts a blob and gives it an identifier no letter has had;
\* which one makes no difference, so one is chosen.
Post(m, g) ==
  LET free == MessageId \ {e.id : e \in posted}
  IN  /\ free # {}
      /\ Drop!Submit([id |-> CHOOSE i \in free : TRUE, msg |-> m, gen |-> g])

\* An answer of the relay is lost after the request was carried out.
LoseAnswer ==
  /\ lost < MaxLost
  /\ lost' = lost + 1

\* RelayClient::send answers Ok.
PostAnswered(m, g) == Post(m, g) /\ UNCHANGED <<clock, lost>>

\* RelayClient::send answers Err: the relay was not reached or refused, or it
\* accepted the blob and the answer was lost.
PostFailed(m, g) ==
  \/ UNCHANGED wireVars
  \/ Post(m, g) /\ LoseAnswer /\ UNCHANGED clock

\* RelayClient::acknowledge answers Ok; an empty list makes no request.
EraseAnswered(letters) ==
  IF letters = {}
  THEN UNCHANGED wireVars
  ELSE Drop!Acknowledge(letters) /\ UNCHANGED <<clock, lost>>

\* RelayClient::acknowledge answers Err, before or after the relay acted.
EraseFailed(letters) ==
  /\ letters # {}
  /\ \/ UNCHANGED wireVars
     \/ Drop!Acknowledge(letters) /\ LoseAnswer /\ UNCHANGED clock

----------------------------------------------------------------------------

\* The relay's time to live runs out for a letter.
RelayExpires ==
  /\ Cardinality(posted \ (waiting \cup erased)) < MaxExpired
  /\ \E e \in waiting : Drop!Expire({e})
  /\ UNCHANGED <<clock, lost>>

Tick ==
  /\ clock < MaxClock
  /\ clock' = clock + 1
  /\ UNCHANGED <<posted, waiting, erased, lost>>

\* The condition under which purge_expired deletes a row of second `at`.
Outlived(at) == Keep # Forever /\ at < clock - Keep

=============================================================================
