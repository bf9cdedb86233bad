------------------------------ MODULE Contacts -----------------------------
(***************************************************************************)
(* Who a conversation is with: the contacts, conversations and             *)
(* identity_changes tables of core/src/storage/contacts.rs, the calls of   *)
(* core/src/api/contacts.rs and storage_controls.rs that decide what the   *)
(* interface says of a contact, and the identity check that                *)
(* receive_messages makes for every letter (core/src/api/messaging.rs).    *)
(*                                                                         *)
(* A contact's id is the identity key it was added under.  A conversation  *)
(* speaks with the key of the peer's MLS credential, which the group fixes *)
(* and which need not be the key an invite code claimed.                   *)
(*                                                                         *)
(* One call runs at a time, under the client's lock.  Each statement of    *)
(* replace_identity_key is a step: it is not wrapped in a transaction.     *)
(***************************************************************************)
EXTENDS FiniteSets

CONSTANTS
  Key,      \* identity keys, and the ids of the contacts added under them
  Conv,     \* conversations (MLS groups)
  Nobody    \* no contact, or a conversation not opened yet

ASSUME ContactsAssumption == Nobody \notin Key \cup Conv

VARIABLES
  known,     \* disk: ids of the contacts rows
  inUse,     \* disk: contacts.public_key
  verified,  \* disk: ids with contacts.verified = 1
  unacked,   \* disk: ids with an identity_changes row, acknowledged = 0
  contactOf, \* disk: conversations.contact_id
  speaker,   \* the credential key behind each conversation
  replacing, \* memory: the conversation of a change half recorded
  number,    \* the user: the safety number in front of them, [id, key]
  marked,    \* history: the key in use when a contact was marked verified
  compared,  \* history: <<id, key>> of the safety numbers compared
  answered,  \* history: <<id, key>> of the changes the user answered
  open,      \* history: contacts whose latest change nobody has answered
  struck     \* history: the process stopped inside a change

rows == <<known, inUse, verified, unacked, contactOf>>
vars == <<rows, speaker, replacing, number, marked, compared, answered, open, struck>>

NoNumber == [id |-> Nobody, key |-> Nobody]

TypeOK ==
  /\ known \subseteq Key
  /\ inUse \in [Key -> Key]
  /\ verified \subseteq known
  /\ unacked \subseteq known
  /\ contactOf \in [Conv -> known \cup {Nobody}]
  /\ speaker \in [Conv -> Key \cup {Nobody}]
  /\ replacing \in {c \in Conv : contactOf[c] # Nobody} \cup {Nobody}
  /\ number \in [id : known, key : Key] \cup {NoNumber}
  /\ marked \in [Key -> Key \cup {Nobody}]
  /\ compared \subseteq Key \X Key
  /\ answered \subseteq Key \X Key
  /\ open \subseteq known
  /\ struck \in BOOLEAN

Init ==
  /\ known = {}
  /\ inUse = [k \in Key |-> k]
  /\ verified = {}
  /\ unacked = {}
  /\ contactOf = [c \in Conv |-> Nobody]
  /\ speaker = [c \in Conv |-> Nobody]
  /\ replacing = Nobody
  /\ number = NoNumber
  /\ marked = [k \in Key |-> Nobody]
  /\ compared = {} /\ answered = {}
  /\ open = {}
  /\ struck = FALSE

----------------------------------------------------------------------------

\* Faulty variants of the next definitions: a new key keeps the mark, a
\* change already answered is not asked again, a contact is replaced rather
\* than updated, a conversation is put under the key that speaks in it.
StillVerified(id) == verified
OnlyFirstChange(id) == IF inUse[id] = id THEN unacked ELSE unacked \cup {id}
VerifiedAfterReplace(id) == verified \ {id}
ContactOfTheKey(c) == speaker[c]

\* UPDATE contacts SET public_key, verified = 0
VerifiedAfterChange(id) == verified \ {id}

\* INSERT OR REPLACE INTO identity_changes, acknowledged = 0
UnackedAfterChange(id) == unacked \cup {id}

\* put_contact of a contact already known leaves its mark alone.
VerifiedAfterPut(id) == verified

\* put_contact inserts the row when there is none.
KnownAfterPut(id) == known \cup {id}

\* The contact a Hello speaks for: the one the conversation already has, or
\* else the one its key would make.
HelloContact(c) == IF contactOf[c] # Nobody THEN contactOf[c] ELSE speaker[c]

\* put_contact, then put_conversation.
Put(id, c) ==
  /\ known' = KnownAfterPut(id)
  /\ verified' = VerifiedAfterPut(id)
  /\ contactOf' = [contactOf EXCEPT ![c] = id]

----------------------------------------------------------------------------

\* No call is inside the database.
Quiet == replacing = Nobody

\* add_contact: the invite claims key k, its key package carries key s.
AddContact(c, k, s) ==
  /\ Quiet
  /\ speaker[c] = Nobody
  /\ speaker' = [speaker EXCEPT ![c] = s]
  /\ Put(k, c)
  /\ UNCHANGED <<inUse, unacked, replacing, number, marked, compared, answered,
                 open, struck>>

\* try_join: a Welcome opens a conversation with the credential it carries.
Join(c, s) == AddContact(c, s, s)

\* A letter of conversation c decrypts and its sender key is not the one in
\* use: the first statement of replace_identity_key.
KeyDiffers(c) ==
  /\ Quiet
  /\ contactOf[c] # Nobody
  /\ LET id == contactOf[c]
     IN  /\ inUse[id] # speaker[c]
         /\ inUse' = [inUse EXCEPT ![id] = speaker[c]]
         /\ verified' = VerifiedAfterChange(id)
         /\ replacing' = c
         /\ open' = open \cup {id}
  /\ UNCHANGED <<known, unacked, contactOf, speaker, number, marked, compared,
                 answered, struck>>

\* A letter that passed the identity check: a Hello is put, a Text leaves all
\* of this alone.
Handle(c) ==
  \/ Put(HelloContact(c), c)
  \/ UNCHANGED <<known, verified, contactOf>>

\* The second statement, and the rest of the letter.
RecordChange ==
  /\ ~Quiet
  /\ unacked' = UnackedAfterChange(contactOf[replacing])
  /\ Handle(replacing)
  /\ replacing' = Nobody
  /\ UNCHANGED <<inUse, speaker, number, marked, compared, answered, open, struck>>

\* A letter whose sender key is the one in use.
KeyMatches(c) ==
  /\ Quiet
  /\ contactOf[c] # Nobody
  /\ inUse[contactOf[c]] = speaker[c]
  /\ Handle(c)
  /\ UNCHANGED <<inUse, unacked, speaker, replacing, number, marked, compared,
                 answered, open, struck>>

\* safety_number: it is derived once and stays in front of the user.
ShowNumber(id) ==
  /\ Quiet
  /\ number' = [id |-> id, key |-> inUse[id]]
  /\ UNCHANGED <<rows, speaker, replacing, marked, compared, answered, open, struck>>

\* The user finds that the numbers match: verify_contact names the contact
\* and nothing else.
Verify ==
  /\ Quiet
  /\ number # NoNumber
  /\ verified' = verified \cup {number.id}
  /\ marked' = [marked EXCEPT ![number.id] = inUse[number.id]]
  /\ compared' = compared \cup {<<number.id, number.key>>}
  /\ number' = NoNumber
  /\ UNCHANGED <<known, inUse, unacked, contactOf, speaker, replacing, answered,
                 open, struck>>

\* verify_contact(id, false)
Unverify(id) ==
  /\ Quiet
  /\ verified' = verified \ {id}
  /\ UNCHANGED <<known, inUse, unacked, contactOf, speaker, replacing, number,
                 marked, compared, answered, open, struck>>

\* acknowledge_identity_change of a change that identity_changes listed.
Acknowledge(id) ==
  /\ Quiet
  /\ id \in unacked
  /\ unacked' = unacked \ {id}
  /\ open' = open \ {id}
  /\ answered' = answered \cup {<<id, inUse[id]>>}
  /\ UNCHANGED <<known, inUse, verified, contactOf, speaker, replacing, number,
                 marked, compared, struck>>

\* The process ends.  What the user wrote down stays with the user.
Stop ==
  /\ replacing' = Nobody
  /\ struck' = (struck \/ ~Quiet)
  /\ UNCHANGED <<rows, speaker, number, marked, compared, answered, open>>

Next ==
  \/ \E c \in Conv, k, s \in Key : AddContact(c, k, s)
  \/ \E c \in Conv, s \in Key : Join(c, s)
  \/ \E c \in Conv : KeyDiffers(c) \/ KeyMatches(c)
  \/ RecordChange
  \/ \E id \in known : ShowNumber(id) \/ Unverify(id) \/ Acknowledge(id)
  \/ Verify
  \/ Stop

Spec == Init /\ [][Next]_vars

----------------------------------------------------------------------------

\* What conversations() says of a contact.
IdentityState(id) ==
  IF id \in unacked THEN "KeyChanged"
  ELSE IF id \in verified THEN "Verified" ELSE "Unverified"

\* contacts.rs:115: nobody is shown as verified under a key that came into use
\* after they were marked, whatever stopped between the statements.
VerifiedUnderThisKey ==
  \A id \in known : IdentityState(id) = "Verified" => marked[id] = inUse[id]

\* contacts.rs:98-102 of the API: a contact is shown as changed exactly from
\* the change, a second or third one too, to the user's answer; unless the
\* process stopped between the two statements that record it.
ChangeStaysUntilAnswered ==
  Quiet /\ ~struck =>
    \A id \in known : IdentityState(id) = "KeyChanged" <=> id \in open

\* D-033: a mark the user set goes only with the key it was set for, or when
\* the user takes it back; adding or meeting the contact again keeps it.
MarkGoesOnlyWithItsKey ==
  [][\A id \in verified \ verified' : inUse'[id] # inUse[id] \/ Unverify(id)]_vars

\* D-034: a thread never moves to another contact, so a new key is a warning
\* about the person it belongs to and not a second person.
ThreadKeepsItsContact ==
  [][\A c \in Conv : contactOf[c] # Nobody => contactOf'[c] = contactOf[c]]_vars

\* contacts.rs:81 of the API, "after the user has actually compared the
\* number": who is shown as verified had the number of the key in use
\* compared, or the user was told of the change to that key and answered it.
\* verify_contact names no key, so a change between the number and the mark
\* ends in the second case.
MarkIsComparedOrAnswered ==
  ~struck => \A id \in known : IdentityState(id) = "Verified" =>
                 <<id, inUse[id]>> \in compared \cup answered

=============================================================================
