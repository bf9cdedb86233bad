------------------------------- MODULE Pairing -----------------------------
(***************************************************************************)
(* How two clients come to share a conversation: invite_code and           *)
(* add_contact of core/src/api/contacts.rs on one side, try_join and the   *)
(* Hello of receive_messages (core/src/api/messaging.rs) on the other, and *)
(* what Pouch::open rebuilds (core/src/api/mod.rs).                        *)
(*                                                                         *)
(* The initiator adds the joiner, perhaps several times, from invite codes *)
(* the joiner hands out.  Calls are split into steps at every statement    *)
(* and request; either process may stop between any two of them.  An MLS   *)
(* group exists in the provider (memory) and in the snapshot (disk); the   *)
(* map of conversations a client can use is in memory only.                *)
(*                                                                         *)
(* Text messages and the ratchet are in Sender and Receiver, keys that     *)
(* change in Contacts; display names are left out.                         *)
(***************************************************************************)
EXTENDS FiniteSets

CONSTANTS
  Conv,     \* MLS groups, and the conversations that have their id
  Invite,   \* invite codes; each carries a single-use key package
  Nothing,  \* no invite, no conversation
  Blank,    \* the empty reply address
  Known     \* the initiator's inbox

Letter == [kind : {"Welcome", "Hello"}, conv : Conv]
Welcome(c) == [kind |-> "Welcome", conv |-> c]
Hello(c) == [kind |-> "Hello", conv |-> c]

ASSUME PairingAssumption ==
  /\ Nothing \notin Conv \cup Invite \cup Letter
  /\ Blank # Known
  /\ Nothing \notin {Blank, Known}

VARIABLES
  \* The initiator
  offered,      \* disk: conversations rows
  savedGroups,  \* disk: groups in the mls_state row
  groups,       \* memory: groups in the MLS provider
  live,         \* memory: the conversations map
  adding,       \* memory: the conversation add_contact is making, or Nothing
  addStep,      \* memory: the next step of add_contact
  usedInvite,   \* the invite each group was created from
  added,        \* history: conversations add_contact answered Ok for
  \* The joiner's inbox on the relay
  posted, waiting, erased,
  \* The joiner
  codes,        \* invite codes handed out
  opened,       \* disk: conversations rows
  contactInbox, \* disk: the initiator's contacts.inbox_id; Nothing: no row
  saved,        \* disk: the mls_state row
  provider,     \* memory: the MLS provider
  replyTo,      \* memory: the conversations map, peer_inbox_id of each
  step,         \* memory: the next step of receive_messages
  joining,      \* memory: the Welcome being joined, or Nothing
  batch,        \* memory: collected letters not looked at yet
  handled,      \* memory: letters to acknowledge
  collected,    \* history: the letters of the last collect
  startedBlank  \* history: this process started with a blank contactInbox

drop == <<posted, waiting, erased>>
iVars == <<offered, savedGroups, groups, live, adding, addStep, usedInvite, added>>
jVars == <<codes, opened, contactInbox, saved, provider, replyTo, step, joining,
           batch, handled, collected, startedBlank>>
vars == <<iVars, drop, jVars>>

Drop == INSTANCE MailDrop

\* What a joiner's provider holds: private key packages, groups, and the
\* groups whose Hello has used its key.
Provider == [packages : SUBSET Invite, groups : SUBSET Conv, heard : SUBSET Conv]

TypeOK ==
  /\ offered \subseteq Conv
  /\ savedGroups \subseteq Conv
  /\ groups \subseteq Conv
  /\ live \subseteq offered \cap groups
  /\ adding \in Conv \cup {Nothing}
  /\ addStep \in {"idle", "rows", "welcome", "open", "hello", "save"}
  /\ usedInvite \in [Conv -> Invite \cup {Nothing}]
  /\ added \subseteq Conv
  /\ posted \subseteq Letter
  /\ waiting \subseteq posted
  /\ erased \subseteq posted
  /\ codes \subseteq Invite
  /\ opened \subseteq Conv
  /\ contactInbox \in {Nothing, Blank, Known}
  /\ saved \in Provider
  /\ provider \in Provider
  /\ replyTo \in [Conv -> {Nothing, Blank, Known}]
  /\ \A c \in Conv : replyTo[c] # Nothing => c \in opened \cap provider.groups
  /\ step \in {"idle", "read", "row", "save", "persist"}
  /\ joining \in posted \cup {Nothing}
  /\ batch \subseteq posted
  /\ handled \subseteq posted
  /\ collected \subseteq posted
  /\ startedBlank \in BOOLEAN

Init ==
  /\ offered = {} /\ savedGroups = {} /\ groups = {} /\ live = {}
  /\ adding = Nothing /\ addStep = "idle"
  /\ usedInvite = [c \in Conv |-> Nothing]
  /\ added = {}
  /\ Drop!Init
  /\ codes = {} /\ opened = {}
  /\ contactInbox = Nothing
  /\ saved = [packages |-> {}, groups |-> {}, heard |-> {}]
  /\ provider = saved
  /\ replyTo = [c \in Conv |-> Nothing]
  /\ step = "idle" /\ joining = Nothing
  /\ batch = {} /\ handled = {} /\ collected = {}
  /\ startedBlank = FALSE

----------------------------------------------------------------------------

\* Faulty variants of the next definitions: a snapshot is not written, or
\* only at the end of the call; a contact that is known is left as it is;
\* set_peer is forgotten; letters are read in one pass; a letter of any
\* conversation is read.
SnapshotNotTaken == savedGroups
SavedAtTheEnd == saved
InboxOfTheRow == contactInbox
ReplyAsBefore(c) == replyTo
OnePass == TRUE
DecryptsAnything(c) == TRUE

\* reload_conversations: a conversation needs its rows and its group.
Reloaded(rows, inSnapshot) == rows \cap inSnapshot

\* What persist_mls_state writes on the initiator's side,
Snapshot == groups

\* and at the end of try_join, before the next blob is looked at.
SavedAfterJoin == provider

\* put_contact of a Hello, and set_peer.
InboxAfterHello == Known
ReplyAfterHello(c) == [replyTo EXCEPT ![c] = Known]

\* The second pass begins when no Welcome is left.
WelcomesFirst == \A l \in batch : l.kind # "Welcome"

\* Whether a Hello decrypts: in the group of the conversation, with a key
\* that has not been used.
Decrypts(c) == replyTo[c] # Nothing /\ c \notin provider.heard

----------------------------------------------------------------------------
(***************************************************************************)
(* The initiator                                                           *)
(***************************************************************************)

\* add_contact creates the group from an invite.
Add(c, i) ==
  /\ addStep = "idle"
  /\ i \in codes
  /\ usedInvite[c] = Nothing
  /\ usedInvite' = [usedInvite EXCEPT ![c] = i]
  /\ groups' = groups \cup {c}
  /\ adding' = c
  /\ addStep' = "rows"
  /\ UNCHANGED <<offered, savedGroups, live, added, drop, jVars>>

\* put_contact and put_conversation.  (Stopped in between, there is a contact
\* and no conversation.)
PutRows ==
  /\ addStep = "rows"
  /\ offered' = offered \cup {adding}
  /\ addStep' = "welcome"
  /\ UNCHANGED <<savedGroups, groups, live, adding, usedInvite, added, drop, jVars>>

\* A POST answers Ok, and add_contact goes on.
Posted(letter, next) ==
  /\ Drop!Submit(letter)
  /\ addStep' = next
  /\ UNCHANGED <<offered, savedGroups, groups, live, adding, usedInvite, added, jVars>>

\* A POST answers Err, before or after the relay accepted the blob, and `?`
\* ends add_contact.
Failed(letter) ==
  /\ UNCHANGED drop \/ Drop!Submit(letter)
  /\ addStep' = "idle"
  /\ adding' = Nothing
  /\ UNCHANGED <<offered, savedGroups, groups, live, usedInvite, added, jVars>>

PostWelcome ==
  /\ addStep = "welcome"
  /\ Posted(Welcome(adding), "open") \/ Failed(Welcome(adding))

\* The conversation joins the map and persist_mls_state runs.
OpenOwn ==
  /\ addStep = "open"
  /\ live' = live \cup {adding}
  /\ savedGroups' = Snapshot
  /\ addStep' = "hello"
  /\ UNCHANGED <<offered, groups, adding, usedInvite, added, drop, jVars>>

\* send_payload of the Hello: a failed one is neither queued nor persisted.
PostHello ==
  /\ addStep = "hello"
  /\ Posted(Hello(adding), "save") \/ Failed(Hello(adding))

FinishAdd ==
  /\ addStep = "save"
  /\ savedGroups' = Snapshot
  /\ added' = added \cup {adding}
  /\ addStep' = "idle"
  /\ adding' = Nothing
  /\ UNCHANGED <<offered, groups, live, usedInvite, drop, jVars>>

\* Any other call that ends in persist_mls_state.
OtherCall ==
  /\ addStep = "idle"
  /\ savedGroups' = Snapshot
  /\ UNCHANGED <<offered, groups, live, adding, addStep, usedInvite, added, drop, jVars>>

\* The process ends, anywhere, and Pouch::open starts from the disk.
InitiatorRestart ==
  /\ groups' = savedGroups
  /\ live' = Reloaded(offered, savedGroups)
  /\ addStep' = "idle"
  /\ adding' = Nothing
  /\ UNCHANGED <<offered, savedGroups, usedInvite, added, drop, jVars>>

----------------------------------------------------------------------------
(***************************************************************************)
(* The joiner                                                              *)
(***************************************************************************)

\* invite_code persists the private key package before the code is shown.
InviteCode(i) ==
  /\ step = "idle"
  /\ i \notin codes
  /\ provider' = [provider EXCEPT !.packages = @ \cup {i}]
  /\ saved' = provider'
  /\ codes' = codes \cup {i}
  /\ UNCHANGED <<opened, contactInbox, replyTo, step, joining, batch, handled,
                 collected, startedBlank, drop, iVars>>

Collect ==
  /\ step = "idle"
  /\ step' = "read"
  /\ batch' = waiting
  /\ collected' = waiting
  /\ UNCHANGED <<codes, opened, contactInbox, saved, provider, replyTo, joining,
                 handled, startedBlank, drop, iVars>>

\* try_join: the key package is there and is used up; put_contact with an
\* empty reply address, over the row that may be there.
Join(l) ==
  /\ step = "read"
  /\ l.kind = "Welcome"
  /\ usedInvite[l.conv] \in provider.packages
  /\ provider' = [provider EXCEPT !.packages = @ \ {usedInvite[l.conv]},
                                  !.groups = @ \cup {l.conv}]
  /\ contactInbox' = Blank
  /\ joining' = l
  /\ batch' = batch \ {l}
  /\ step' = "row"
  /\ UNCHANGED <<codes, opened, saved, replyTo, handled, collected, startedBlank,
                 drop, iVars>>

\* put_conversation.
PutRow ==
  /\ step = "row"
  /\ opened' = opened \cup {joining.conv}
  /\ step' = "save"
  /\ UNCHANGED <<codes, contactInbox, saved, provider, replyTo, joining, batch,
                 handled, collected, startedBlank, drop, iVars>>

\* The conversation joins the map and persist_mls_state ends try_join.
SaveJoin ==
  /\ step = "save"
  /\ replyTo' = [replyTo EXCEPT ![joining.conv] = Blank]
  /\ saved' = SavedAfterJoin
  /\ handled' = handled \cup {joining}
  /\ joining' = Nothing
  /\ step' = "read"
  /\ UNCHANGED <<codes, opened, contactInbox, provider, batch, collected,
                 startedBlank, drop, iVars>>

\* A Hello decrypts: put_contact, set_peer.
ReadHello(l) ==
  /\ step = "read"
  /\ WelcomesFirst
  /\ l.kind = "Hello"
  /\ Decrypts(l.conv)
  /\ provider' = [provider EXCEPT !.heard = @ \cup {l.conv}]
  /\ contactInbox' = InboxAfterHello
  /\ replyTo' = ReplyAfterHello(l.conv)
  /\ handled' = handled \cup {l}
  /\ batch' = batch \ {l}
  /\ UNCHANGED <<codes, opened, saved, step, joining, collected, startedBlank,
                 drop, iVars>>

\* What cannot be joined or decrypted is left on the relay.
Skip(l) ==
  /\ step = "read"
  /\ \/ l.kind = "Welcome" /\ usedInvite[l.conv] \notin provider.packages
     \/ l.kind = "Hello" /\ WelcomesFirst /\ ~Decrypts(l.conv)
  /\ batch' = batch \ {l}
  /\ UNCHANGED <<codes, opened, contactInbox, saved, provider, replyTo, step,
                 joining, handled, collected, startedBlank, drop, iVars>>

\* The acknowledgement answers Ok; or Err, before or after the relay erased
\* anything, and `?` ends the call.
Ack ==
  /\ step = "read"
  /\ batch = {}
  /\ \/ Drop!Acknowledge(handled) /\ step' = "persist" /\ UNCHANGED handled
     \/ /\ UNCHANGED drop \/ Drop!Acknowledge(handled)
        /\ step' = "idle"
        /\ handled' = {}
  /\ UNCHANGED <<codes, opened, contactInbox, saved, provider, replyTo, joining,
                 batch, collected, startedBlank, iVars>>

Persist ==
  /\ step = "persist"
  /\ saved' = provider
  /\ handled' = {}
  /\ step' = "idle"
  /\ UNCHANGED <<codes, opened, contactInbox, provider, replyTo, joining, batch,
                 collected, startedBlank, drop, iVars>>

JoinerRestart ==
  /\ provider' = saved
  /\ replyTo' = [c \in Conv |-> IF c \in Reloaded(opened, saved.groups)
                                THEN contactInbox ELSE Nothing]
  /\ startedBlank' = (contactInbox = Blank)
  /\ step' = "idle"
  /\ joining' = Nothing
  /\ batch' = {}
  /\ handled' = {}
  /\ UNCHANGED <<codes, opened, contactInbox, saved, collected, drop, iVars>>

----------------------------------------------------------------------------

\* The relay's time to live runs out for a letter.
RelayExpires ==
  /\ \E l \in waiting : Drop!Expire({l})
  /\ UNCHANGED <<iVars, jVars>>

Next ==
  \/ \E c \in Conv, i \in Invite : Add(c, i)
  \/ PutRows \/ PostWelcome \/ OpenOwn \/ PostHello \/ FinishAdd
  \/ OtherCall \/ InitiatorRestart
  \/ \E i \in Invite : InviteCode(i)
  \/ Collect
  \/ \E l \in batch : Join(l) \/ ReadHello(l) \/ Skip(l)
  \/ PutRow \/ SaveJoin \/ Ack \/ Persist \/ JoinerRestart
  \/ RelayExpires

Spec == Init /\ [][Next]_vars

----------------------------------------------------------------------------

\* mod.rs:228: a conversation add_contact answered Ok for has its rows and its
\* group on disk and is in the map, before and after any restart.
AddedIsDurable == added \subseteq offered \cap savedGroups \cap live

\* messaging.rs:306: a Welcome the relay was told to erase is a conversation
\* the joiner keeps, row and group, even if the call that acknowledged it
\* never came to its own persist_mls_state.
OpenedIsDurable ==
  \A c \in Conv : Welcome(c) \in erased => c \in opened \cap saved.groups

\* D-026: wherever processes stopped, the reply address on disk is blank only
\* while the Hello of some conversation offered has not been dealt with,
\* although every Welcome writes a blank over it.
AddressIsLearned ==
  contactInbox = Blank =>
    \E c \in Conv : Welcome(c) \in posted /\ Hello(c) \notin erased

\* A conversation whose Hello was acknowledged is replied to at the right
\* address, also while later Welcomes blank the row; unless this process
\* started when the row was blank.
HeardIsAddressed ==
  ~startedBlank =>
    \A c \in Conv :
      Hello(c) \in erased /\ replyTo[c] # Nothing => replyTo[c] = Known

\* D-026 "processes Welcomes in a pass of their own": whatever order the relay
\* returns, one poll reads every Hello it collected whose conversation is open
\* at its end.
OnePollSuffices ==
  step = "read" /\ batch = {} =>
    \A c \in provider.groups : Hello(c) \in collected => c \in provider.heard

Intro == INSTANCE Introduction WITH heard <- {c \in Conv : Hello(c) \in erased}

\* The joiner has no conversation the initiator has no record of, and no
\* Hello is gone without its conversation, wherever either process stopped.
ImplementsIntroduction == Intro!Spec

=============================================================================
