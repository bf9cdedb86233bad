------------------------------- MODULE Device ------------------------------
(***************************************************************************)
(* One device from first run to wipe: create, open and wipe_all of         *)
(* core/src/api/mod.rs, the backup of api/backup.rs and the retention      *)
(* rules of storage/settings.rs, over the rows they share.                 *)
(*                                                                         *)
(* A call is a sequence of statements, each durable on its own: wipe is a  *)
(* batch without a transaction, and import writes row by row.  The process *)
(* may stop, or a statement may fail, between any two.  One process at a   *)
(* time has the database and serves one call at a time.                    *)
(*                                                                         *)
(* An identity is its key.  The MLS snapshot is reduced to the key whose   *)
(* private half is in it: the ratchets are Sender's and Receiver's, who    *)
(* also say which statements the calls named send and receive are.  A      *)
(* conversation stands for its contact too (Contacts has both), and the    *)
(* outbox is only filled and purged here (Sender empties it).  Seconds are *)
(* kept with the width the code gives them, scaled down.                   *)
(***************************************************************************)
EXTENDS Integers

CONSTANTS
  Key,           \* identity keys
  Conversation,  \* random identifiers of conversations
  Message,       \* random identifiers of messages
  NoKey, NoRow, NoConversation, NoBackup,
  Follow,        \* disappear_after is NULL
  Forever,       \* no retention setting, or "forever"
  Policy,        \* seconds of the other retention policies
  Seconds,       \* what a user may ask of disappearing messages, as u64
  Word,          \* 2^64, scaled down
  MaxTime,       \* bound: the last second
  MaxFaults      \* bound: stops in mid-call and failed statements

ASSUME DeviceAssumption ==
  /\ NoKey \notin Key /\ NoConversation \notin Conversation
  /\ NoRow \notin [owner : Key, rule : Int \cup {Follow}]
  /\ Policy \subseteq Nat /\ Forever \notin Nat
  /\ Word \in Nat /\ Seconds \subseteq 0..(Word - 1) /\ Follow \notin Int
  /\ MaxTime \in Nat /\ MaxFaults \in Nat

VARIABLES
  \* On disk, a row or a table each; then the file a backup was written to.
  identity, mls, conversations, messages, outbox, policy, backup,
  \* In memory: the identity of the open Pouch; the call in progress, its next
  \* statement and the identity it works for; the conversation in hand, the
  \* rows of a backup still to be written, and the time a purge began.
  pouch, call, next, key, current, toPut, rows, asof,
  now,       \* the clock
  promised,  \* history: the second up to which retention was last applied
  strayed,   \* history: rows were written beside an identity not theirs
  faults     \* bound: faults so far

disk == <<identity, mls, conversations, messages, outbox, policy, backup>>
hand == <<key, current, toPut, rows, asof>>
vars == <<disk, pouch, call, next, hand, now, promised, strayed, faults>>

Never == -1
Row == [owner : Key, rule : Int \cup {Follow}]
Stored == [id : Message, conversation : Conversation, at : Nat]
Backup == [identity : Key, conversations : [Conversation -> Row \cup {NoRow}],
           messages : SUBSET Stored, policy : Policy \cup {Forever}]

Init ==
  /\ identity = NoKey /\ mls = NoKey
  /\ conversations = [c \in Conversation |-> NoRow]
  /\ messages = {} /\ outbox = {} /\ policy = Forever /\ backup = NoBackup
  /\ pouch = NoKey /\ call = "idle" /\ next = "none"
  /\ key = NoKey /\ current = NoConversation /\ toPut = {} /\ rows = {}
  /\ asof = 0 /\ now = 0 /\ promised = Never /\ strayed = FALSE /\ faults = 0

----------------------------------------------------------------------------
(***************************************************************************)
(* What the statements compute                                             *)
(***************************************************************************)

Present(cs) == {c \in Conversation : cs[c] # NoRow}

\* What the backup file holds.
FiledKey == IF backup = NoBackup THEN {} ELSE {backup.identity}
FiledConversations == IF backup = NoBackup THEN {} ELSE Present(backup.conversations)
FiledMessages == IF backup = NoBackup THEN {} ELSE backup.messages

\* Identifiers drawn at random: none that is in use.
NewConversations == Conversation \ (Present(conversations) \cup FiledConversations)
NewMessages == Message \ {r.id : r \in messages \cup outbox \cup FiledMessages}

\* The conversations a Pouch of that key has in its map: the snapshot it was
\* restored from has their groups.
Live(k) == {c \in Present(conversations) : conversations[c].owner = k}

\* A u64 as SQLite keeps it: `s as i64`.
AsI64(s) == IF s < Word \div 2 THEN s ELSE s - Word

\* Faulty variants of the definitions that follow: the shorter of the two
\* rules wins; the conversation's own is forgotten; the key goes before the
\* history; the policy of the file is not restored.
KeptByShortest(table, t) ==
  {r \in table : LET rule == conversations[r.conversation].rule
                 IN  /\ policy = Forever \/ r.at >= t - policy
                     /\ rule = Follow \/ r.at >= t - rule}
KeptByDevice(table, t) == {r \in table : policy = Forever \/ r.at >= t - policy}
AfterTableKeyFirst ==
  [outbox |-> "mls_state", mls_state |-> "messages", messages |-> "conversations",
   conversations |-> "settings", settings |-> "identity"]
NextRowOnly(cs, ms) ==
  IF cs # {} THEN "put_conversation" ELSE IF ms # {} THEN "put_message" ELSE "load"

\* What the WHERE of purge_expired picks at time t.
Condemned(r, t) ==
  LET rule == conversations[r.conversation].rule
  IN  IF rule # Follow THEN r.at < t - rule
      ELSE policy # Forever /\ r.at < t - policy

Kept(table, t) == {r \in table : ~Condemned(r, t)}

\* ON CONFLICT DO UPDATE: a conversation that is there keeps its setting.
Upserted(c) ==
  IF conversations[c] # NoRow THEN conversations[c]
  ELSE [owner |-> IF call = "import" THEN backup.conversations[c].owner ELSE key,
        rule  |-> Follow]

\* The order in which wipe empties the tables.
AfterTable ==
  [outbox |-> "messages", messages |-> "conversations", conversations |-> "settings",
   settings |-> "mls_state", mls_state |-> "identity"]

\* import_backup: conversations, then messages, then the policy.
NextRow(cs, ms) ==
  IF cs # {} THEN "put_conversation"
  ELSE IF ms # {} THEN "put_message" ELSE "set_retention_policy"

\* A client writes rows whose identity, or its private key, is not there.
Astray == identity # key \/ mls # key

Ended ==
  /\ call' = "idle" /\ next' = "none" /\ key' = NoKey
  /\ current' = NoConversation /\ toPut' = {} /\ rows' = {} /\ asof' = 0

----------------------------------------------------------------------------
(***************************************************************************)
(* The calls begin                                                         *)
(***************************************************************************)

Begin(c, statement, k) ==
  /\ call = "idle"
  /\ call' = c /\ next' = statement /\ key' = k
  /\ UNCHANGED <<disk, pouch, now, promised, strayed, faults>>

\* A call of an open Pouch that works on a conversation, or on none.
Call(c, statement, conversation) ==
  /\ pouch # NoKey
  /\ Begin(c, statement, pouch)
  /\ current' = conversation
  /\ UNCHANGED <<toPut, rows, asof>>

\* Pouch::create makes a key; nothing looks at what the database holds.
Create ==
  /\ \E k \in Key \ ({identity, mls, pouch} \cup FiledKey
                     \cup {conversations[c].owner : c \in Present(conversations)}) :
       Begin("create", "put_identity", k)
  /\ UNCHANGED <<current, toPut, rows, asof>>

Open ==
  /\ pouch = NoKey
  /\ Begin("open", "load", NoKey)
  /\ UNCHANGED <<current, toPut, rows, asof>>

\* import_backup, once the file is decrypted and parsed: what fails before
\* that has written nothing.
Import ==
  /\ pouch = NoKey /\ backup # NoBackup
  /\ Begin("import", "put_identity", backup.identity)
  /\ toPut' = Present(backup.conversations)
  /\ rows' = backup.messages
  /\ UNCHANGED <<current, asof>>

Wipe == Call("wipe", "outbox", NoConversation)
SetRetentionPolicy == Call("policy", "set_retention_policy", NoConversation)
PurgeExpired == Call("purge", "purge", NoConversation)

\* An unknown conversation is refused.
SetDisappearingMessages(c) ==
  c \in Present(conversations) /\ Call("disappear", "set_disappear_after", c)

\* What other calls store: a conversation; a message sent or received; the
\* snapshot alone.  The identifiers left are a bound on the first three.
AddContact ==
  NewConversations # {} /\ Call("add", "put_conversation", NoConversation)
Send(c) ==
  c \in Live(pouch) /\ NewMessages # {} /\ Call("send", "put_message", c)
Receive(c) ==
  c \in Live(pouch) /\ NewMessages # {} /\ Call("receive", "put_message", c)
Invite == Call("invite", "put_mls_state", NoConversation)

\* export_backup only reads, and takes the identity and the ratchets from
\* memory.
Export ==
  /\ call = "idle" /\ pouch # NoKey
  /\ backup' = [identity |-> pouch, conversations |-> conversations,
                messages |-> messages, policy |-> policy]
  /\ UNCHANGED <<identity, mls, conversations, messages, outbox, policy, pouch, call,
                 next, hand, now, promised, strayed, faults>>

----------------------------------------------------------------------------
(***************************************************************************)
(* The statements                                                          *)
(***************************************************************************)

\* INSERT OR REPLACE of the one row.
PutIdentity ==
  /\ next = "put_identity"
  /\ identity' = key
  /\ strayed' = (strayed \/ (identity # key /\ mls # NoKey))
  /\ next' = "put_mls_state"
  /\ UNCHANGED <<mls, conversations, messages, outbox, policy, backup, pouch, call,
                 hand, now, promised, faults>>

PutMlsState ==
  /\ next = "put_mls_state"
  /\ mls' = key
  /\ strayed' = (strayed \/ identity # key)
  /\ IF call \in {"create", "import", "receive"}
     THEN /\ next' = CASE call = "create" -> "connect"
                       [] call = "import" -> NextRow(toPut, rows)
                       [] OTHER           -> "purge"
          /\ UNCHANGED <<call, hand>>
     ELSE Ended
  /\ UNCHANGED <<identity, conversations, messages, outbox, policy, backup, pouch,
                 now, promised, faults>>

\* RelayClient::new refuses an address that is neither pinned nor loopback,
\* after create has written both rows.
Connect ==
  /\ next = "connect"
  /\ pouch' \in {key, pouch}
  /\ Ended
  /\ UNCHANGED <<disk, now, promised, strayed, faults>>

\* open: the identity row, the signer in the snapshot, the relay's address.
Load ==
  /\ next = "load"
  /\ \/ /\ identity # NoKey /\ mls = identity
        /\ next' = "purge" /\ key' = identity
        /\ UNCHANGED <<call, current, toPut, rows, asof>>
     \/ Ended
  /\ UNCHANGED <<disk, pouch, now, promised, strayed, faults>>

\* An import goes on to disappear_after; add_contact goes on if the Welcome
\* could be posted, and gives the new group a new identifier.
PutConversation ==
  /\ next = "put_conversation"
  /\ \E c \in IF call = "import" THEN toPut ELSE NewConversations :
       /\ conversations' = [conversations EXCEPT ![c] = Upserted(c)]
       /\ \/ /\ call = "import"
             /\ current' = c /\ next' = "set_disappear_after"
             /\ UNCHANGED <<call, key, toPut, rows, asof>>
          \/ /\ call # "import"
             /\ next' = "put_mls_state" /\ UNCHANGED <<call, hand>>
          \/ call # "import" /\ Ended
  /\ strayed' = (strayed \/ Astray)
  /\ UNCHANGED <<identity, mls, messages, outbox, policy, backup, pouch, now, promised,
                 faults>>

SetDisappearAfter ==
  /\ next = "set_disappear_after"
  /\ \E rule \in IF call = "import" THEN {backup.conversations[current].rule}
                 ELSE {AsI64(s) : s \in Seconds} \cup {Follow} :
       conversations' = [conversations EXCEPT ![current].rule = rule]
  /\ toPut' = toPut \ {current}
  /\ next' = IF call = "import" THEN NextRow(toPut \ {current}, rows) ELSE "purge"
  /\ promised' = Never
  /\ UNCHANGED <<identity, mls, messages, outbox, policy, backup, pouch, call, key,
                 current, rows, asof, now, strayed, faults>>

\* A row of the backup, or a message sent or received now.
PutMessage ==
  /\ next = "put_message"
  /\ \E r \in IF call = "import" THEN rows
              ELSE [id : NewMessages, conversation : {current}, at : {now}] :
       /\ messages' = {q \in messages : q.id # r.id} \cup {r}
       /\ \/ call = "import" /\ rows' = rows \ {r} /\ next' = NextRow(toPut, rows \ {r})
          \/ call # "import" /\ rows' = {r} /\ next' = "put_mls_state"
          \/ call = "send" /\ rows' = {r} /\ next' = "enqueue"
  /\ promised' = IF call = "import" THEN Never ELSE promised
  /\ strayed' = (strayed \/ Astray)
  /\ UNCHANGED <<identity, mls, conversations, outbox, policy, backup, pouch, call, key,
                 current, toPut, asof, now, faults>>

\* The relay could not be reached: the blob waits.
Enqueue ==
  /\ next = "enqueue"
  /\ outbox' = outbox \cup {[r EXCEPT !.at = now] : r \in rows}
  /\ next' = "put_mls_state"
  /\ UNCHANGED <<identity, mls, conversations, messages, policy, backup, pouch, call,
                 hand, now, promised, strayed, faults>>

PutSetting ==
  /\ next = "set_retention_policy"
  /\ policy' \in IF call = "import" THEN {backup.policy} ELSE Policy \cup {Forever}
  /\ next' = IF call = "import" THEN "load" ELSE "purge"
  /\ promised' = Never
  /\ strayed' = (strayed \/ Astray)
  /\ UNCHANGED <<identity, mls, conversations, messages, outbox, backup, pouch, call,
                 hand, now, faults>>

\* purge_expired, its first DELETE and its second, with one reading of the
\* clock; then the call answers.
PurgeMessages ==
  /\ next = "purge"
  /\ messages' = Kept(messages, now)
  /\ asof' = now
  /\ next' = "purge_outbox"
  /\ UNCHANGED <<identity, mls, conversations, outbox, policy, backup, pouch, call,
                 key, current, toPut, rows, now, promised, strayed, faults>>

PurgeOutbox ==
  /\ next = "purge_outbox"
  /\ outbox' = Kept(outbox, asof)
  /\ promised' = asof
  /\ pouch' = key
  /\ Ended
  /\ UNCHANGED <<identity, mls, conversations, messages, policy, backup, now, strayed,
                 faults>>

\* One DELETE of wipe.  Conversations take with them what refers to them.
WipeTable ==
  /\ call = "wipe"
  /\ outbox' = IF next \in {"outbox", "conversations"} THEN {} ELSE outbox
  /\ messages' = IF next \in {"messages", "conversations"} THEN {} ELSE messages
  /\ conversations' = IF next = "conversations" THEN [c \in Conversation |-> NoRow]
                      ELSE conversations
  /\ policy' = IF next = "settings" THEN Forever ELSE policy
  /\ mls' = IF next = "mls_state" THEN NoKey ELSE mls
  /\ identity' = IF next = "identity" THEN NoKey ELSE identity
  /\ IF next \in DOMAIN AfterTable
     THEN next' = AfterTable[next] /\ UNCHANGED <<call, hand>>
     ELSE Ended
  /\ UNCHANGED <<backup, pouch, now, promised, strayed, faults>>

Statement ==
  \/ PutIdentity \/ PutMlsState \/ Connect \/ Load
  \/ PutConversation \/ SetDisappearAfter \/ PutMessage \/ Enqueue \/ PutSetting
  \/ PurgeMessages \/ PurgeOutbox \/ WipeTable

----------------------------------------------------------------------------

\* A statement fails and `?` ends the call; an open Pouch stays open.
Fail ==
  /\ call # "idle"
  /\ faults < MaxFaults /\ faults' = faults + 1
  /\ Ended
  /\ UNCHANGED <<disk, pouch, now, promised, strayed>>

\* The process ends, as the command line does after every call, or stops in
\* the middle of one.
Stop ==
  /\ IF call = "idle" THEN UNCHANGED faults
     ELSE faults < MaxFaults /\ faults' = faults + 1
  /\ pouch' = NoKey
  /\ Ended
  /\ UNCHANGED <<disk, now, promised, strayed>>

Tick ==
  /\ now < MaxTime /\ now' = now + 1
  /\ UNCHANGED <<disk, pouch, call, next, hand, promised, strayed, faults>>

Next ==
  \/ Create \/ Open \/ Import \/ Export \/ Wipe
  \/ SetRetentionPolicy \/ PurgeExpired \/ AddContact \/ Invite
  \/ \E c \in Conversation : SetDisappearingMessages(c) \/ Send(c) \/ Receive(c)
  \/ Statement \/ Fail \/ Stop \/ Tick

Spec == Init /\ [][Next]_vars

----------------------------------------------------------------------------

TypeOK ==
  /\ {identity, mls, pouch, key} \subseteq Key \cup {NoKey}
  /\ conversations \in [Conversation -> Row \cup {NoRow}]
  /\ messages \subseteq Stored /\ outbox \subseteq Stored
  /\ policy \in Policy \cup {Forever}
  /\ backup \in Backup \cup {NoBackup}
  /\ current \in Conversation \cup {NoConversation}
  /\ toPut \subseteq Conversation /\ rows \subseteq Stored
  /\ {asof, now, faults} \subseteq Nat
  /\ promised \in Nat \cup {Never} /\ strayed \in BOOLEAN

\* Whatever is on the disk, at whatever statement a create, an import or a
\* wipe was cut short: history never lies there without its identity's private
\* key, and a private key never without its identity (storage/mod.rs:126
\* empties the tables in one order, backup.rs:203 fills them in the other).
HistoryOpens ==
  ~strayed =>
    /\ messages # {} \/ outbox # {} \/ policy # Forever \/ Present(conversations) # {} =>
         mls # NoKey
    /\ mls # NoKey => mls = identity

\* The number of seconds a user asked for is one that an i64 holds.
Fits(r) == conversations[r.conversation].rule \in Nat \cup {Follow}

\* storage_controls.rs:25: once a control, an open or a receive has answered,
\* neither history nor outbox holds what the rules in force condemned then,
\* and nothing brings such a row back until a rule changes.
RetentionIsApplied ==
  \A r \in messages \cup outbox : Fits(r) => ~Condemned(r, promised)

\* settings.rs:82: short of a wipe, a stored row goes only when the rule its
\* user set for it says so: the conversation's own, and else the device's.
NothingGoesEarly ==
  [][\A r \in (messages \ messages') \cup (outbox \ outbox') :
       call # "wipe" /\ Fits(r) =>
         LET rule == conversations[r.conversation].rule
             age  == now - r.at
         IN  IF rule = Follow THEN policy # Forever /\ age > policy ELSE age > rule]_vars

\* backup.rs:177: an import that answers Ok, after however many attempts that
\* were cut short, has brought back every setting of the file and every
\* message those settings do not condemn.
RestoreIsWhole ==
  [][call = "import" /\ pouch' # NoKey =>
       /\ identity' = backup.identity /\ mls' = backup.identity
       /\ policy' = backup.policy
       /\ \A c \in Present(backup.conversations) :
            conversations'[c] = backup.conversations[c]
       /\ \A r \in backup.messages : r \in messages' \/ Condemned(r, asof)]_vars

----------------------------------------------------------------------------

\* storage/identity.rs:12 "Stores the identity. Called once, at first run." and
\* cli/src/commands/backup.rs:35 "That path must not already hold an identity":
\* every conversation on the device is of the identity the device has.
RowsAreOfTheIdentity ==
  \A c \in Present(conversations) : conversations[c].owner = identity

\* identity.rs:12 and api/mod.rs:229: short of the two things that go astray, a
\* create or import over another identity and a client that writes on after a
\* wipe, no order of creates, stops, wipes, exports and imports puts a
\* conversation of one identity beside another, or under the Pouch of another.
OneIdentity ==
  ~strayed =>
    /\ RowsAreOfTheIdentity
    /\ pouch # NoKey /\ Present(conversations) # {} => pouch = identity

=============================================================================
