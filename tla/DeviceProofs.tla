---------------------------- MODULE DeviceProofs ---------------------------
(***************************************************************************)
(* For any identities, conversations, messages and rules, any number of    *)
(* stops and failed statements: history lies beside its private key,       *)
(* retention stays applied, nothing goes before its time, a restore brings *)
(* back the whole file, and rows and identity stay together.               *)
(***************************************************************************)
EXTENDS Device, TLAPS

\* The statements each call goes through.
Flow ==
  /\ call \in {"idle", "create", "open", "import", "wipe", "policy", "purge",
               "disappear", "add", "send", "receive", "invite"}
  /\ call = "idle" => next = "none"
  /\ call = "create" => next \in {"put_identity", "put_mls_state", "connect"}
  /\ call = "open" => next \in {"load", "purge", "purge_outbox"}
  /\ call = "import" =>
       next \in {"put_identity", "put_mls_state", "put_conversation",
                 "set_disappear_after", "put_message", "set_retention_policy",
                 "load", "purge", "purge_outbox"}
  /\ call = "wipe" => next \in {"outbox", "messages", "conversations", "settings",
                                "mls_state", "identity"}
  /\ call = "policy" => next \in {"set_retention_policy", "purge", "purge_outbox"}
  /\ call = "purge" => next \in {"purge", "purge_outbox"}
  /\ call = "disappear" => next \in {"set_disappear_after", "purge", "purge_outbox"}
  /\ call = "add" => next \in {"put_conversation", "put_mls_state"}
  /\ call = "send" => next \in {"put_message", "enqueue", "put_mls_state"}
  /\ call = "receive" => next \in {"put_message", "put_mls_state", "purge", "purge_outbox"}
  /\ call = "invite" => next = "put_mls_state"

\* A call works for an identity, on a conversation that is there.
Grounded ==
  /\ call \notin {"idle", "open"} => key # NoKey
  /\ next = "set_disappear_after" => current \in Present(conversations)
  /\ next = "put_message" /\ call # "import" => current \in Present(conversations)
  /\ next = "enqueue" => rows \subseteq messages

\* What an import has still to write, and what it has written.
Importing ==
  call = "import" =>
    /\ backup # NoBackup
    /\ rows \subseteq backup.messages
    /\ toPut \subseteq Present(backup.conversations)
    /\ Present(backup.conversations) \subseteq Present(conversations) \cup toPut
    /\ next = "put_message" => toPut = {}
    /\ next = "set_disappear_after" => current \in toPut

\* The foreign keys.
References ==
  /\ \A r \in messages \cup outbox : r.conversation \in Present(conversations)
  /\ backup # NoBackup =>
       \A r \in backup.messages : r.conversation \in Present(backup.conversations)

\* What a wipe has emptied when it comes to a table, and whose identity is on
\* the disk once a create or an import has written it.
Wiped ==
  /\ next \in {"messages", "conversations", "settings", "mls_state", "identity"} =>
       outbox = {}
  /\ next \in {"conversations", "settings", "mls_state", "identity"} => messages = {}
  /\ next \in {"settings", "mls_state", "identity"} => Present(conversations) = {}
  /\ next \in {"mls_state", "identity"} => policy = Forever
  /\ next = "identity" => mls = NoKey
  /\ call \in {"create", "import"} /\ next # "put_identity" => identity = key

\* Time only goes on, and the first half of a purge stays done.
Purging ==
  /\ promised <= now /\ asof <= now
  /\ next = "purge_outbox" => \A r \in messages : ~Condemned(r, asof)

Typed == TypeOK /\ Flow
Sound == Grounded /\ Importing /\ References
IInv == Typed /\ Sound /\ Wiped /\ HistoryOpens /\ Purging /\ RetentionIsApplied

----------------------------------------------------------------------------

LEMMA NoRowIsNone == ASSUME NEW r \in Row PROVE r # NoRow
BY DeviceAssumption DEF Row

LEMMA Initially == Init => IInv
<1> SUFFICES ASSUME Init PROVE IInv
  OBVIOUS
<1>1. TypeOK
  <2>1. conversations \in [Conversation -> Row \cup {NoRow}]
    BY DEF Init
  <2>2. /\ {identity, mls, pouch, key} \subseteq Key \cup {NoKey}
        /\ messages \subseteq Stored /\ outbox \subseteq Stored
        /\ toPut \subseteq Conversation /\ rows \subseteq Stored
    BY DEF Init
  <2>3. /\ policy \in Policy \cup {Forever} /\ backup \in Backup \cup {NoBackup}
        /\ current \in Conversation \cup {NoConversation}
        /\ promised \in Nat \cup {Never} /\ strayed \in BOOLEAN
    BY DEF Init
  <2>4. {asof, now, faults} \subseteq Nat
    BY DEF Init
  <2>5. QED
    BY <2>1, <2>2, <2>3, <2>4 DEF TypeOK
<1>2. Flow /\ Grounded /\ Importing
  BY DEF Init, Flow, Grounded, Importing
<1>3. References /\ Wiped /\ Purging
  BY DEF Init, References, Wiped, Purging, Never
<1>4. HistoryOpens
  BY DEF Init, HistoryOpens, Present
<1>5. RetentionIsApplied
  BY DEF Init, RetentionIsApplied
<1>6. QED
  BY <1>1, <1>2, <1>3, <1>4, <1>5 DEF IInv, Typed, Sound

\* What the beginnings of the calls have in common.
Starts ==
  \/ Create \/ Open \/ Import \/ Wipe \/ SetRetentionPolicy \/ PurgeExpired
  \/ AddContact \/ Invite
  \/ \E c \in Conversation : SetDisappearingMessages(c) \/ Send(c) \/ Receive(c)

LEMMA TypesOfStarts == Typed /\ Starts => Typed'
<1> SUFFICES ASSUME Typed, Starts PROVE Typed'
  OBVIOUS
<1> USE DEF Typed, TypeOK, Flow, disk
<1>1. CASE Create
  BY <1>1 DEF Create, Begin
<1>2. CASE Open
  BY <1>2 DEF Open, Begin
<1>3. CASE Import
  <2>1. backup \in Backup
    BY <1>3 DEF Import
  <2>2. QED
    BY <1>3, <2>1 DEF Import, Begin, Backup, Present
<1>4. CASE Wipe \/ SetRetentionPolicy \/ PurgeExpired \/ AddContact \/ Invite
  BY <1>4 DEF Wipe, SetRetentionPolicy, PurgeExpired, AddContact, Invite, Call, Begin
<1>5. ASSUME NEW c \in Conversation, SetDisappearingMessages(c) \/ Send(c) \/ Receive(c)
      PROVE Typed'
  BY <1>5 DEF SetDisappearingMessages, Send, Receive, Call, Begin
<1>6. QED
  BY <1>1, <1>2, <1>3, <1>4, <1>5 DEF Starts

LEMMA RuleThatIsSet ==
  ASSUME Typed, Sound, SetDisappearAfter
  PROVE  \E rule \in Int \cup {Follow} :
           conversations' = [conversations EXCEPT ![current].rule = rule]
<1>1. PICK rule \in IF call = "import" THEN {backup.conversations[current].rule}
                    ELSE {AsI64(s) : s \in Seconds} \cup {Follow} :
        conversations' = [conversations EXCEPT ![current].rule = rule]
  BY DEF SetDisappearAfter
<1>2. CASE call = "import"
  <2>1. /\ backup \in Backup /\ current \in Conversation
        /\ backup.conversations[current] # NoRow
    BY <1>2 DEF SetDisappearAfter, Sound, Importing, Present, Typed, TypeOK
  <2>2. backup.conversations[current] \in Row
    BY <2>1 DEF Backup
  <2>3. rule \in Int \cup {Follow}
    BY <1>1, <1>2, <2>2 DEF Row
  <2>4. QED
    BY <1>1, <2>3
<1>3. CASE call # "import"
  <2>1. rule \in Int \cup {Follow}
    BY <1>1, <1>3, DeviceAssumption DEF AsI64
  <2>2. QED
    BY <1>1, <2>1
<1>4. QED
  BY <1>2, <1>3

LEMMA TypesOfStatements == Typed /\ Sound /\ Statement => Typed'
<1> SUFFICES ASSUME Typed, Sound, Statement PROVE Typed'
  OBVIOUS
<1> USE DEF Typed, TypeOK, Flow, disk, hand, Ended
<1>1. CASE PutIdentity
  BY <1>1 DEF PutIdentity
<1>2. CASE PutMlsState
  BY <1>2 DEF PutMlsState, NextRow
<1>3. CASE Connect
  BY <1>3 DEF Connect
<1>4. CASE Load
  BY <1>4 DEF Load
<1>5. CASE PutConversation
  <2>1. PICK c \in IF call = "import" THEN toPut ELSE NewConversations :
          /\ conversations' = [conversations EXCEPT ![c] = Upserted(c)]
          /\ \/ call = "import" /\ current' = c
             \/ call # "import" /\ UNCHANGED <<call, hand>>
             \/ call # "import" /\ Ended
    BY <1>5 DEF PutConversation
  <2>2. c \in Conversation
    BY <2>1 DEF NewConversations
  <2>3. Upserted(c) \in Row \cup {NoRow}
    <3>1. CASE conversations[c] # NoRow
      BY <3>1, <2>2 DEF Upserted
    <3>2. CASE conversations[c] = NoRow /\ call = "import"
      <4>1. backup \in Backup /\ c \in Present(backup.conversations)
        BY <3>2, <2>1 DEF Sound, Importing
      <4>2. backup.conversations[c].owner \in Key
        BY <4>1, <2>2 DEF Backup, Present, Row
      <4>3. QED
        BY <4>2, <3>2 DEF Upserted, Row
    <3>3. CASE conversations[c] = NoRow /\ call # "import"
      <4>1. key \in Key
        BY <1>5, <3>3 DEF Sound, Grounded, PutConversation
      <4>2. QED
        BY <4>1, <3>3 DEF Upserted, Row
    <3>4. QED
      BY <3>1, <3>2, <3>3
  <2>4. conversations' \in [Conversation -> Row \cup {NoRow}]
    BY <2>1, <2>2, <2>3
  <2>5. current' \in Conversation \cup {NoConversation}
    BY <2>1, <2>2
  <2>6. strayed' \in BOOLEAN
    BY <1>5 DEF PutConversation, Astray
  <2>7. QED
    BY <1>5, <2>4, <2>5, <2>6 DEF PutConversation
<1>6. CASE SetDisappearAfter
  <2>1. PICK rule \in Int \cup {Follow} :
          conversations' = [conversations EXCEPT ![current].rule = rule]
    BY <1>6, RuleThatIsSet
  <2>2. current \in Conversation /\ conversations[current] \in Row
    BY <1>6 DEF SetDisappearAfter, Sound, Grounded, Present
  <2>3. conversations' \in [Conversation -> Row \cup {NoRow}]
    BY <2>1, <2>2 DEF Row
  <2>4. QED
    BY <1>6, <2>3 DEF SetDisappearAfter, NextRow, Never
<1>7. CASE PutMessage
  <2>1. PICK r \in IF call = "import" THEN rows
                   ELSE [id : NewMessages, conversation : {current}, at : {now}] :
          /\ messages' = {q \in messages : q.id # r.id} \cup {r}
          /\ \/ rows' = rows \ {r} /\ call = "import"
             \/ rows' = {r}
    BY <1>7 DEF PutMessage
  <2>2. r \in Stored
    <3>1. CASE call = "import"
      BY <2>1, <3>1
    <3>2. CASE call # "import"
      BY <1>7, <2>1, <3>2 DEF PutMessage, Sound, Grounded, NewMessages, Present, Stored
    <3>3. QED
      BY <3>1, <3>2
  <2>3. messages' \subseteq Stored /\ rows' \subseteq Stored
    BY <2>1, <2>2
  <2>4. strayed' \in BOOLEAN /\ promised' \in Nat \cup {Never}
    BY <1>7 DEF PutMessage, Astray
  <2>5. Flow'
    BY <1>7 DEF PutMessage, NextRow
  <2>6. QED
    BY <1>7, <2>3, <2>4, <2>5 DEF PutMessage
<1>8. CASE Enqueue
  <2>1. {[r EXCEPT !.at = now] : r \in rows} \subseteq Stored
    BY DEF Stored
  <2>2. QED
    BY <1>8, <2>1 DEF Enqueue
<1>9. CASE PutSetting
  <2>1. policy' \in Policy \cup {Forever}
    <3>1. CASE call = "import"
      BY <1>9, <3>1 DEF PutSetting, Backup, Sound, Importing
    <3>2. CASE call # "import"
      BY <1>9, <3>2 DEF PutSetting
    <3>3. QED
      BY <3>1, <3>2
  <2>2. strayed' \in BOOLEAN
    BY <1>9 DEF PutSetting, Astray
  <2>3. QED
    BY <1>9, <2>1, <2>2 DEF PutSetting, Never
<1>10. CASE PurgeMessages
  BY <1>10 DEF PurgeMessages, Kept
<1>11. CASE PurgeOutbox
  BY <1>11 DEF PurgeOutbox, Kept
<1>12. CASE WipeTable
  BY <1>12 DEF WipeTable, AfterTable
<1>13. QED
  BY <1>1, <1>2, <1>3, <1>4, <1>5, <1>6, <1>7, <1>8, <1>9, <1>10, <1>11, <1>12
  DEF Statement

LEMMA TypesOfTheRest == Typed /\ (Export \/ Fail \/ Stop \/ Tick) => Typed'
<1> SUFFICES ASSUME Typed, Export \/ Fail \/ Stop \/ Tick PROVE Typed'
  OBVIOUS
<1> USE DEF Typed, TypeOK, Flow, disk, hand, Ended
<1>1. CASE Export
  <2>1. backup' \in Backup
    BY <1>1 DEF Export, Backup
  <2>2. QED
    BY <1>1, <2>1 DEF Export
<1>2. CASE Fail
  BY <1>2 DEF Fail
<1>3. CASE Stop
  BY <1>3 DEF Stop
<1>4. CASE Tick
  BY <1>4 DEF Tick
<1>5. QED
  BY <1>1, <1>2, <1>3, <1>4

----------------------------------------------------------------------------

\* A conversation, once there, stays until a wipe, whatever its setting.
LEMMA PresentAfterPut ==
  ASSUME Typed, Sound, PutConversation
  PROVE  \E c \in IF call = "import" THEN toPut ELSE NewConversations :
           /\ Present(conversations') = Present(conversations) \cup {c}
           /\ \A d \in Present(conversations) : conversations'[d] = conversations[d]
           /\ call = "import" => current' = c
<1>1. PICK c \in IF call = "import" THEN toPut ELSE NewConversations :
        /\ conversations' = [conversations EXCEPT ![c] = Upserted(c)]
        /\ call = "import" => current' = c
  BY DEF PutConversation
<1>2. c \in Conversation
  BY <1>1 DEF Typed, TypeOK, NewConversations
<1>3. Upserted(c) # NoRow
  <2>1. CASE conversations[c] # NoRow
    BY <2>1 DEF Upserted
  <2>2. CASE conversations[c] = NoRow
    <3>1. Upserted(c) \in [owner : Key, rule : Int \cup {Follow}]
      <4>1. CASE call = "import"
        <5>1. backup \in Backup /\ c \in Present(backup.conversations)
          BY <4>1, <1>1 DEF Sound, Importing, Typed, TypeOK
        <5>2. backup.conversations[c].owner \in Key
          BY <5>1, <1>2 DEF Backup, Present, Row
        <5>3. QED
          BY <5>2, <4>1, <2>2 DEF Upserted
      <4>2. CASE call # "import"
        <5>1. key \in Key
          BY <4>2 DEF Typed, TypeOK, Flow, Sound, Grounded, PutConversation
        <5>2. QED
          BY <5>1, <4>2, <2>2 DEF Upserted
      <4>3. QED
        BY <4>1, <4>2
    <3>2. QED
      BY <3>1, DeviceAssumption
  <2>3. QED
    BY <2>1, <2>2
<1>4. conversations'[c] = Upserted(c) /\ \A d \in Conversation : d # c => conversations'[d] = conversations[d]
  BY <1>1, <1>2 DEF Typed, TypeOK
<1>5. Present(conversations') = Present(conversations) \cup {c}
  BY <1>2, <1>3, <1>4 DEF Present
<1>6. \A d \in Present(conversations) : conversations'[d] = conversations[d]
  <2>1. TAKE d \in Present(conversations)
  <2>2. CASE d = c
    BY <1>4, <2>2 DEF Upserted, Present
  <2>3. CASE d # c
    BY <1>4, <2>3 DEF Present
  <2>4. QED
    BY <2>2, <2>3
<1>7. QED
  BY <1>1, <1>5, <1>6

LEMMA PresentAfterSet ==
  ASSUME Typed, Sound, SetDisappearAfter
  PROVE  Present(conversations') = Present(conversations)
<1>1. PICK rule \in Int \cup {Follow} :
        conversations' = [conversations EXCEPT ![current].rule = rule]
  BY RuleThatIsSet
<1>2. current \in Conversation /\ conversations[current] \in Row
  BY DEF SetDisappearAfter, Sound, Grounded, Present, Typed, TypeOK
<1>3. conversations'[current] = [conversations[current] EXCEPT !.rule = rule]
  BY <1>1, <1>2 DEF Typed, TypeOK
<1>4. conversations'[current] \in Row
  BY <1>2, <1>3 DEF Row
<1>5. \A d \in Conversation : d # current => conversations'[d] = conversations[d]
  BY <1>1 DEF Typed, TypeOK
<1>6. QED
  BY <1>2, <1>4, <1>5, NoRowIsNone DEF Present

----------------------------------------------------------------------------

LEMMA SoundAtStarts == Typed /\ Sound /\ Starts => Sound'
<1> SUFFICES ASSUME Typed, Sound, Starts PROVE Sound'
  OBVIOUS
<1>1. References'
  <2>1. UNCHANGED <<conversations, messages, outbox, backup>>
    BY DEF Starts, Create, Open, Import, Wipe, SetRetentionPolicy, PurgeExpired,
           AddContact, Invite, SetDisappearingMessages, Send, Receive, Call, Begin, disk
  <2>2. QED
    BY <2>1 DEF Sound, References
<1> USE DEF Sound, Grounded, Importing, Begin, disk
<1>2. CASE Create
  BY <1>1, <1>2, DeviceAssumption DEF Create
<1>3. CASE Open
  BY <1>1, <1>3 DEF Open
<1>4. CASE Import
  <2>1. backup.identity # NoKey
    BY <1>4, DeviceAssumption DEF Import, Typed, TypeOK, Backup
  <2>2. QED
    BY <1>1, <1>4, <2>1 DEF Import
<1>5. CASE Wipe \/ SetRetentionPolicy \/ PurgeExpired \/ AddContact \/ Invite
  BY <1>1, <1>5 DEF Wipe, SetRetentionPolicy, PurgeExpired, AddContact, Invite, Call
<1>6. ASSUME NEW c \in Conversation, SetDisappearingMessages(c) \/ Send(c) \/ Receive(c)
      PROVE Sound'
  BY <1>1, <1>6 DEF SetDisappearingMessages, Send, Receive, Call, Live, Present
<1>7. QED
  BY <1>2, <1>3, <1>4, <1>5, <1>6 DEF Starts

LEMMA SoundAtStatements == Typed /\ Sound /\ Statement => Sound'
<1> SUFFICES ASSUME Typed, Sound, Statement PROVE Sound'
  OBVIOUS
<1> USE DEF Sound, Grounded, Importing, References, Ended, hand, disk, NextRow
<1>1. CASE PutIdentity
  BY <1>1 DEF PutIdentity
<1>2. CASE PutMlsState
  BY <1>2 DEF PutMlsState
<1>3. CASE Connect
  BY <1>3 DEF Connect
<1>4. CASE Load
  BY <1>4 DEF Load, Typed, Flow
<1>5. CASE PutConversation
  <2>1. PICK c \in IF call = "import" THEN toPut ELSE NewConversations :
          /\ Present(conversations') = Present(conversations) \cup {c}
          /\ call = "import" => current' = c
    BY <1>5, PresentAfterPut
  <2>2. UNCHANGED <<messages, outbox, backup>> /\ References'
    BY <1>5, <2>1 DEF PutConversation
  <2>3. CASE call = "import"
    <3>1. /\ UNCHANGED <<call, key, toPut, rows>>
          /\ next' = "set_disappear_after"
      BY <1>5, <2>3 DEF PutConversation
    <3>2. QED
      BY <2>1, <2>2, <2>3, <3>1
  <2>4. CASE call # "import"
    <3>1. \/ next' = "put_mls_state" /\ UNCHANGED <<call, hand>>
          \/ Ended
      BY <1>5, <2>4 DEF PutConversation
    <3>2. QED
      BY <2>2, <2>4, <3>1
  <2>5. QED
    BY <2>3, <2>4
<1>6. CASE SetDisappearAfter
  BY <1>6, PresentAfterSet DEF SetDisappearAfter
<1>7. CASE PutMessage
  BY <1>7 DEF PutMessage
<1>8. CASE Enqueue
  <2>1. \A q \in {[r EXCEPT !.at = now] : r \in rows} :
          q.conversation \in Present(conversations)
    <3>1. TAKE q \in {[r EXCEPT !.at = now] : r \in rows}
    <3>2. PICK r \in rows : q = [r EXCEPT !.at = now]
      OBVIOUS
    <3>3. r \in Stored /\ r \in messages
      BY <1>8 DEF Enqueue, Typed, TypeOK
    <3>4. q.conversation = r.conversation
      BY <3>2, <3>3 DEF Stored
    <3>5. QED
      BY <3>3, <3>4
  <2>2. QED
    BY <1>8, <2>1 DEF Enqueue, Typed, Flow
<1>9. CASE PutSetting
  BY <1>9 DEF PutSetting
<1>10. CASE PurgeMessages
  BY <1>10 DEF PurgeMessages, Kept
<1>11. CASE PurgeOutbox
  BY <1>11 DEF PurgeOutbox, Kept
<1>12. CASE WipeTable
  BY <1>12 DEF WipeTable, AfterTable, Typed, Flow
<1>13. QED
  BY <1>1, <1>2, <1>3, <1>4, <1>5, <1>6, <1>7, <1>8, <1>9, <1>10, <1>11, <1>12
  DEF Statement

LEMMA SoundAtTheRest == Typed /\ Sound /\ (Export \/ Fail \/ Stop \/ Tick) => Sound'
<1> SUFFICES ASSUME Typed, Sound, Export \/ Fail \/ Stop \/ Tick PROVE Sound'
  OBVIOUS
<1> USE DEF Sound, Grounded, Importing, References, Ended, hand, disk
<1>1. CASE Export
  BY <1>1 DEF Export, Typed, Flow
<1>2. CASE Fail
  BY <1>2 DEF Fail
<1>3. CASE Stop
  BY <1>3 DEF Stop
<1>4. CASE Tick
  BY <1>4 DEF Tick
<1>5. QED
  BY <1>1, <1>2, <1>3, <1>4

----------------------------------------------------------------------------

Ordered == Wiped /\ HistoryOpens

LEMMA OrderAtStarts == Typed /\ Ordered /\ Starts => Ordered'
<1> SUFFICES ASSUME Typed, Ordered, Starts PROVE Ordered'
  OBVIOUS
<1>1. UNCHANGED <<disk, strayed>>
  BY DEF Starts, Create, Open, Import, Wipe, SetRetentionPolicy, PurgeExpired,
         AddContact, Invite, SetDisappearingMessages, Send, Receive, Call, Begin
<1>2. /\ next' \notin {"messages", "conversations", "settings", "mls_state", "identity"}
      /\ call' \in {"create", "import"} => next' = "put_identity"
  BY DEF Starts, Create, Open, Import, Wipe, SetRetentionPolicy, PurgeExpired,
         AddContact, Invite, SetDisappearingMessages, Send, Receive, Call, Begin
<1>3. QED
  BY <1>1, <1>2 DEF Ordered, Wiped, HistoryOpens, disk

LEMMA OrderAtStatements == Typed /\ Sound /\ Ordered /\ Statement => Ordered'
<1> SUFFICES ASSUME Typed, Sound, Ordered, Statement PROVE Ordered'
  OBVIOUS
<1> USE DEF Ordered, Wiped, HistoryOpens, Ended, hand, disk, NextRow
<1>1. CASE PutIdentity
  BY <1>1 DEF PutIdentity, Typed, Flow
<1>2. CASE PutMlsState
  <2>1. key # NoKey
    BY <1>2 DEF PutMlsState, Sound, Grounded, Typed, Flow
  <2>2. QED
    BY <1>2, <2>1 DEF PutMlsState, Typed, Flow
<1>3. CASE Connect
  BY <1>3 DEF Connect
<1>4. CASE Load
  BY <1>4 DEF Load, Typed, Flow
<1>5. CASE PutConversation
  <2>1. key # NoKey
    BY <1>5 DEF PutConversation, Sound, Grounded, Typed, Flow
  <2>2. QED
    BY <1>5, <2>1 DEF PutConversation, Astray, Typed, Flow
<1>6. CASE SetDisappearAfter
  BY <1>6, PresentAfterSet DEF SetDisappearAfter, Typed, Flow
<1>7. CASE PutMessage
  <2>1. key # NoKey
    BY <1>7 DEF PutMessage, Sound, Grounded, Typed, Flow
  <2>2. QED
    BY <1>7, <2>1 DEF PutMessage, Astray, Typed, Flow
<1>8. CASE Enqueue
  <2>1. messages = {} => outbox' = outbox
    BY <1>8 DEF Enqueue, Sound, Grounded
  <2>2. QED
    BY <1>8, <2>1 DEF Enqueue, Typed, Flow
<1>9. CASE PutSetting
  <2>1. key # NoKey
    BY <1>9 DEF PutSetting, Sound, Grounded, Typed, Flow
  <2>2. QED
    BY <1>9, <2>1 DEF PutSetting, Astray, Typed, Flow
<1>10. CASE PurgeMessages
  <2>1. messages # {} \/ messages' = {}
    BY <1>10 DEF PurgeMessages, Kept
  <2>2. QED
    BY <1>10, <2>1 DEF PurgeMessages, Typed, Flow
<1>11. CASE PurgeOutbox
  <2>1. outbox # {} \/ outbox' = {}
    BY <1>11 DEF PurgeOutbox, Kept
  <2>2. QED
    BY <1>11, <2>1 DEF PurgeOutbox, Typed, Flow
<1>12. CASE WipeTable
  BY <1>12 DEF WipeTable, AfterTable, Typed, Flow, Present
<1>13. QED
  BY <1>1, <1>2, <1>3, <1>4, <1>5, <1>6, <1>7, <1>8, <1>9, <1>10, <1>11, <1>12
  DEF Statement

LEMMA OrderAtTheRest == Typed /\ Ordered /\ (Export \/ Fail \/ Stop \/ Tick) => Ordered'
<1> SUFFICES ASSUME Typed, Ordered, Export \/ Fail \/ Stop \/ Tick PROVE Ordered'
  OBVIOUS
<1>1. UNCHANGED <<identity, mls, conversations, messages, outbox, policy, strayed>>
  BY DEF Export, Fail, Stop, Tick, disk
<1>2. \/ UNCHANGED <<call, next, key>>
      \/ call' = "idle" /\ next' = "none"
  BY DEF Export, Fail, Stop, Tick, Ended, hand
<1>3. QED
  BY <1>1, <1>2 DEF Ordered, Wiped, HistoryOpens

----------------------------------------------------------------------------

Applied == Purging /\ RetentionIsApplied

\* A rule whose seconds fit condemns nothing as of the second it was stored.
LEMMA NotYet ==
  ASSUME NEW rule \in Nat \cup {Follow}, NEW kept \in Policy \cup {Forever},
         NEW at \in Int, NEW t \in Int, t <= at
  PROVE  ~(IF rule # Follow THEN at < t - rule ELSE kept # Forever /\ at < t - kept)
<1>1. CASE rule # Follow
  BY <1>1
<1>2. CASE rule = Follow /\ kept # Forever
  <2>1. kept \in Nat
    BY <1>2, DeviceAssumption
  <2>2. QED
    BY <1>2, <2>1
<1>3. CASE rule = Follow /\ kept = Forever
  BY <1>3
<1>4. QED
  BY <1>1, <1>2, <1>3

\* Rules that did not change condemn what they condemned before.
LEMMA SameRules ==
  ASSUME NEW r, conversations'[r.conversation] = conversations[r.conversation],
         policy' = policy
  PROVE  /\ Fits(r)' <=> Fits(r)
         /\ \A t : Condemned(r, t)' <=> Condemned(r, t)
BY DEF Fits, Condemned

LEMMA AppliedAtStarts == Typed /\ Applied /\ (Starts \/ Export \/ Fail \/ Stop) => Applied'
<1> SUFFICES ASSUME Typed, Applied, Starts \/ Export \/ Fail \/ Stop PROVE Applied'
  OBVIOUS
<1>1. UNCHANGED <<conversations, messages, outbox, policy, now, promised>>
  BY DEF Starts, Create, Open, Import, Wipe, SetRetentionPolicy, PurgeExpired,
         AddContact, Invite, SetDisappearingMessages, Send, Receive, Call, Begin,
         Export, Fail, Stop, disk
<1>2. /\ next' # "purge_outbox" \/ UNCHANGED <<next, asof>>
      /\ asof' \in {asof, 0}
  BY DEF Starts, Create, Open, Import, Wipe, SetRetentionPolicy, PurgeExpired,
         AddContact, Invite, SetDisappearingMessages, Send, Receive, Call, Begin,
         Export, Fail, Stop, Ended, hand
<1>3. QED
  BY <1>1, <1>2 DEF Applied, Purging, RetentionIsApplied, Condemned, Fits, Typed, TypeOK

\* What a statement must do to keep retention applied.
LEMMA KeptApplied ==
  ASSUME Typed', NEW r, r \in messages' \cup outbox', promised' <= r.at
  PROVE  Fits(r)' => ~Condemned(r, promised)'
<1> SUFFICES ASSUME Fits(r)' PROVE ~Condemned(r, promised)'
  OBVIOUS
<1> DEFINE rule == conversations'[r.conversation].rule
<1>1. rule \in Nat \cup {Follow} /\ policy' \in Policy \cup {Forever}
  BY DEF Fits, Typed, TypeOK
<1>2. r.at \in Int /\ promised' \in Int
  BY DEF Typed, TypeOK, Stored, Never
<1>3. ~(IF rule # Follow THEN r.at < promised' - rule
        ELSE policy' # Forever /\ r.at < promised' - policy')
  BY <1>1, <1>2, NotYet
<1>4. QED
  BY <1>3 DEF Condemned

LEMMA AppliedAtStatements == Typed /\ Typed' /\ Sound /\ Applied /\ Statement => Applied'
<1> SUFFICES ASSUME Typed, Typed', Sound, Applied, Statement PROVE Applied'
  OBVIOUS
<1> USE DEF Applied
<1>0. promised \in Int /\ now \in Nat /\ asof \in Nat /\ promised <= now /\ asof <= now
  BY DEF Typed, TypeOK, Never, Purging
<1>1. CASE PutIdentity \/ PutMlsState \/ Connect \/ Load
  <2>1. UNCHANGED <<conversations, messages, outbox, policy, now, promised>>
    BY <1>1 DEF PutIdentity, PutMlsState, Connect, Load, disk
  <2>2. next' # "purge_outbox" /\ asof' \in {asof, 0}
    BY <1>1 DEF PutIdentity, PutMlsState, Connect, Load, Ended, hand, NextRow
  <2>3. QED
    BY <1>0, <2>1, <2>2 DEF Purging, RetentionIsApplied, Condemned, Fits
<1>2. CASE PutConversation
  <2>1. UNCHANGED <<messages, outbox, policy, now, promised>>
    BY <1>2 DEF PutConversation
  <2>2. next' # "purge_outbox" /\ asof' \in {asof, 0}
    BY <1>2 DEF PutConversation, Ended, hand
  <2>3. ASSUME NEW r \in messages \cup outbox
        PROVE  Fits(r)' => ~Condemned(r, promised)'
    <3>1. conversations'[r.conversation] = conversations[r.conversation]
      BY <1>2, PresentAfterPut DEF Sound, References
    <3>2. QED
      BY <2>1, <3>1 DEF RetentionIsApplied, Fits, Condemned
  <2>4. RetentionIsApplied'
    BY <2>1, <2>3 DEF RetentionIsApplied
  <2>5. QED
    BY <1>0, <2>1, <2>2, <2>4 DEF Purging
<1>3. CASE SetDisappearAfter \/ PutSetting
  <2>1. /\ promised' = Never /\ UNCHANGED <<messages, outbox, now>>
        /\ next' # "purge_outbox" /\ asof' = asof
    BY <1>3 DEF SetDisappearAfter, PutSetting, NextRow, hand
  <2>2. ASSUME NEW r \in messages' \cup outbox'
        PROVE  Fits(r)' => ~Condemned(r, promised)'
    <3>1. promised' <= r.at
      BY <2>1 DEF Typed, TypeOK, Stored, Never
    <3>2. QED
      BY <3>1, KeptApplied
  <2>3. RetentionIsApplied'
    BY <2>2 DEF RetentionIsApplied
  <2>4. QED
    BY <1>0, <2>1, <2>3 DEF Purging, Never
<1>4. CASE PutMessage
  <2>1. PICK r \in IF call = "import" THEN rows
                   ELSE [id : NewMessages, conversation : {current}, at : {now}] :
          messages' = {q \in messages : q.id # r.id} \cup {r}
    BY <1>4 DEF PutMessage
  <2>2. /\ UNCHANGED <<conversations, outbox, policy, now, asof>>
        /\ promised' = IF call = "import" THEN Never ELSE promised
        /\ next' # "purge_outbox"
    BY <1>4 DEF PutMessage, NextRow
  <2>3. ASSUME NEW q \in messages' \cup outbox'
        PROVE  Fits(q)' => ~Condemned(q, promised)'
    <3>1. CASE call = "import"
      <4>1. promised' <= q.at
        BY <2>2, <3>1 DEF Typed, TypeOK, Stored, Never
      <4>2. QED
        BY <4>1, KeptApplied
    <3>2. CASE call # "import" /\ q = r
      <4>1. promised' <= q.at
        BY <1>0, <2>1, <2>2, <3>2
      <4>2. QED
        BY <4>1, KeptApplied
    <3>3. CASE call # "import" /\ q \in messages \cup outbox
      BY <2>2, <3>3 DEF RetentionIsApplied, Fits, Condemned
    <3>4. QED
      BY <2>1, <2>2, <3>1, <3>2, <3>3
  <2>4. RetentionIsApplied'
    BY <2>3 DEF RetentionIsApplied
  <2>5. QED
    BY <1>0, <2>2, <2>4 DEF Purging, Never
<1>5. CASE Enqueue
  <2>1. /\ outbox' = outbox \cup {[r EXCEPT !.at = now] : r \in rows}
        /\ UNCHANGED <<conversations, messages, policy, now, promised, asof>>
        /\ next' # "purge_outbox"
    BY <1>5 DEF Enqueue, hand
  <2>2. ASSUME NEW q \in messages' \cup outbox'
        PROVE  Fits(q)' => ~Condemned(q, promised)'
    <3>1. CASE q \in messages \cup outbox
      BY <2>1, <3>1 DEF RetentionIsApplied, Fits, Condemned
    <3>2. CASE q \in {[r EXCEPT !.at = now] : r \in rows}
      <4>1. PICK r \in rows : q = [r EXCEPT !.at = now]
        BY <3>2
      <4>2. q.at = now
        BY <4>1 DEF Typed, TypeOK, Stored
      <4>3. QED
        BY <1>0, <2>1, <4>2, KeptApplied
    <3>3. QED
      BY <2>1, <3>1, <3>2
  <2>3. RetentionIsApplied'
    BY <2>2 DEF RetentionIsApplied
  <2>4. QED
    BY <1>0, <2>1, <2>3 DEF Purging
<1>6. CASE PurgeMessages
  <2>1. /\ messages' = Kept(messages, now) /\ asof' = now
        /\ UNCHANGED <<conversations, outbox, policy, now, promised>>
    BY <1>6 DEF PurgeMessages
  <2>2. RetentionIsApplied'
    BY <2>1 DEF RetentionIsApplied, Kept, Condemned, Fits
  <2>3. \A r \in messages' : ~Condemned(r, asof)'
    BY <2>1 DEF Kept, Condemned
  <2>4. QED
    BY <1>0, <2>1, <2>2, <2>3 DEF Purging
<1>7. CASE PurgeOutbox
  <2>1. /\ outbox' = Kept(outbox, asof) /\ promised' = asof /\ asof' = 0
        /\ next' # "purge_outbox"
        /\ UNCHANGED <<conversations, messages, policy, now>>
    BY <1>7 DEF PurgeOutbox, Ended
  <2>2. \A r \in messages' \cup outbox' : ~Condemned(r, promised)'
    BY <1>7, <2>1 DEF PurgeOutbox, Purging, Kept, Condemned
  <2>3. QED
    BY <1>0, <2>1, <2>2 DEF Purging, RetentionIsApplied
<1>8. CASE WipeTable
  <2>1. /\ messages' \subseteq messages /\ outbox' \subseteq outbox
        /\ conversations' = conversations \/ (messages' = {} /\ outbox' = {})
        /\ policy' \in {policy, Forever}
        /\ UNCHANGED <<now, promised>> /\ asof' \in {asof, 0}
        /\ next' # "purge_outbox"
    BY <1>8 DEF WipeTable, AfterTable, Ended, hand, Typed, Flow
  <2>2. ASSUME NEW r \in messages' \cup outbox'
        PROVE  Fits(r)' => ~Condemned(r, promised)'
    BY <2>1 DEF RetentionIsApplied, Fits, Condemned
  <2>3. RetentionIsApplied'
    BY <2>2 DEF RetentionIsApplied
  <2>4. QED
    BY <1>0, <2>1, <2>3 DEF Purging
<1>9. QED
  BY <1>1, <1>2, <1>3, <1>4, <1>5, <1>6, <1>7, <1>8 DEF Statement

LEMMA AppliedAtTick == Typed /\ Applied /\ Tick => Applied'
<1> SUFFICES ASSUME Typed, Applied, Tick PROVE Applied'
  OBVIOUS
<1>1. /\ now' = now + 1
      /\ UNCHANGED <<conversations, messages, outbox, policy, promised, asof, next>>
  BY DEF Tick, disk, hand
<1>2. promised' <= now' /\ asof' <= now'
  BY <1>1 DEF Applied, Purging, Typed, TypeOK, Never
<1>3. QED
  BY <1>1, <1>2 DEF Applied, Purging, RetentionIsApplied, Condemned, Fits

----------------------------------------------------------------------------

THEOREM Inductive == Spec => []IInv
<1>1. Init => IInv
  BY Initially
<1>2. IInv /\ [Next]_vars => IInv'
  <2> SUFFICES ASSUME IInv, [Next]_vars PROVE IInv'
    OBVIOUS
  <2>0. Typed /\ Sound /\ Ordered /\ Applied
    BY DEF IInv, Ordered, Applied
  <2>1. CASE Starts
    BY <2>0, <2>1, TypesOfStarts, SoundAtStarts, OrderAtStarts, AppliedAtStarts
    DEF IInv, Ordered, Applied
  <2>2. CASE Statement
    BY <2>0, <2>2, TypesOfStatements, SoundAtStatements, OrderAtStatements,
       AppliedAtStatements DEF IInv, Ordered, Applied
  <2>3. CASE Export \/ Fail \/ Stop \/ Tick
    BY <2>0, <2>3, TypesOfTheRest, SoundAtTheRest, OrderAtTheRest, AppliedAtStarts,
       AppliedAtTick DEF IInv, Ordered, Applied
  <2>4. CASE UNCHANGED vars
    <3>1. Typed' /\ Sound'
      BY <2>0, <2>4 DEF vars, disk, hand, Typed, TypeOK, Flow, Sound, Grounded,
         Importing, References
    <3>2. Wiped' /\ HistoryOpens'
      BY <2>0, <2>4 DEF vars, disk, hand, Ordered, Wiped, HistoryOpens
    <3>3. Purging' /\ RetentionIsApplied'
      BY <2>0, <2>4 DEF vars, disk, hand, Applied, Purging, RetentionIsApplied,
         Condemned, Fits
    <3>4. QED
      BY <3>1, <3>2, <3>3 DEF IInv
  <2>5. QED
    BY <2>1, <2>2, <2>3, <2>4 DEF Next, Starts
<1>3. QED
  BY <1>1, <1>2, PTL DEF Spec

\* The rows, the file and the call in progress keep their types.
THEOREM TypeCorrect == Spec => []TypeOK
BY Inductive, PTL DEF IInv, Typed

\* storage/mod.rs:126, backup.rs:203: for any identities and wherever calls are cut
\* short, history is never on the disk without the private key that opens it.
THEOREM HistoryAlwaysOpens == Spec => []HistoryOpens
BY Inductive, PTL DEF IInv

\* storage_controls.rs:25: for any rules and any number of messages, what the
\* rules in force condemned when a call answered is gone from both tables.
THEOREM RetentionStaysApplied == Spec => []RetentionIsApplied
BY Inductive, PTL DEF IInv

----------------------------------------------------------------------------
(***************************************************************************)
(* Nothing goes early, and a restore is whole                              *)
(***************************************************************************)

\* An identifier is that of one message, on the disk, in the file and in hand.
Filed == messages \cup rows \cup FiledMessages
Unique == \A q, r \in Filed : q.id = r.id => q = r

\* A conversation that is on the disk and in the file is of one identity.
Owners ==
  backup # NoBackup =>
    \A c \in Present(backup.conversations) \cap Present(conversations) :
      conversations[c].owner = backup.conversations[c].owner

\* How far an import has come.
Restoring ==
  call = "import" =>
    /\ pouch = NoKey /\ key = backup.identity
    /\ next \notin {"put_identity", "put_mls_state"} => mls = key
    /\ \A c \in Present(backup.conversations) \ toPut :
         conversations[c] = backup.conversations[c]
    /\ next \in {"put_message", "set_retention_policy", "load", "purge", "purge_outbox"} =>
         toPut = {}
    /\ next \in {"set_retention_policy", "load", "purge", "purge_outbox"} => rows = {}
    /\ next \in {"load", "purge", "purge_outbox"} => policy = backup.policy
    /\ \A r \in backup.messages :
         r \in rows \cup messages \/ (next = "purge_outbox" /\ Condemned(r, asof))

LEMMA UniqueStep == IInv /\ Unique /\ [Next]_vars => Unique'
<1> SUFFICES ASSUME IInv, Unique, [Next]_vars PROVE Unique'
  OBVIOUS
<1>1. CASE Filed' \subseteq Filed
  BY <1>1 DEF Unique
<1>2. CASE PutMessage
  <2>1. PICK r \in IF call = "import" THEN rows
                   ELSE [id : NewMessages, conversation : {current}, at : {now}] :
          /\ messages' = {q \in messages : q.id # r.id} \cup {r}
          /\ \/ call = "import" /\ rows' = rows \ {r}
             \/ call # "import" /\ rows' = {r}
    BY <1>2 DEF PutMessage
  <2>2. FiledMessages' = FiledMessages
    BY <1>2 DEF PutMessage, FiledMessages
  <2>3. CASE call = "import"
    BY <2>1, <2>2, <2>3, <1>1 DEF Filed
  <2>4. CASE call # "import"
    <3>1. rows' = {r}
      BY <2>1, <2>4
    <3>2. \A q \in messages \cup FiledMessages : q.id # r.id
      BY <2>1, <2>4 DEF NewMessages
    <3>3. QED
      BY <2>1, <2>2, <3>1, <3>2 DEF Unique, Filed
  <2>5. QED
    BY <2>3, <2>4
<1>3. CASE Starts \/ Export
  <2>1. rows' \subseteq rows \cup FiledMessages
    BY <1>3 DEF Starts, Create, Open, Import, Wipe, SetRetentionPolicy, PurgeExpired,
       AddContact, Invite, SetDisappearingMessages, Send, Receive, Call, Begin, Export,
       hand, FiledMessages
  <2>2. messages' = messages /\ FiledMessages' \subseteq FiledMessages \cup messages
    BY <1>3 DEF Starts, Create, Open, Import, Wipe, SetRetentionPolicy, PurgeExpired,
       AddContact, Invite, SetDisappearingMessages, Send, Receive, Call, Begin, Export,
       disk, FiledMessages
  <2>3. QED
    BY <2>1, <2>2, <1>1 DEF Filed
<1>4. CASE (Statement /\ ~PutMessage) \/ Fail \/ Stop \/ Tick \/ UNCHANGED vars
  <2>1. backup' = backup /\ rows' \subseteq rows
    BY <1>4 DEF Statement, PutIdentity, PutMlsState, Connect, Load, PutConversation,
       SetDisappearAfter, Enqueue, PutSetting, PurgeMessages, PurgeOutbox, WipeTable,
       Fail, Stop, Tick, Ended, disk, hand, vars
  <2>2. messages' \subseteq messages
    BY <1>4 DEF Statement, PutIdentity, PutMlsState, Connect, Load, PutConversation,
       SetDisappearAfter, Enqueue, PutSetting, PurgeMessages, PurgeOutbox, WipeTable,
       Fail, Stop, Tick, disk, vars, Kept
  <2>3. QED
    BY <2>1, <2>2, <1>1 DEF Filed, FiledMessages
<1>5. QED
  BY <1>2, <1>3, <1>4 DEF Next, Starts

LEMMA OwnersStep == IInv /\ Owners /\ [Next]_vars => Owners'
<1> SUFFICES ASSUME IInv, Owners, [Next]_vars PROVE Owners'
  OBVIOUS
<1>0. Typed /\ Sound
  BY DEF IInv
<1>1. CASE Export
  BY <1>1 DEF Export, Owners
<1>2. CASE PutConversation
  <2>1. PICK c \in IF call = "import" THEN toPut ELSE NewConversations :
          /\ conversations' = [conversations EXCEPT ![c] = Upserted(c)]
          /\ backup' = backup
    BY <1>2 DEF PutConversation
  <2>2. SUFFICES ASSUME backup # NoBackup, NEW d \in Conversation,
                        backup.conversations[d] # NoRow, conversations'[d] # NoRow
                 PROVE  conversations'[d].owner = backup.conversations[d].owner
    BY <2>1 DEF Owners, Present
  <2>3. CASE conversations[d] # NoRow
    <3>1. conversations'[d] = conversations[d]
      BY <1>0, <1>2, <2>3, PresentAfterPut DEF Present
    <3>2. QED
      BY <2>2, <2>3, <3>1 DEF Owners, Present
  <2>4. CASE conversations[d] = NoRow
    <3>1. d = c /\ conversations'[d] = Upserted(d)
      BY <1>0, <2>1, <2>2, <2>4 DEF Typed, TypeOK
    <3>2. call = "import"
      BY <2>1, <2>2, <3>1 DEF NewConversations, FiledConversations, Present
    <3>3. QED
      BY <2>4, <3>1, <3>2 DEF Upserted
  <2>5. QED
    BY <2>3, <2>4
<1>3. CASE SetDisappearAfter
  <2>1. PICK rule \in Int \cup {Follow} :
          conversations' = [conversations EXCEPT ![current].rule = rule]
    BY <1>0, <1>3, RuleThatIsSet
  <2>2. current \in Conversation /\ conversations[current] \in Row
    BY <1>0, <1>3 DEF SetDisappearAfter, Sound, Grounded, Present, Typed, TypeOK
  <2>3. \A d \in Present(conversations) : conversations'[d].owner = conversations[d].owner
    BY <1>0, <2>1, <2>2 DEF Typed, TypeOK, Row, Present
  <2>4. Present(conversations') = Present(conversations) /\ backup' = backup
    BY <1>0, <1>3, PresentAfterSet DEF SetDisappearAfter
  <2>5. QED
    BY <2>3, <2>4 DEF Owners
<1>4. CASE WipeTable
  BY <1>4 DEF WipeTable, Owners, Present
<1>5. CASE \/ Starts \/ Fail \/ Stop \/ Tick \/ UNCHANGED vars
           \/ PutIdentity \/ PutMlsState \/ Connect \/ Load \/ PutMessage \/ Enqueue
           \/ PutSetting \/ PurgeMessages \/ PurgeOutbox
  <2>1. UNCHANGED <<conversations, backup>>
    BY <1>5 DEF Starts, Create, Open, Import, Wipe, SetRetentionPolicy, PurgeExpired,
       AddContact, Invite, SetDisappearingMessages, Send, Receive, Call, Begin, Fail,
       Stop, Tick, PutIdentity, PutMlsState, Connect, Load, PutMessage, Enqueue,
       PutSetting, PurgeMessages, PurgeOutbox, disk, vars
  <2>2. QED
    BY <2>1 DEF Owners
<1>6. QED
  BY <1>1, <1>2, <1>3, <1>4, <1>5 DEF Next, Starts, Statement

LEMMA RestoringAtPutConversation ==
  ASSUME IInv, Restoring, call = "import", PutConversation PROVE Restoring'
<1>0. Typed /\ Sound
  BY DEF IInv
<1>1. \A d \in Present(conversations) : conversations'[d] = conversations[d]
  BY <1>0, PresentAfterPut
<1>2. \A d \in Present(backup.conversations) \ toPut :
        conversations'[d] = backup.conversations[d]
  BY <1>1 DEF Restoring, Present
<1>3. /\ next' = "set_disappear_after"
      /\ UNCHANGED <<call, pouch, key, backup, mls, toPut, rows, messages>>
  BY DEF PutConversation
<1>4. QED
  BY <1>2, <1>3 DEF Restoring, PutConversation

LEMMA RestoringAtSetDisappearAfter ==
  ASSUME IInv, Owners, Restoring, call = "import", SetDisappearAfter PROVE Restoring'
<1>0. Typed /\ Sound
  BY DEF IInv
<1>1. /\ conversations' =
           [conversations EXCEPT ![current].rule = backup.conversations[current].rule]
      /\ toPut' = toPut \ {current} /\ next' = NextRow(toPut', rows)
      /\ UNCHANGED <<call, pouch, key, backup, mls, rows, messages>>
  BY DEF SetDisappearAfter
<1>2. current \in Present(conversations) /\ current \in Present(backup.conversations)
  BY <1>0 DEF SetDisappearAfter, Sound, Grounded, Importing
<1>3. conversations[current] \in Row /\ backup.conversations[current] \in Row
  BY <1>0, <1>2 DEF Typed, TypeOK, Sound, Importing, Backup, Present
<1>4. conversations[current].owner = backup.conversations[current].owner
  BY <1>0, <1>2 DEF Owners, Sound, Importing
<1>5. conversations'[current] = backup.conversations[current]
  <2>1. conversations'[current] =
          [conversations[current] EXCEPT !.rule = backup.conversations[current].rule]
    BY <1>0, <1>1, <1>2 DEF Typed, TypeOK, Present
  <2>2. QED
    BY <1>3, <1>4, <2>1 DEF Row
<1>6. \A d \in Conversation : d # current => conversations'[d] = conversations[d]
  BY <1>0, <1>1 DEF Typed, TypeOK
<1>7. \A d \in Present(backup.conversations) \ toPut' :
        conversations'[d] = backup.conversations[d]
  BY <1>1, <1>5, <1>6 DEF Restoring, Present
<1>8. QED
  BY <1>1, <1>7 DEF Restoring, NextRow, SetDisappearAfter

LEMMA RestoringAtPutMessage ==
  ASSUME IInv, Unique, Restoring, call = "import", PutMessage PROVE Restoring'
<1>0. Typed /\ Sound
  BY DEF IInv
<1>1. PICK r \in rows :
        /\ messages' = {q \in messages : q.id # r.id} \cup {r}
        /\ rows' = rows \ {r} /\ next' = NextRow(toPut, rows \ {r})
  BY DEF PutMessage
<1>2. UNCHANGED <<call, pouch, key, backup, mls, conversations, toPut>>
  BY DEF PutMessage
<1>3. messages \subseteq messages'
  BY <1>1 DEF Unique, Filed
<1>4. \A q \in backup.messages : q \in rows' \cup messages'
  BY <1>1, <1>3 DEF Restoring, PutMessage
<1>5. toPut = {}
  BY DEF Restoring, PutMessage
<1>6. QED
  BY <1>1, <1>2, <1>4, <1>5 DEF Restoring, NextRow, PutMessage

LEMMA RestoringAtStatements ==
  ASSUME IInv, Unique, Owners, Restoring, call = "import", Statement PROVE Restoring'
<1>0. Typed /\ Sound /\ Wiped
  BY DEF IInv
<1> USE DEF Restoring
<1>1. CASE PutIdentity \/ Enqueue \/ Connect \/ WipeTable
  BY <1>0, <1>1 DEF PutIdentity, Enqueue, Connect, WipeTable, Ended, hand, disk, Typed, Flow
<1>2. CASE PutMlsState
  BY <1>0, <1>2 DEF PutMlsState, NextRow, hand
<1>3. CASE Load
  BY <1>0, <1>3 DEF Load, Ended, disk, Wiped
<1>4. CASE PutConversation
  BY <1>4, RestoringAtPutConversation
<1>5. CASE SetDisappearAfter
  BY <1>5, RestoringAtSetDisappearAfter
<1>6. CASE PutMessage
  BY <1>6, RestoringAtPutMessage
<1>7. CASE PutSetting
  BY <1>7 DEF PutSetting, hand
<1>8. CASE PurgeMessages
  <2>1. /\ messages' = Kept(messages, now) /\ asof' = now /\ next' = "purge_outbox"
        /\ UNCHANGED <<conversations, policy, backup, pouch, call, key, mls, toPut, rows>>
    BY <1>8 DEF PurgeMessages
  <2>2. \A r \in backup.messages : r \in messages' \/ Condemned(r, asof)'
    BY <1>8, <2>1 DEF PurgeMessages, Kept, Condemned
  <2>3. QED
    BY <1>8, <2>1, <2>2 DEF PurgeMessages
<1>9. CASE PurgeOutbox
  BY <1>9 DEF PurgeOutbox, Ended
<1>10. QED
  BY <1>1, <1>2, <1>3, <1>4, <1>5, <1>6, <1>7, <1>8, <1>9 DEF Statement

LEMMA RestoringStep == IInv /\ Unique /\ Owners /\ Restoring /\ [Next]_vars => Restoring'
<1> SUFFICES ASSUME IInv, Unique, Owners, Restoring, [Next]_vars PROVE Restoring'
  OBVIOUS
<1>1. CASE call' # "import"
  BY <1>1 DEF Restoring
<1>2. CASE Statement /\ call = "import"
  BY <1>2, RestoringAtStatements
<1>3. CASE Statement /\ call # "import"
  <2>1. call' # "import"
    BY <1>3 DEF Statement, PutIdentity, PutMlsState, Connect, Load, PutConversation,
       SetDisappearAfter, PutMessage, Enqueue, PutSetting, PurgeMessages, PurgeOutbox,
       WipeTable, Ended, hand
  <2>2. QED
    BY <2>1, <1>1
<1>4. CASE Import
  BY <1>4 DEF Import, Begin, Restoring, disk
<1>5. CASE Tick \/ UNCHANGED vars
  BY <1>5 DEF Tick, vars, disk, hand, Restoring, Condemned
<1>6. CASE (Starts /\ ~Import) \/ Export \/ Fail \/ Stop
  <2>1. call' # "import"
    BY <1>6 DEF Starts, Create, Open, Wipe, SetRetentionPolicy, PurgeExpired,
       AddContact, Invite, SetDisappearingMessages, Send, Receive, Call, Begin,
       Export, Fail, Stop, Ended
  <2>2. QED
    BY <2>1, <1>1
<1>7. QED
  BY <1>2, <1>3, <1>4, <1>5, <1>6 DEF Next, Starts

\* Whose key a call has in hand: that of the open Pouch, or the one it loaded.
Working ==
  /\ call \notin {"idle", "create", "open", "import"} => key = pouch
  /\ call = "open" /\ next # "load" => key = identity

\* The file is of one identity too.
Belongs ==
  /\ OneIdentity
  /\ ~strayed /\ backup # NoBackup =>
       \A c \in Present(backup.conversations) :
         backup.conversations[c].owner = backup.identity

LEMMA WorkingStep == IInv /\ Working /\ [Next]_vars => Working'
<1> SUFFICES ASSUME IInv, Working, [Next]_vars PROVE Working'
  OBVIOUS
<1> USE DEF Working, disk, hand, Ended
<1>0. Flow
  BY DEF IInv, Typed
<1>1. CASE Starts
  BY <1>1 DEF Starts, Create, Open, Import, Wipe, SetRetentionPolicy, PurgeExpired,
     AddContact, Invite, SetDisappearingMessages, Send, Receive, Call, Begin
<1>2. CASE PutIdentity \/ PutMlsState \/ Connect \/ Load
  BY <1>0, <1>2 DEF Flow, PutIdentity, PutMlsState, Connect, Load
<1>3. CASE PutConversation \/ SetDisappearAfter \/ PutMessage \/ Enqueue
  BY <1>3 DEF PutConversation, SetDisappearAfter, PutMessage, Enqueue
<1>4. CASE PutSetting \/ PurgeMessages \/ PurgeOutbox
  BY <1>0, <1>4 DEF Flow, PutSetting, PurgeMessages, PurgeOutbox
<1>5. CASE WipeTable
  BY <1>5 DEF WipeTable
<1>6. CASE Export \/ Fail \/ Stop \/ Tick \/ UNCHANGED vars
  BY <1>6 DEF Export, Fail, Stop, Tick, vars
<1>7. QED
  BY <1>1, <1>2, <1>3, <1>4, <1>5, <1>6 DEF Next, Starts, Statement

\* Once rows went astray they stay so.
LEMMA StrayedStays == IInv /\ [Next]_vars /\ ~strayed' => ~strayed
<1> SUFFICES ASSUME IInv, [Next]_vars, ~strayed', strayed PROVE FALSE
  OBVIOUS
<1>1. CASE Starts \/ Export \/ Fail \/ Stop \/ Tick \/ UNCHANGED vars
  BY <1>1 DEF Starts, Create, Open, Import, Wipe, SetRetentionPolicy, PurgeExpired,
     AddContact, Invite, SetDisappearingMessages, Send, Receive, Call, Begin, Export,
     Fail, Stop, Tick, vars
<1>2. CASE Statement
  BY <1>2 DEF Statement, PutIdentity, PutMlsState, Connect, Load, PutConversation,
     SetDisappearAfter, PutMessage, Enqueue, PutSetting, PurgeMessages, PurgeOutbox,
     WipeTable
<1>3. QED
  BY <1>1, <1>2 DEF Next, Starts

\* Writing an identity beside rows of another, and a row beside an identity not
\* its own, are the two steps that go astray; no other can part them.
LEMMA BelongsStep ==
  IInv /\ Working /\ Restoring /\ Belongs /\ [Next]_vars => Belongs'
<1> SUFFICES ASSUME IInv, Working, Restoring, Belongs, [Next]_vars, ~strayed'
             PROVE  /\ \A c \in Present(conversations') : conversations'[c].owner = identity'
                    /\ pouch' # NoKey /\ Present(conversations') # {} => pouch' = identity'
                    /\ backup' # NoBackup =>
                         \A c \in Present(backup'.conversations) :
                           backup'.conversations[c].owner = backup'.identity
  BY DEF Belongs, OneIdentity, RowsAreOfTheIdentity, Present
<1>0. /\ ~strayed /\ Typed /\ Sound /\ Flow
      /\ \A c \in Present(conversations) : conversations[c].owner = identity
      /\ pouch # NoKey /\ Present(conversations) # {} => pouch = identity
      /\ backup # NoBackup =>
           \A c \in Present(backup.conversations) :
             backup.conversations[c].owner = backup.identity
  BY StrayedStays DEF IInv, Typed, Belongs, OneIdentity, RowsAreOfTheIdentity
<1>1. CASE UNCHANGED <<identity, conversations, backup>> /\ pouch' \in {pouch, NoKey}
  BY <1>0, <1>1
<1>2. CASE PutIdentity
  <2>1. UNCHANGED <<conversations, backup, pouch>> /\ identity' = key
    BY <1>2 DEF PutIdentity
  <2>2. Present(conversations) # {} => mls # NoKey
    BY <1>0 DEF IInv, HistoryOpens
  <2>3. identity = key \/ mls = NoKey
    BY <1>2 DEF PutIdentity
  <2>4. QED
    BY <1>0, <2>1, <2>2, <2>3
<1>3. CASE PutConversation
  <2>1. identity = key /\ identity' = identity /\ pouch' = pouch /\ backup' = backup
    BY <1>3 DEF PutConversation, Astray
  <2>2. call = "import" \/ key = pouch
    BY <1>0, <1>3 DEF PutConversation, Flow, Working
  <2>3. pouch # NoKey => pouch = identity
    BY <2>1, <2>2 DEF Restoring
  <2>4. PICK c \in IF call = "import" THEN toPut ELSE NewConversations :
          conversations' = [conversations EXCEPT ![c] = Upserted(c)]
    BY <1>3 DEF PutConversation
  <2>5. /\ c \in Conversation
        /\ \A d \in Conversation : d # c => conversations'[d] = conversations[d]
        /\ conversations'[c] = Upserted(c)
    BY <1>0, <2>4 DEF Typed, TypeOK, NewConversations
  <2>6. Upserted(c).owner = identity
    <3>1. CASE conversations[c] # NoRow
      BY <1>0, <2>5, <3>1 DEF Upserted, Present
    <3>2. CASE conversations[c] = NoRow /\ call = "import"
      <4>1. backup # NoBackup /\ c \in Present(backup.conversations)
            /\ key = backup.identity
        BY <1>0, <2>4, <3>2 DEF Sound, Importing, Restoring
      <4>2. QED
        BY <1>0, <2>1, <3>2, <4>1 DEF Upserted
    <3>3. CASE conversations[c] = NoRow /\ call # "import"
      BY <2>1, <3>3 DEF Upserted
    <3>4. QED
      BY <3>1, <3>2, <3>3
  <2>7. \A d \in Present(conversations') : conversations'[d].owner = identity
    BY <1>0, <2>5, <2>6 DEF Present
  <2>8. QED
    BY <1>0, <2>1, <2>3, <2>7
<1>4. CASE SetDisappearAfter
  <2>1. PICK rule \in Int \cup {Follow} :
          conversations' = [conversations EXCEPT ![current].rule = rule]
    BY <1>0, <1>4, RuleThatIsSet
  <2>2. current \in Conversation /\ conversations[current] \in Row
    BY <1>0, <1>4 DEF SetDisappearAfter, Sound, Grounded, Present, Typed, TypeOK
  <2>3. \A d \in Present(conversations) : conversations'[d].owner = conversations[d].owner
    BY <1>0, <2>1, <2>2 DEF Typed, TypeOK, Row, Present
  <2>4. Present(conversations') = Present(conversations)
    BY <1>0, <1>4, PresentAfterSet
  <2>5. UNCHANGED <<identity, pouch, backup>>
    BY <1>4 DEF SetDisappearAfter
  <2>6. QED
    BY <1>0, <2>3, <2>4, <2>5
<1>5. CASE WipeTable
  <2>1. UNCHANGED <<backup, pouch>>
        /\ \/ conversations' = conversations
           \/ conversations' = [c \in Conversation |-> NoRow]
    BY <1>5 DEF WipeTable
  <2>2. identity' = identity \/ Present(conversations) = {}
    BY <1>5 DEF WipeTable, IInv, Wiped
  <2>3. Present([c \in Conversation |-> NoRow]) = {}
    BY DEF Present
  <2>4. QED
    BY <1>0, <2>1, <2>2, <2>3
<1>6. CASE PurgeOutbox
  <2>1. UNCHANGED <<identity, conversations, backup>> /\ pouch' = key
    BY <1>6 DEF PurgeOutbox
  <2>2. key = identity \/ key = pouch
    BY <1>0, <1>6 DEF PurgeOutbox, Flow, Working, IInv, Wiped
  <2>3. QED
    BY <1>0, <2>1, <2>2
<1>7. CASE Connect
  <2>1. UNCHANGED <<identity, conversations, backup>> /\ pouch' \in {key, pouch}
    BY <1>7 DEF Connect, disk
  <2>2. key = identity
    BY <1>0, <1>7 DEF Connect, Flow, IInv, Wiped
  <2>3. QED
    BY <1>0, <2>1, <2>2
<1>8. CASE Export
  <2>1. /\ UNCHANGED <<identity, conversations, pouch>> /\ pouch # NoKey
        /\ backup'.identity = pouch /\ backup'.conversations = conversations
    BY <1>8 DEF Export
  <2>2. QED
    BY <1>0, <2>1
<1>9. CASE \/ Starts \/ Fail \/ Stop \/ Tick \/ UNCHANGED vars
           \/ PutMlsState \/ Load \/ PutMessage \/ Enqueue \/ PutSetting \/ PurgeMessages
  BY <1>1, <1>9 DEF Starts, Create, Open, Import, Wipe, SetRetentionPolicy, PurgeExpired,
     AddContact, Invite, SetDisappearingMessages, Send, Receive, Call, Begin, Fail,
     Stop, Tick, PutMlsState, Load, PutMessage, Enqueue, PutSetting, PurgeMessages,
     disk, vars
<1>10. QED
  BY <1>2, <1>3, <1>4, <1>5, <1>6, <1>7, <1>8, <1>9 DEF Next, Starts, Statement

Whole == IInv /\ Unique /\ Owners /\ Restoring /\ Working /\ Belongs

LEMMA WholeInductive == Spec => []Whole
<1>1. Init => Unique /\ Owners /\ Restoring
  BY DEF Init, Unique, Filed, FiledMessages, Owners, Restoring
<1>2. Init => Working /\ Belongs
  BY DEF Init, Working, Belongs, OneIdentity, RowsAreOfTheIdentity, Present
<1>3. IInv /\ Unique /\ Owners /\ Restoring /\ [Next]_vars => (Unique /\ Owners /\ Restoring)'
  BY UniqueStep, OwnersStep, RestoringStep
<1>4. IInv /\ Restoring /\ Working /\ Belongs /\ [Next]_vars => (Working /\ Belongs)'
  BY WorkingStep, BelongsStep
<1>5. QED
  BY <1>1, <1>2, <1>3, <1>4, Inductive, PTL DEF Spec, Whole

\* identity.rs:12: for any number of creates, stops, wipes, exports and imports
\* the conversations on a device are of its identity and of its open Pouch,
\* until one of the two steps that can part them is taken.
THEOREM IdentityStaysOne == Spec => []OneIdentity
<1>1. Whole => OneIdentity
  BY DEF Whole, Belongs
<1>2. QED
  BY <1>1, WholeInductive, PTL

\* What a rule that fits condemns is older than the rule allows.
LEMMA CondemnedIsOld ==
  ASSUME Typed, NEW r \in Stored, NEW t \in Nat, t <= now, Fits(r), Condemned(r, t)
  PROVE  LET rule == conversations[r.conversation].rule
             age  == now - r.at
         IN  IF rule = Follow THEN policy # Forever /\ age > policy ELSE age > rule
<1> DEFINE rule == conversations[r.conversation].rule
<1>1. rule \in Nat \cup {Follow} /\ r.at \in Nat /\ now \in Nat
  BY DEF Fits, Typed, TypeOK, Stored
<1>2. CASE rule = Follow
  <2>1. policy # Forever /\ r.at < t - policy
    BY <1>2 DEF Condemned
  <2>2. policy \in Nat
    BY <2>1, DeviceAssumption DEF Typed, TypeOK
  <2>3. QED
    BY <1>1, <1>2, <2>1, <2>2
<1>3. CASE rule # Follow
  <2>1. r.at < t - rule /\ rule \in Nat
    BY <1>1, <1>3 DEF Condemned
  <2>2. QED
    BY <1>1, <1>3, <2>1
<1>4. QED
  BY <1>2, <1>3

\* settings.rs:82: for any rules, any clock and any number of messages, a row
\* that goes outside a wipe has outlived the rule its user set.
THEOREM NothingEverGoesEarly == Spec => NothingGoesEarly
<1>1. ASSUME Whole, [Next]_vars, NEW r \in (messages \ messages') \cup (outbox \ outbox'),
             call # "wipe", Fits(r)
      PROVE  LET rule == conversations[r.conversation].rule
                 age  == now - r.at
             IN  IF rule = Follow THEN policy # Forever /\ age > policy ELSE age > rule
  <2>0. Typed /\ r \in Stored /\ now \in Nat /\ asof \in Nat /\ asof <= now
    BY <1>1 DEF Whole, IInv, Typed, TypeOK, Purging
  <2>1. PurgeMessages \/ PurgeOutbox \/ PutMessage
    BY <1>1 DEF Next, Create, Open, Import, Export, Wipe, SetRetentionPolicy,
       PurgeExpired, AddContact, Invite, SetDisappearingMessages, Send, Receive, Call,
       Begin, Statement, PutIdentity, PutMlsState, Connect, Load, PutConversation,
       SetDisappearAfter, Enqueue, PutSetting, WipeTable, Fail, Stop, Tick, disk, vars
  <2>2. CASE PurgeMessages
    <3>1. Condemned(r, now)
      BY <1>1, <2>2 DEF PurgeMessages, Kept
    <3>2. QED
      BY <1>1, <2>0, <3>1, CondemnedIsOld
  <2>3. CASE PurgeOutbox
    <3>1. Condemned(r, asof)
      BY <1>1, <2>3 DEF PurgeOutbox, Kept
    <3>2. QED
      BY <1>1, <2>0, <3>1, CondemnedIsOld
  <2>4. CASE PutMessage
    <3>1. outbox' = outbox /\ r \in messages /\ r \notin messages'
      BY <1>1, <2>4 DEF PutMessage
    <3>2. PICK q \in IF call = "import" THEN rows
                     ELSE [id : NewMessages, conversation : {current}, at : {now}] :
            messages' = {p \in messages : p.id # q.id} \cup {q}
      BY <2>4 DEF PutMessage
    <3>3. r.id = q.id /\ r # q
      BY <3>1, <3>2
    <3>4. CASE call = "import"
      BY <1>1, <3>1, <3>2, <3>3, <3>4 DEF Whole, Unique, Filed
    <3>5. CASE call # "import"
      BY <3>1, <3>2, <3>3, <3>5 DEF NewMessages
    <3>6. QED
      BY <3>4, <3>5
  <2>5. QED
    BY <2>1, <2>2, <2>3, <2>4
<1>2. Whole /\ [Next]_vars =>
        [\A r \in (messages \ messages') \cup (outbox \ outbox') :
           call # "wipe" /\ Fits(r) =>
             LET rule == conversations[r.conversation].rule
                 age  == now - r.at
             IN  IF rule = Follow THEN policy # Forever /\ age > policy ELSE age > rule]_vars
  BY <1>1
<1>3. QED
  BY <1>2, WholeInductive, PTL DEF Spec, NothingGoesEarly

\* backup.rs:177: for any file and any number of attempts that were cut short,
\* an import that answers Ok has brought back all of it.
THEOREM RestoresAreWhole == Spec => RestoreIsWhole
<1>1. ASSUME Whole, [Next]_vars, call = "import", pouch' # NoKey
      PROVE  /\ identity' = backup.identity /\ mls' = backup.identity
             /\ policy' = backup.policy
             /\ \A c \in Present(backup.conversations) :
                  conversations'[c] = backup.conversations[c]
             /\ \A r \in backup.messages : r \in messages' \/ Condemned(r, asof)
  <2>1. pouch = NoKey /\ Typed /\ Wiped /\ Restoring
    BY <1>1 DEF Whole, IInv, Restoring
  <2>2. PurgeOutbox \/ UNCHANGED pouch
    BY <1>1, <2>1 DEF Typed, Flow, Next, Create, Open, Import, Export, Wipe,
       SetRetentionPolicy, PurgeExpired, AddContact, Invite, SetDisappearingMessages,
       Send, Receive, Call, Begin, Statement, PutIdentity, PutMlsState, Connect, Load,
       PutConversation, SetDisappearAfter, PutMessage, Enqueue, PutSetting,
       PurgeMessages, WipeTable, Fail, Stop, Tick, vars
  <2>3. PurgeOutbox
    BY <1>1, <2>1, <2>2
  <2>4. UNCHANGED <<identity, mls, conversations, messages, policy>>
        /\ next = "purge_outbox"
    BY <2>3 DEF PurgeOutbox
  <2>5. identity = key /\ key = backup.identity /\ mls = key
    BY <1>1, <2>1, <2>4 DEF Wiped, Restoring
  <2>6. QED
    BY <1>1, <2>1, <2>4, <2>5 DEF Restoring
<1>2. Whole /\ [Next]_vars =>
        [call = "import" /\ pouch' # NoKey =>
           /\ identity' = backup.identity /\ mls' = backup.identity
           /\ policy' = backup.policy
           /\ \A c \in Present(backup.conversations) :
                conversations'[c] = backup.conversations[c]
           /\ \A r \in backup.messages : r \in messages' \/ Condemned(r, asof)]_vars
  BY <1>1
<1>3. QED
  BY <1>2, WholeInductive, PTL DEF Spec, RestoreIsWhole

=============================================================================
