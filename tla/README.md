# Pouch: a TLA+ verification of the anonymous chat client and its relay

Pouch is an end-to-end encrypted messenger: a core library (`src/core`), a
command line and a desktop client over it (`src/clients`), and a relay that
keeps sealed blobs for a while (`src/server`). This directory holds TLA+ models
of its core logic, TLC configurations that check them on small instances, and
theorems about them that TLAPS checks for every value of the constants.
References such as `messaging.rs:72` are to files under `src/`.

## The system

| Component | State it keeps | Operations | Hard part |
|---|---|---|---|
| Relay queue (`server/src`) | rows (id, inbox, blob, expiry) | submit, collect, acknowledge, sweep | coarse expiry, sweeper against collect, acknowledgements of anything |
| Transport (`core/src/transport.rs`) | nothing | send, collect, acknowledge | a call that failed may have been carried out |
| Message delivery (`core/src/api/messaging.rs`, `storage/outbox.rs`, `messages.rs`) | outbox, messages, MLS snapshot; the provider in memory | send_message, flush_outbox, receive_messages, persist, open | stops between POST, rows, snapshot and acknowledgement; retries; random order |
| MLS ratchet (`crypto/session.rs` over openmls) | generation, window of kept keys | encrypt, decrypt | order, repetition, restored snapshots |
| Keying (`keying.rs`, `api/storage_controls.rs`, the shells) | sidecar, device key files, database key | unlock, set_passphrase, clear_passphrase | three files changed one by one |
| Contacts (`storage/contacts.rs`, `api/contacts.rs`) | contacts, conversations, identity_changes | add, join, Hello, verify, key change, acknowledge | a mark, a warning and a key that move separately |
| Pairing (`api/contacts.rs`, `messaging.rs` `try_join`, `api/mod.rs` reload) | groups in memory and in the snapshot, conversations rows, the reply address on disk and in the map | invite_code, add_contact, try_join, Hello | Welcome and Hello lost, out of order or half sent |
| Device lifecycle (`api/mod.rs`, `storage/identity.rs`) | identity row, mls_state row | create, open, exists, wipe_all | rows written and emptied one by one; nothing looks before create |
| Retention (`storage/settings.rs`, `api/storage_controls.rs`) | policy, per-conversation interval | set either, purge_expired | two rules over two tables, changed at any time; widths of numbers |
| Backup (`api/backup.rs`) | a sealed copy | export, import | row-by-row import; an old ratchet |
| Replies and the shared outbox (`messaging.rs`, `storage/outbox.rs`) | one outbox for all conversations | queue, retry | the address is fixed when a row is queued |
| Message manifest (`manifest.rs`, `Conversation.tsx`) | nine stages of one send; the thread's view of it | filled in stage by stage | what is claimed against what happened |
| Schema migration (`storage/schema.rs`) | user_version, tables, columns | migrate at every open | stops between statements, several openers |
| Compression, attachments, safety number | none | pure functions | |

How they interact. A client process holds one `Pouch` and serves one call at a
time (the CLI is one call per process; the desktop holds a lock). A call
changes the MLS provider in memory, writes rows of an SQLCipher database
statement by statement, talks to the relay over HTTP, and writes the provider
back as a whole with `persist_mls_state`. The two ends of a conversation share
nothing but the recipient's inbox on the relay, which orders what it returns by
random identifiers and forgets what is acknowledged or out of time. What is
hard is therefore between the writes: a process that ends there, a request
that fails or whose answer is lost, the relay's clock, and the other end's
steps in between.

What makes each part correct: the relay neither loses nor over-keeps; a message
that was composed appears at the other end, once; what was acknowledged is
stored; one generation carries one message; what the interface says about
protection, identity, deletion and delivery is true of the disk, the keys and
the relay; and what is left on the disk after a stop can be opened again.

## Modules

| Module | Models | Notes |
|---|---|---|
| `MailDrop` | the contract of one inbox | abstract: submit, acknowledge, expire |
| `Relay` | `store.rs`, the handlers of `http.rs`, the sweeper | refines `MailDrop` for any inbox `Own` |
| `Wire` | an inbox through `transport.rs`, and time | uses `MailDrop`; adds failed calls and lost answers |
| `Ratchet` | the two limits of `session.rs:39-54` | openmls itself is external |
| `Sender` | send_message, send_payload with the Hello, flush_outbox, a poll of an empty inbox, restart | one step per statement or request |
| `Receiver` | receive_messages for texts and the Hello, restart | likewise |
| `Custody` | the manifest of a send and what the thread shows of it | extends `Sender`, step for step |
| `Reply` | one outbox for several conversations, some without a reply address | one refused row against all behind it |
| `Mailbox` | what a user expects of one direction | abstract: compose, appear, again at most `Copies` - 1 times |
| `Delivery` | `Sender` and `Receiver` over `Wire` | refines `Mailbox` |
| `Keying` | keying.rs, set/clear_passphrase, start of each shell | `Shell` selects the client |
| `Contacts` | contacts, conversations, identity changes | |
| `Introduction` | what two people may expect of an introduction | abstract: offer, open, hear |
| `Pairing` | invite_code, add_contact, try_join, Hello, reload | refines `Introduction`, over `MailDrop` |
| `Schema` | `schema.rs`, statement by statement, with several openers | |
| `Device` | create, open, wipe, backup, retention, over the rows they share | one step per statement |
| `MC*` | model values and symmetry for TLC | |
| `*Proofs` | theorems about the module named | |

`Relay` implements `MailDrop` (`RelayImplementsMailDrop`), and `Delivery` and
`Pairing` keep to it (`DeliveryKeepsToMailDrop`, `PairingKeepsToMailDrop`), so what
holds of the two ends stands on a relay contract that is itself checked and proved.

### Correspondence to the code

*Relay.* `queue` is the table; `Enqueue`, `Collect`, `Acknowledge`,
`SweepExpired` are the functions of `store.rs` with the validation of
`http.rs`. The store is behind a mutex, so each is one action. `arrivals`,
`acked` and `response` are histories.

*Sender and Receiver.* `phase` and `step` say which statement of the call in
progress comes next. `outbox`, `sentRows`/`rows` and `savedGeneration`/
`savedWindow` are on disk and survive `SenderRestart`/`ReceiverRestart`;
`generation`/`window` are the MLS provider and go back to what was saved.
The side that added the contact begins with `phase` "hello": `Hello` is then in
`Msg`, and `send_payload` posts it once. The side that was added has no Hello to
send. Two calls can end with an error and nothing persisted: `HelloFailed`
(`messaging.rs:56`) and `AckFailed` (`messaging.rs:307`). The process goes on with
the ratchet it has in memory, which the next call saves, or ends and loses the step.
`senderTorn`/`receiverTorn` record that a restart, in mid-call or between calls,
took a ratchet step back; the properties that such a restart breaks say so in
their premise. `persisted` records whose call got to `persist_mls_state`. A letter
on the wire is an identifier, a body and a generation. An answer may be lost after the relay
acted (`LoseAnswer`). A batch is opened in any order because the relay orders by
random identifiers.

*Keying.* A key derived from a passphrase is the pair (passphrase, salt).
`step` walks through a call: derive, write the sidecar, rekey, then remove the
device key, answer, or roll back. The commit of a rekey and the answer of the call
are two steps, between which the process may stop. `write_private` creates, that is truncates, a file before it
writes, so a step that writes a file may be cut short with the file untouched,
torn or complete (`HalfWritten`), by a stop or by an error. `PRAGMA rekey` is a
transaction of SQLite. `promise` is what the last successful call told the user. `protected` is TRUE from
the Ok of `set_passphrase` to the commit of the rekey with which a
`clear_passphrase` undoes it; from that commit on, the key file opens the database
even if the process stops before it answers.

*Contacts.* A contact's id is the key it was added under; a conversation speaks
with the key of its MLS credential, which may differ from the key an invite
claimed. `replace_identity_key` is two statements and two steps
(`KeyDiffers`, `RecordChange`), between which the process may stop. `marked`,
`compared`, `answered`, `open` and `struck` are histories; `answered` holds the
keys whose change the user acknowledged. `number` is the safety number in
front of the user, who may take any time to compare it.

*Pairing.* `addStep` walks through `add_contact`, `step` through
`receive_messages`. A group is in the provider (`groups`, `provider.groups`), in
the snapshot (`savedGroups`, `saved.groups`), and, with its row, in the map a
client can use (`live`, `replyTo`): a `Pouch` that opens needs both rows and
snapshot to put it there. Every conversation is with the same person, so there
is one contact row, `contactInbox`, which every Welcome blanks and every Hello
fills in, while `replyTo` is per conversation. The key package of an invite is
in the provider until a group is joined with it. `heard` is the set of groups
whose first key has been used, which is what `Ratchet` says in more detail.
`erased` letters are those the joiner acknowledged; letters whose time to live
ran out leave `waiting` only.

*Custody.* `manifest` is the local variable of `send_message`, `shown` the
`pending` list of `Conversation.tsx`. Every step of `Sender` is a step of
`Custody` with its effect on the two added: the manifest is complete when the
POST has answered or failed, and the screen decides when the call returns.

*Reply.* `replyTo` is `peer_inbox_id` of each conversation: none, blank after
the Welcome, known after the Hello. A row of the outbox keeps the address it was
queued with. A POST to a blank inbox has no route and a blob above the limit is
answered 413, as often as it is repeated (`Refused`); an unreachable relay is an
outage, of which there are `MaxOutages`.

*Schema.* `step` is the next statement of each opener: the ten CREATEs of the
two batches, `table_info`, `ALTER TABLE`, `user_version`. Each is durable on its
own, since no transaction surrounds a migration, so a fault may come between
any two and other openers may run in between. The file starts empty or as
Phase 1 left it.

*Device.* `call` and `next` are the call in progress and its next statement. An
identity stands for its key pair, the MLS snapshot (`mls`) for the private key in
it, and a conversation for its contact as well. A row says whose it is (`owner`):
the code keeps that in the conversation's MLS group. `wipe` is six DELETEs,
`import_backup` a statement per row, `purge_expired` two DELETEs with one reading
of the clock. `promised` is the second up to which the last answered call applied
retention; `strayed` records that a client wrote rows beside an identity that is
not theirs, which takes a second `create` or a call after `wipe_all`. Seconds are
a `u64` for the user and an `i64` in the row: `AsI64` wraps at `Word`.

## Runs

Nine runs pass.

| Run | Question | Bounds, and why they are enough |
|---|---|---|
| `relay` | Does the relay keep what it must and drop what it must? | two inboxes, two blobs, Ttl 3 and Bucket 2 (coprime, so arrivals fall on and off boundaries), clock to 8, past the last expiry; a malformed inbox and an oversized blob are among the inputs |
| `sender` | Is what the client says was sent on its way, under one generation each, in order, and do manifest and screen tell the truth about it? | a Hello, whose failure leaves the ratchet ahead of the snapshot, and three messages, so a queue has a head, a middle and a newcomer; one lost answer, one mid-call stop, any number of restarts between calls, clock 0-2 with one second of retention |
| `delivery` | What can crashes and lost answers on both sides break, where is each message that was sent, and is it a `Mailbox`? | a Hello and a text with four identifiers, so a blob may be there twice and a generation may be used by both; tolerance 2; a lost answer, an expiry and a stop of either end, so that a message may appear twice |
| `eventually` | Does every message appear in the end? | the side that was added, with two messages and a lost answer; no crash and no expiry (both do lose messages, by design), and no Hello (one that failed is never repeated, and a restart after it can cost the next message, see below) |
| `keying` | What do stops, torn files and failing writes do to a protected database? | two passphrases, three salts and three device keys: enough to protect, clear and protect again with fresh ones; deadlock is not checked because a torn file can leave a client that never opens |
| `contacts` | Does the interface tell the truth about identities? | two keys and three conversations: two of them can fight over one contact |
| `pairing` | Do two clients that stop anywhere come to share a conversation and an address? | two conversations, so that the Welcome of one can blank what the Hello of the other taught; two invites, one of which may be used twice; any number of stops, failed requests, lost answers and expiries |
| `schema` | Is a store that was handed out whole, and does everyone open in the end? | two openers side by side and two faults: both can look for the column before either adds it, and each can be stopped once |
| `device` | What, and whose, is on the disk after create, open, restore, wipe and purge were cut short in any order? | two identities, a conversation, two messages, one fault; a policy of 0 seconds and intervals of 0, 1 and 15 seconds, of which 15 is negative with `Word` 16; clock 0-1 |

The instance of `device` has 3.7 million states. Its neighbours were checked
without error as well: clock to 2 with a policy of 1 second (6.9 million), and
two conversations with one message and clock to 2 (23 million).

`FlushedBySecond` is stated by seconds because that is all `ORDER BY at, id`
gives: within one second the order of the retry is that of random identifiers.

Type invariants are proved for every value of the constants and are therefore in
no run; that of `Reply`, which has no proofs, was model-checked on its instance.

Three runs show where the code and what is said of it part. Each checks the one
property quoted in the finding and TLC finds a counterexample.

| Run | What TLC shows |
|---|---|
| `desktop` | The desktop sets a passphrase and at the next start reads `device.key`: it cannot open (`PrivacyStorage.tsx:173`). |
| `replaced` | A second `create` replaces identity and keys under the conversations that are there. `identity.rs:12` says `put_identity` is called once, `backup.rs:182` gives create "a path with no identity yet" as precondition; neither the CLI (`commands/identity.rs:16`) nor the desktop's first-run screen (`App.tsx:97-100`, where a failed open leads) looks. |
| `blocked` | A message written before the Hello is queued with an empty address, refused for ever, and everything behind it in the one outbox waits with it, although the CLI says "It will send when you reconnect" (`commands/storage.rs:101`). |

`blocked` was tried in two other ways. With a blob above the relay's limit in
place of the early reply the queue is blocked in the same way; when no row of
either kind is queued, everything does go out.

### Met on the way

Statements of the repository that the code does not keep, without a run of
their own:

- `messaging.rs:72` says the outbox goes first so that today's message cannot
  overtake yesterday's. A flush that fails still answers Ok and the new message
  is posted ahead. The MLS window makes this harmless as long as it is within
  the tolerance (`NothingStranded`).
- `api/mod.rs:229` says of `persist_mls_state` that it is "called after every
  operation that advances the protocol". Three operations advance it and may not
  get there: a call that is stopped after its POST; `send_payload`, which returns on
  a failed POST of the Hello (`messaging.rs:55-58`); and `receive_messages`, which
  returns on a failed acknowledgement (`messaging.rs:307-310`). The last two are
  plain error returns, after which even a process that ends between calls loses the
  ratchet step. The next start then encrypts another message under the same
  generation; if the Hello did reach the relay and was read, the peer refuses that
  message. `senderTorn` and `receiverTorn` say exactly when this happens,
  `GenerationsUnique` and `StoredOnce` hold until then, and `PersistedStayApart`
  says what is kept whatever happens: a message whose call got to
  `persist_mls_state` never shares a generation with another such message.
- `storage/contacts.rs:108` says of a key change that three things "have to happen
  together". They are two statements without a transaction: a stop between them
  replaces the key, drops the mark and records no change. `struck` excepts it from
  `ChangeStaysUntilAnswered`; `VerifiedUnderThisKey` holds nevertheless.
- `settings.rs:107` says that a message that expired in the outbox "must not be
  delivered later". A client left running flushes first and purges at the end of
  `receive_messages` only (`messaging.rs:188`, 314), and so delivers it. With
  "a flush takes up no blob that has outlived its retention" as a property,
  TLC shows it in eight steps of `Sender`: a POST fails, the blob is queued, its
  time passes, the next call takes it up.
- `api/contacts.rs:81`: `verify_contact` names a contact and not a key. If a
  letter changes the key between showing the number and confirming, the new key
  is marked although nobody compared it. `MarkIsComparedOrAnswered` says what is
  kept nevertheless: a contact is shown as verified under such a key only once
  the user has acknowledged its change.
- `api/mod.rs:218-220`: `wipe_all` leaves provider and identity in memory, and
  any later call of that process persists them (`strayed`).
- `storage_controls.rs:118-121` describes the state after a crash the wrong way
  round: the sidecar is written first, so it is ahead of the database (D-035 in
  `docs/DECISIONS.md` has it right). That a stop leaves the database openable is
  not promised by the code and `OpensAsPromised` excepts it; `KeySurvives` says
  what is kept.
- `backup.rs:114` speaks of everything the device holds; outbox and
  identity_changes are not exported.
- `storage/identity.rs:53` says the MLS state goes "never to an export"; the
  backup holds it.
- `settings.rs:85` promises how many messages went; one that is also queued is
  counted twice (`settings.rs:120`).
- A `u64` interval of 2^63 seconds or more is negative in the database, which
  condemns every message of the conversation at once. `Fits` excepts it from
  `NothingGoesEarly` and `RetentionIsApplied`.
- An import cut short before its policy row leaves a database that opens under
  "keep forever" with the rows that were put.
- The manifest says delivered when the relay accepted (`ManifestIsHonest` is
  about the relay for this reason), and the manifest of a failed send is built
  and dropped.
- The thread's pending list goes on saying "failed" of a message a later flush
  delivered, next to the stored row that says it was sent.

Met in `Pairing`, where no line of the repository promises otherwise. (1) After
a second Welcome from someone known, `contacts.inbox_id` is blank until the
second Hello; a client that restarts in between loads the blank address into the
first conversation too, and the second Hello corrects the row and its own
conversation only, so replies in the first have no address until the next
restart. `HeardIsAddressed` has `~startedBlank` in its premise for this reason
and fails without it. (2) A Hello whose POST failed is never sent again: the
joiner keeps a conversation it cannot reply in. (3) When the answer to the
Welcome is lost, `add_contact` fails although the joiner will join; its group is
in the provider and comes alive at the next start, if any call has persisted it
by then, otherwise the row stays without a group. Trying again with the same
invite makes a second conversation that cannot be joined, its key package being
used up.

### Fairness

`FairSpec` of `Relay`: time passes and `main.rs:25` runs the sweeper on an
interval for as long as the process lives. No client is obliged to anything.

`FairSpec` of `Delivery`: a call that has begun runs on (it is sequential code
and every request has a timeout or an error); the two users check for messages
again and again, an assumption about users, since neither client polls by itself
(`Conversation.tsx:154` is a button, the CLI a command); and a request repeated
for ever is answered at some time. Nobody is obliged to send. Under this, every
message handed to `send_message` appears, from the side that was added: of the
other side it cannot be said, since its first call may fail without persisting.

`FairSpec` of `Schema`: an open that has begun runs on, being a loop-free call,
and one that ended is tried again, by a user who wants in or by the next command;
faults are bounded. `FairSpec` of `Reply`: the same of calls and polls, and
outages are bounded, so that only what the relay always refuses can stay.

## Proofs

All are proofs of the specifications TLC runs, for any values of the constants
that satisfy the ASSUMEs, which TLC evaluates in the passing runs.

*RelayProofs.* `IInv` is the type invariant, that every row has an arrival with
its expiry computed from it, that every arrival that is gone was acknowledged or
has expired, and that the last response was timely. Two facts of integer
division (`ExpiryBounds`) bound the expiry. From it: no early erasure, no late
answer, coarse expiry, complete collects, and `RelayImplementsMailDrop`.

*SenderProofs.* `SenderInv` adds to the types: what each `phase` implies of
`current` and `toFlush` (`PhaseInv`); identifiers of letters and of queued rows
are used once (`LettersInv`); outbox rows and letters that share a generation
share a body (`BindingInv`); every generation in use is below `generation` and
the snapshot is at most that (`GenerationInv`); the snapshot is past the generation
of every message whose call was persisted, restarts or not (`ApartInv`); nothing is dated in the future
(`TimeInv`); later seconds have later generations (`QueueInv`); rows are backed
(`BackedInv`). `GenerationsUnique` alone is not inductive because a blob that is
still queued can be posted again: `BindingInv` carries it across the queue.
`PersistedKeepApart` has no exception. A restart goes back to the snapshot and never
below it, and a message joins `persisted` in the step that moves the snapshot past
it, while all the older ones lie below.

The same module proves `Custody`. `CustodyIsTheSender` shows that manifest and
screen only watch, so `SenderInv` is an invariant of `CustodySpec` as well.
`ManifestIsHonest` and `ScreenIsTrue` are not inductive. `ManifestInv` adds in
which steps of the call a manifest exists, which of the two it is and what has
happened by then. `ShownInv` adds that the message in hand is shown as "sending",
and that one shown as "failed" is posted, has no row left, or has a blob in the
outbox that is no older than any row of it (`HeldFor`): a purge that takes the
blob then takes the rows with it (`PurgeTakesBoth`). `NoManifest` must not be a
manifest (`CustodyAssumption`).

*DeliveryProofs.* `Inv` is `SenderInv` and, for the receiver: a letter handled in
this call is stored and its generation spent (`HandledInv`), rows and counts
agree (`RowsInv`, `StoredInv`), and every generation below the head is kept, too
old or stored (`CoverInv`), which is the strengthening `NothingStranded` needs.
`NoReplay` and `SpentStays` are lemmas about `Advance` for every tolerance.

`MailboxIsImplemented` maps each step to `Compose`, `Appear` or a stutter, for
any number of receiver stops. What has to be shown is that `Open` never stores a
message for the `Copies` + 1st time. `CountInv` does it: a message is stored at
most once more than the process was stopped, and the key of one that has used
this up is spent, so its letters are refused until the next stop.
`SentIsAccountedFor` combines the two halves: a sent row is backed
(`BackedInv`), an erased letter is stored (`HandledInv`), and a waiting one is
within the window or was stored (`CoverInv`). `QuietIsDelivered` draws the
conclusion for a conversation at rest.

*KeyingProofs.* `IInv` ties the step of a call to the key and source in hand
(`CallInv`), the key that is in use to where it can be found (`StoreInv`,
`HomeInv`), the promise to the sidecar (`PromiseInv`) and the device keys ever
used to those on disk (`OpenedInv`, from the Ok of a `set_passphrase` to the commit
of a clear). `TheKeySurvives` holds for either shell;
`PromiseOpens` and `TheDiskAloneIsUseless` are for the command line client, as
the run `desktop` shows they must be.

*ContactsProofs.* `MarkInv` (a verified contact was marked under the key now in
use), `ComparedInv` (the number in front of the user is that of the contact's key,
or the change of that key has been acknowledged or waits to be; marks likewise),
`OpenInv` (an open change is recorded, or the one being recorded, or the
process was stopped inside one) and `SpeakerInv`.

*PairingProofs.* `AddInv` says what each step of `add_contact` has behind it;
`JoinInv` that a group in the joiner's provider is saved with its row and in the
map, or is the one being joined; `KeyInv` that the key package of a joined group
is gone, which is why no Welcome blanks an address twice; `LetterInv` strengthens
the properties from letters erased to letters handled, since the acknowledgement
comes later than what it is about; `ReadInv` follows a Hello through a poll.
`IntroductionIsImplemented` maps `PutRows`, `PutRow` and `Ack` to `Offer`,
`Open` and `Hear`, and every other step to a stutter.

*SchemaProofs.* `IInv` adds to the types what each opener has behind it by its
step (`DoneSoFar`) and that the version is written only over a whole file
(`Earned`). Tables and columns are never removed, so another opener's steps cannot
take it away.

*DeviceProofs.* `IInv` follows each call through its statements (`Flow`), says
what it works on (`Grounded`, `Importing`), that messages have their
conversation (`References`), what a wipe has emptied when it comes to the next
table (`Wiped`) and what the first half of a purge has done (`Purging`). From it:
`HistoryOpens` for any place where a call may be cut short, and
`RetentionIsApplied` for any rules and any changes of them. Three more parts
follow a restore: an identifier names one message on the disk, in the file and in
hand (`Unique`), a conversation on the disk and in the file is of one identity
(`Owners`), and what is not yet written is in hand (`Restoring`). From those:
`NothingGoesEarly` (only a purge deletes, and what it condemns is old enough) and
`RestoreIsWhole`. `OneIdentity` needs two more: a call of an open Pouch works
with its key and an open with the identity it read (`Working`), and the
conversations in the file are of the identity in the file (`Belongs`). It excepts
`strayed`, which no step takes back (`StrayedStays`) and which takes a second
`create` or `import`, or a call after a wipe; that the clients allow the first is
what the run `replaced` shows.

Model-checked only: `EventuallyErased`, `EveryMessageAppears` and `EveryoneOpens`,
which are liveness and out of the prover's reach, and the three violation runs.
Every other property of a run is a theorem.

## Assumptions and what is left out

- openmls: encrypting uses each generation once, decrypting uses a key once, and
  both write to the provider the snapshot captures. Epochs do not advance;
  nothing in the code commits (`process_handshake` has no caller).
- Payloads decompress and parse. A letter that decrypts and does not parse uses
  its key and is not acknowledged; it then waits for its time to live.
- A database statement does not fail, except in `Schema` and `Device`, where any
  may; an SQLite transaction is atomic.
- One process at a time uses a database, except in `Schema`. Nothing in the CLI
  enforces it.
- `POUCH_KEY`, which replaces the whole key source, is not modelled.
- The sender of `Sender` receives no mail; the retention of a conversation does
  not change while `Sender` runs (it does in `Device`).
- The clocks of device and relay only move forward.
- One call at a time, in the desktop too. Its `create_identity` and `open_identity`
  (`clients/desktop/src-tauri/src/commands.rs:146-183`) take the state lock only to
  store the `Pouch` they made, so two of them could interleave statement by
  statement; `Device` does not model that.
- `Sender` starts once the group of `add_contact` has been saved
  (`api/contacts.rs:55`); what comes before is in `Pairing`.
- Random identifiers are fresh, against what is on disk and in the backup file.
- Files: contents written and synced are there, directory entries are not lost.
- A backup that does not parse or decrypt is refused before the first row, so
  its header and encryption are left out, and there is one backup file.

### Not modelled

- MLS group state and credentials: openmls is a library, and the code above it
  never commits; what the code relies on is in `Ratchet` and the snapshots.
- Attachments, compression, safety numbers: pure functions without state;
  attachments have no caller.
- HTTP framing, routes, status codes, certificates and the loopback rule of the
  relay's address; argument parsing, printing and rendering. They are I/O around
  the modelled actions, or data no property tells apart.
- Argon2id, AEAD and hashes, taken to be injective and unforgeable.
- Two command line processes that interleave on one database: each writes a whole
  MLS snapshot, so the later one undoes the other's ratchet steps. The code has no
  lock that could be modelled and promises nothing.
- The growth of an inbox nobody reads: the relay bounds a blob and its life, not
  an inbox.

## Plan

Done: relay, delivery, keying, contacts, pairing, replies, manifest, schema,
device lifecycle, backup and retention, with proofs of all but liveness.

What could follow: the ratchet of a restored backup against the generations the
peer has seen; a repaired `Reply`, in which `set_peer` re-addresses queued rows,
with `EverythingGoesOut` as its property; a purge before each flush, with the
property named under `settings.rs:107` above.
