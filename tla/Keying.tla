------------------------------- MODULE Keying ------------------------------
(***************************************************************************)
(* How the local database is unlocked, protected and unprotected:          *)
(* core/src/keying.rs, set_passphrase and clear_passphrase of              *)
(* core/src/api/storage_controls.rs, and the way each shell obtains a key. *)
(*                                                                         *)
(* Three files matter: the database, encrypted under one key; the sidecar  *)
(* that says how to obtain it; a file with a random device key.  A call    *)
(* writes them one by one.  write_private truncates before it writes, so a *)
(* stop or a full disk can leave a torn file.  PRAGMA rekey is a single    *)
(* SQLite transaction: it happens or it does not.                          *)
(***************************************************************************)
EXTENDS Naturals

CONSTANTS
  Phrase,     \* passphrases
  NoPhrase,   \* none is supplied
  Salt,       \* Argon2id salts
  DeviceKey,  \* random keys
  NoKey,      \* no key in hand, or no database yet
  Device,     \* the key source DeviceFile
  Absent,     \* no such file
  Torn,       \* a file cut short: reading it answers Malformed
  Shell       \* the client: "cli" or "desktop"

\* A key derived from a passphrase is the pair it is derived from.
PhraseKey == Phrase \X Salt
Key == DeviceKey \cup PhraseKey

ASSUME KeyingAssumption ==
  /\ NoPhrase \notin Phrase
  /\ DeviceKey \cap PhraseKey = {}
  /\ NoKey \notin Key
  /\ {Absent, Torn} \cap (Key \cup Salt \cup {Device}) = {}
  /\ Device \notin Salt
  /\ Shell \in {"cli", "desktop"}

VARIABLES
  sidecar,   \* disk: {db_path}.keying: Absent, Torn or a key source
  keyFile,   \* disk: the device key files, by path
  dbKey,     \* disk: the key the database is encrypted under, or NoKey
  step,      \* memory: the next step of the call in progress
  key,       \* memory: the key in hand
  previous,  \* memory: the key source a call found
  opened,    \* history: the device keys the database has been under
  protected, \* history: set_passphrase answered Ok, no clear re-encrypted since
  promise,   \* history: the passphrase a call last said is required
  cut        \* history: the sources of calls that stopped or could not write

disk == <<sidecar, keyFile, dbKey>>
past == <<opened, protected>>
vars == <<disk, step, key, previous, past, promise, cut>>

Source == Salt \cup {Device}

TypeOK ==
  /\ sidecar \in Source \cup {Absent, Torn}
  /\ keyFile \in [{"core", "app"} -> DeviceKey \cup {Absent, Torn}]
  /\ dbKey \in Key \cup {NoKey}
  /\ step \in {"closed", "newKey", "open", "idle", "clearKey",
               "sidecar", "rekey", "undo", "remove", "answer"}
  /\ key \in Key \cup {NoKey}
  /\ previous \in Source
  /\ opened \subseteq DeviceKey
  /\ protected \in BOOLEAN
  /\ promise \in Phrase \cup {NoPhrase}
  /\ cut \subseteq {"device", "phrase"}

Init ==
  /\ sidecar = Absent
  /\ keyFile = [p \in {"core", "app"} |-> Absent]
  /\ dbKey = NoKey
  /\ step = "closed"
  /\ key = NoKey
  /\ previous = Device
  /\ opened = {}
  /\ protected = FALSE
  /\ promise = NoPhrase
  /\ cut = {}

----------------------------------------------------------------------------

\* Where the shell keeps its device key: the command line client asks
\* keying::unlock, which uses {db_path}.key; the desktop has its device.key.
KeyPath == IF Shell = "cli" THEN "core" ELSE "app"

\* key_source: no sidecar means the device file.  (Torn is Malformed.)
Read == IF sidecar = Absent THEN Device ELSE sidecar

\* Faulty variants of the next definitions: the result of a rekey is not looked
\* at, a rollback leaves the new sidecar, the device key file is left behind.
AfterFailedRekeyOnward == "remove"
RollbackForgotten == sidecar
WithoutRemoval == keyFile

\* The source a shell unlocks from: the desktop never reads the sidecar.
Route == IF Shell = "cli" THEN Read ELSE Device

\* The key of a well-formed device key file.
ReadKey(path) == {keyFile[path]} \cap DeviceKey

\* A failed rekey is rolled back; what the rollback writes.
AfterFailedRekey == "undo"
Rollback == previous

\* The key files after the last step of set_passphrase.
WithKeyRemoved == [keyFile EXCEPT !["core"] = Absent]

\* The keys an unlock with passphrase p returns without creating a file: one,
\* or none when it fails.
Unlocked(p) ==
  IF Route = Device THEN ReadKey(KeyPath)
  ELSE {<<p, s>> : s \in {Route} \cap Salt} \cap PhraseKey

\* The source that leads to key k.
SourceOf(k) == IF k \in DeviceKey THEN Device ELSE k[2]

Kind(source) == IF source = Device THEN "device" ELSE "phrase"

\* A salt or device key that is drawn at random is one not in use.
FreshSalt == Salt \ ({sidecar, previous} \cup {s \in Salt : \E p \in Phrase : dbKey = <<p, s>>})
FreshKey == DeviceKey \ (opened \cup {keyFile["core"], keyFile["app"]})

----------------------------------------------------------------------------

\* The client starts and obtains a key, from what is there or a new file.
Launch(p) ==
  /\ step = "closed"
  /\ \/ /\ key' \in Unlocked(p)
        /\ step' = "open"
     \/ /\ Route = Device
        /\ keyFile[KeyPath] = Absent
        /\ step' = "newKey"
        /\ UNCHANGED key
  /\ UNCHANGED <<disk, previous, promise, past, cut>>

\* development_device_key has no file to read: it draws a key and writes it
\* before anybody uses it.
DrawKey(path, next) ==
  /\ key' \in FreshKey
  /\ keyFile' = [keyFile EXCEPT ![path] = key']
  /\ step' = next
  /\ UNCHANGED <<sidecar, dbKey, previous, promise, past, cut>>

NewKey ==
  \/ step = "newKey" /\ DrawKey(KeyPath, "open")
  \/ step = "clearKey" /\ DrawKey("core", "sidecar")

\* LocalStore::open creates the database, opens it, or answers WrongKey.
OpenStore ==
  /\ step = "open"
  /\ dbKey' = IF dbKey = NoKey THEN key ELSE dbKey
  /\ step' = IF dbKey' = key THEN "idle" ELSE "closed"
  /\ opened' = opened \cup ({dbKey'} \cap DeviceKey)
  /\ key' = NoKey
  /\ UNCHANGED <<sidecar, keyFile, previous, protected, promise, cut>>

\* set_passphrase reads the sidecar and derives a key with a fresh salt.
SetPassphrase(p) ==
  /\ step = "idle"
  /\ Read # Torn
  /\ previous' = Read
  /\ \E s \in FreshSalt : key' = <<p, s>>
  /\ step' = "sidecar"
  /\ UNCHANGED <<disk, promise, past, cut>>

\* The call answers Ok: the user now needs passphrase p, or none.  Or it
\* answers an error, and what the user knows stays as it was.
Return == step' = "idle" /\ key' = NoKey /\ previous' = Device
Ok(p) == Return /\ promise' = p
Err == Return /\ UNCHANGED promise

\* clear_passphrase uses the device key file, or creates it; on a device that
\* is not protected it does nothing.
ClearPassphrase ==
  /\ step = "idle"
  /\ \/ /\ Read = Device
        /\ Ok(NoPhrase)
     \/ /\ Read \in Salt
        /\ previous' = Read
        /\ \/ key' \in ReadKey("core") /\ step' = "sidecar"
           \/ keyFile["core"] = Absent /\ step' = "clearKey" /\ UNCHANGED key
        /\ UNCHANGED promise
  /\ UNCHANGED <<disk, past, cut>>

WriteSidecar ==
  /\ step = "sidecar"
  /\ sidecar' = SourceOf(key)
  /\ step' = "rekey"
  /\ UNCHANGED <<keyFile, dbKey, key, previous, promise, past, cut>>

\* The rekey commits.  set_passphrase still has a file to remove.
Rekey ==
  /\ step = "rekey"
  /\ dbKey' = key
  /\ opened' = opened \cup ({key} \cap DeviceKey)
  /\ protected' = (protected /\ key \notin DeviceKey)
  /\ step' = IF key \in DeviceKey THEN "answer" ELSE "remove"
  /\ UNCHANGED <<sidecar, keyFile, key, previous, promise, cut>>

\* clear_passphrase answers once its rekey has returned.
Cleared ==
  /\ step = "answer"
  /\ Ok(NoPhrase)
  /\ UNCHANGED <<disk, past, cut>>

RekeyFails ==
  /\ step = "rekey"
  /\ step' = AfterFailedRekey
  /\ UNCHANGED <<disk, key, previous, promise, past, cut>>

Undo ==
  /\ step = "undo"
  /\ sidecar' = Rollback
  /\ Err
  /\ UNCHANGED <<keyFile, dbKey, past, cut>>

\* Only set_passphrase removes the device key file, and last of all.
Remove ==
  /\ step = "remove"
  /\ keyFile' = WithKeyRemoved
  /\ Ok(key[1])
  /\ protected' = TRUE
  /\ UNCHANGED <<sidecar, dbKey, opened, cut>>

\* What a step that writes a file may leave when it is cut short: the file as
\* it was, a torn one, or all of it without the answer.
HalfWritten ==
  \/ UNCHANGED disk
  \/ /\ \/ step = "sidecar" /\ sidecar' \in {Torn, SourceOf(key)}
        \/ step = "undo" /\ sidecar' \in {Torn, Rollback}
     /\ UNCHANGED <<keyFile, dbKey>>
  \/ /\ step = "remove"
     /\ keyFile' = WithKeyRemoved
     /\ UNCHANGED <<sidecar, dbKey>>
  \/ /\ step \in {"newKey", "clearKey"}
     /\ \E contents \in {Torn} \cup FreshKey :
          keyFile' = [keyFile EXCEPT
                        ![IF step = "newKey" THEN KeyPath ELSE "core"] = contents]
     /\ UNCHANGED <<sidecar, dbKey>>

\* A file cannot be written or removed: `?` ends the call, or the launch.
WriteFails ==
  /\ \/ step \in {"sidecar", "undo", "newKey", "clearKey"}
     \/ step = "remove" /\ keyFile["core"] # Absent
  /\ HalfWritten
  /\ step' = IF step = "newKey" THEN "closed" ELSE "idle"
  /\ key' = NoKey
  /\ previous' = Device
  /\ cut' = cut \cup {Kind(previous)}
  /\ UNCHANGED <<promise, past>>

\* The process ends, between calls or in the middle of one.
Stop ==
  /\ step # "closed"
  /\ HalfWritten
  /\ step' = "closed"
  /\ key' = NoKey
  /\ previous' = Device
  /\ cut' = IF step \in {"idle", "open"} THEN cut ELSE cut \cup {Kind(previous)}
  /\ UNCHANGED <<promise, past>>

Next ==
  \/ \E p \in Phrase \cup {NoPhrase} : Launch(p)
  \/ NewKey \/ OpenStore
  \/ \E p \in Phrase : SetPassphrase(p)
  \/ ClearPassphrase
  \/ WriteSidecar \/ Rekey \/ RekeyFails \/ Undo \/ Remove \/ Cleared
  \/ WriteFails \/ Stop

Spec == Init /\ [][Next]_vars

----------------------------------------------------------------------------

\* storage_controls.rs:117 and PrivacyStorage.tsx:173: between calls, the
\* client that was told which passphrase is required, if any, can open the
\* database with it, also after a rekey that failed; unless some call was
\* stopped or could not write a file.
OpensAsPromised ==
  step \in {"closed", "idle"} /\ cut = {} /\ dbKey # NoKey =>
    dbKey \in Unlocked(promise)

\* storage_controls.rs:136: the only way in is never destroyed: after whatever
\* stop or failed write, the key of the database is in a device key file or
\* follows from a passphrase and the salt on disk, or the one the call that
\* runs has in hand to roll back; unless a call on a database that a
\* passphrase already protected was struck.
KeySurvives ==
  "phrase" \notin cut /\ dbKey # NoKey =>
    \/ \E path \in {"core", "app"} : dbKey = keyFile[path]
    \/ \E p \in Phrase, s \in {sidecar, previous} \cap Salt : dbKey = <<p, s>>

\* storage_controls.rs:107: from the moment set_passphrase answers Ok until a
\* clear_passphrase has re-encrypted the database, answered or not, and through
\* whatever calls stop or fail in between, no key file on disk holds a key that
\* opens the database or an earlier copy of it.
DiskAloneIsUseless ==
  protected => \A path \in {"core", "app"} : keyFile[path] \notin opened

=============================================================================
