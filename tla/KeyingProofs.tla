---------------------------- MODULE KeyingProofs ---------------------------
(***************************************************************************)
(* What Keying promises, for any passphrases, salts and device keys.       *)
(***************************************************************************)
EXTENDS Keying, TLAPS

\* What a call has in hand at each of its steps, and what it has done.
CallInv ==
  /\ step \in {"closed", "newKey", "idle", "clearKey"} => key = NoKey
  /\ step \in {"open", "sidecar", "rekey", "undo", "remove", "answer"} => key \in Key
  /\ step \in {"closed", "newKey", "open", "idle"} => previous = Device
  /\ step \in {"sidecar", "clearKey"} => Read = previous
  /\ step \in {"rekey", "undo"} => sidecar = SourceOf(key)
  /\ step = "remove" => key \in PhraseKey /\ dbKey = key /\ sidecar = key[2]
  /\ step = "answer" =>
       /\ key \in DeviceKey /\ dbKey = key /\ sidecar = Device
       /\ keyFile["core"] = key /\ previous \in Salt
  /\ step = "newKey" => keyFile[KeyPath] = Absent
  /\ step = "clearKey" => keyFile["core"] = Absent /\ previous \in Salt
  /\ step \in {"sidecar", "rekey", "undo"} /\ key \in DeviceKey =>
       keyFile["core"] = key /\ previous \in Salt
  /\ step = "open" /\ key \in DeviceKey => keyFile[KeyPath] = key

\* The database before it exists, and the device keys it has been under.
StoreInv ==
  /\ dbKey = NoKey =>
       /\ sidecar = Absent /\ promise = NoPhrase /\ ~protected
       /\ step \in {"closed", "newKey", "open"}
       /\ step = "open" => key \in DeviceKey
  /\ dbKey \in DeviceKey => dbKey \in opened

\* Where the key of the database is.
HomeInv ==
  "phrase" \notin cut =>
    /\ dbKey \in DeviceKey => \E path \in {"core", "app"} : dbKey = keyFile[path]
    /\ dbKey \in PhraseKey =>
         IF step \in {"rekey", "undo"} THEN previous = dbKey[2] ELSE sidecar = dbKey[2]

\* The promise is the route to the key.
PromiseInv ==
  Shell = "cli" /\ cut = {} =>
    /\ dbKey \in DeviceKey =>
         /\ step # "answer" => promise = NoPhrase
         /\ keyFile["core"] = dbKey
         /\ IF step \in {"rekey", "undo"} THEN previous = Device ELSE Read = Device
    /\ dbKey \in PhraseKey /\ step # "remove" => promise = dbKey[1]

\* Only the core's own key file is ever written, and it stays unused.
OpenedInv ==
  Shell = "cli" =>
    /\ keyFile["app"] = Absent
    /\ protected => keyFile["core"] \notin opened

IInv == TypeOK /\ CallInv /\ StoreInv /\ HomeInv /\ PromiseInv /\ OpenedInv

\* The kinds of values do not mix.
LEMMA Kinds ==
  /\ \A k \in DeviceKey : k \notin PhraseKey /\ k # NoKey /\ k # Absent /\ k # Torn
  /\ \A k \in PhraseKey : /\ k \notin DeviceKey /\ k # NoKey
                          /\ k[1] \in Phrase /\ k[2] \in Salt /\ k = <<k[1], k[2]>>
  /\ \A p \in Phrase, s \in Salt : <<p, s>> \in PhraseKey
  /\ \A s \in Salt : s # Device /\ s # Absent /\ s # Torn
  /\ Device # Absent /\ Device # Torn
  /\ Absent \notin DeviceKey /\ Torn \notin DeviceKey
  /\ NoPhrase \notin Phrase
  /\ NoKey \notin DeviceKey /\ NoKey \notin PhraseKey
BY KeyingAssumption DEF Key, PhraseKey

LEMMA InitOK == Init => IInv
<1> SUFFICES ASSUME Init PROVE IInv
  OBVIOUS
<1>1. TypeOK
  BY DEF Init, TypeOK, Source
<1>2. CallInv /\ StoreInv /\ HomeInv /\ PromiseInv /\ OpenedInv
  BY Kinds DEF Init, CallInv, StoreInv, HomeInv, PromiseInv, OpenedInv
<1> QED
  BY <1>1, <1>2 DEF IInv

LEMMA LaunchKeeps ==
  ASSUME IInv, NEW p \in Phrase \cup {NoPhrase}, Launch(p)
  PROVE  IInv'
<1> USE Kinds DEF IInv, disk, past, Launch, Unlocked, Route, ReadKey
<1>1. TypeOK'
  BY DEF TypeOK, CallInv, Key, Source, SourceOf, KeyPath, Read
<1>2. CallInv'
  BY <1>1 DEF TypeOK, CallInv, StoreInv, Key, Source, SourceOf, KeyPath, Read
<1>3. StoreInv'
  BY DEF TypeOK, CallInv, StoreInv, Key, KeyPath, Read
<1>4. HomeInv'
  BY DEF TypeOK, CallInv, StoreInv, HomeInv, Key, Source, SourceOf, KeyPath, Read
<1>5. PromiseInv'
  BY DEF TypeOK, CallInv, StoreInv, HomeInv, PromiseInv, Key, Source, SourceOf, KeyPath, Read
<1>6. OpenedInv'
  BY DEF TypeOK, CallInv, StoreInv, OpenedInv, Key, KeyPath
<1> QED
  BY <1>1, <1>2, <1>3, <1>4, <1>5, <1>6 DEF IInv

LEMMA NewKeyKeeps ==
  ASSUME IInv, NewKey
  PROVE  IInv'
<1> USE Kinds DEF IInv, disk, past, NewKey, DrawKey, FreshKey
<1>1. TypeOK'
  BY DEF TypeOK, CallInv, Key, Source, SourceOf, KeyPath, Read
<1>2. CallInv'
  BY <1>1 DEF TypeOK, CallInv, StoreInv, Key, Source, SourceOf, KeyPath, Read
<1>3. StoreInv'
  BY DEF TypeOK, CallInv, StoreInv, Key
<1>4. HomeInv'
  BY DEF TypeOK, CallInv, StoreInv, HomeInv, Key, Source, SourceOf, KeyPath, Read
<1>5. PromiseInv'
  BY DEF TypeOK, CallInv, StoreInv, HomeInv, PromiseInv, Key, Source, SourceOf, KeyPath, Read
<1>6. OpenedInv'
  BY DEF TypeOK, CallInv, StoreInv, OpenedInv, Key, KeyPath
<1> QED
  BY <1>1, <1>2, <1>3, <1>4, <1>5, <1>6 DEF IInv

LEMMA OpenStoreKeeps ==
  ASSUME IInv, OpenStore
  PROVE  IInv'
<1> USE Kinds DEF IInv, disk, past, OpenStore
<1>1. TypeOK'
  BY DEF TypeOK, CallInv, Key, Source, SourceOf, KeyPath, Read
<1>2. CallInv'
  BY <1>1 DEF TypeOK, CallInv, StoreInv, Key, Source, SourceOf, KeyPath, Read
<1>3. StoreInv'
  BY DEF TypeOK, CallInv, StoreInv, Key
<1>4. HomeInv'
  BY DEF TypeOK, CallInv, StoreInv, HomeInv, Key, Source, SourceOf, KeyPath, Read
<1>5. PromiseInv'
  BY DEF TypeOK, CallInv, StoreInv, HomeInv, PromiseInv, Key, Source, SourceOf, KeyPath, Read
<1>6. OpenedInv'
  BY DEF TypeOK, CallInv, StoreInv, OpenedInv, Key, KeyPath
<1> QED
  BY <1>1, <1>2, <1>3, <1>4, <1>5, <1>6 DEF IInv

LEMMA SetPassphraseKeeps ==
  ASSUME IInv, NEW p \in Phrase, SetPassphrase(p)
  PROVE  IInv'
<1> USE Kinds DEF IInv, disk, past, SetPassphrase, FreshSalt
<1>1. TypeOK'
  BY DEF TypeOK, CallInv, Key, Source, SourceOf, KeyPath, Read
<1>2. CallInv'
  BY <1>1 DEF TypeOK, CallInv, StoreInv, Key, Source, SourceOf, KeyPath, Read
<1>3. StoreInv'
  BY DEF TypeOK, CallInv, StoreInv, Key
<1>4. HomeInv'
  BY DEF TypeOK, CallInv, StoreInv, HomeInv, Key, Source, SourceOf, KeyPath, Read
<1>5. PromiseInv'
  BY DEF TypeOK, CallInv, StoreInv, HomeInv, PromiseInv, Key, Source, SourceOf, KeyPath, Read
<1>6. OpenedInv'
  BY DEF TypeOK, CallInv, StoreInv, OpenedInv, Key, KeyPath
<1> QED
  BY <1>1, <1>2, <1>3, <1>4, <1>5, <1>6 DEF IInv

LEMMA ClearPassphraseKeeps ==
  ASSUME IInv, ClearPassphrase
  PROVE  IInv'
<1> USE Kinds DEF IInv, disk, past, ClearPassphrase, Ok, Return, ReadKey
<1>1. TypeOK'
  BY DEF TypeOK, CallInv, Key, Source, SourceOf, KeyPath, Read
<1>2. CallInv'
  BY <1>1 DEF TypeOK, CallInv, StoreInv, Key, Source, SourceOf, KeyPath, Read
<1>3. StoreInv'
  BY DEF TypeOK, CallInv, StoreInv, Key
<1>4. HomeInv'
  BY DEF TypeOK, CallInv, StoreInv, HomeInv, Key, Source, SourceOf, KeyPath, Read
<1>5. PromiseInv'
  BY DEF TypeOK, CallInv, StoreInv, HomeInv, PromiseInv, Key, Source, SourceOf, KeyPath, Read
<1>6. OpenedInv'
  BY DEF TypeOK, CallInv, StoreInv, OpenedInv, Key, KeyPath
<1> QED
  BY <1>1, <1>2, <1>3, <1>4, <1>5, <1>6 DEF IInv

LEMMA WriteSidecarKeeps ==
  ASSUME IInv, WriteSidecar
  PROVE  IInv'
<1> USE Kinds DEF IInv, disk, past, WriteSidecar
<1>1. TypeOK'
  BY DEF TypeOK, CallInv, Key, Source, SourceOf, KeyPath, Read
<1>2. CallInv'
  BY <1>1 DEF TypeOK, CallInv, StoreInv, Key, Source, SourceOf, KeyPath, Read
<1>3. StoreInv'
  BY DEF TypeOK, CallInv, StoreInv, Key
<1>4. HomeInv'
  BY DEF TypeOK, CallInv, StoreInv, HomeInv, Key, Source, SourceOf, KeyPath, Read
<1>5. PromiseInv'
  BY DEF TypeOK, CallInv, StoreInv, HomeInv, PromiseInv, Key, Source, SourceOf, KeyPath, Read
<1>6. OpenedInv'
  BY DEF TypeOK, CallInv, StoreInv, OpenedInv, Key, KeyPath
<1> QED
  BY <1>1, <1>2, <1>3, <1>4, <1>5, <1>6 DEF IInv

LEMMA RekeyKeeps ==
  ASSUME IInv, Rekey
  PROVE  IInv'
<1> USE Kinds DEF IInv, disk, past, Rekey
<1>1. TypeOK'
  BY DEF TypeOK, CallInv, Key, Source, SourceOf, KeyPath, Read
<1>2. CallInv'
  BY <1>1 DEF TypeOK, CallInv, StoreInv, Key, Source, SourceOf, KeyPath, Read
<1>3. StoreInv'
  BY DEF TypeOK, CallInv, StoreInv, Key
<1>4. HomeInv'
  BY DEF TypeOK, CallInv, StoreInv, HomeInv, Key, Source, SourceOf, KeyPath, Read
<1>5. PromiseInv'
  BY DEF TypeOK, CallInv, StoreInv, HomeInv, PromiseInv, Key, Source, SourceOf, KeyPath, Read
<1>6. OpenedInv'
  BY DEF TypeOK, CallInv, StoreInv, OpenedInv, Key, KeyPath
<1> QED
  BY <1>1, <1>2, <1>3, <1>4, <1>5, <1>6 DEF IInv

LEMMA ClearedKeeps ==
  ASSUME IInv, Cleared
  PROVE  IInv'
<1> USE Kinds DEF IInv, disk, past, Cleared, Ok, Return
<1>1. TypeOK'
  BY DEF TypeOK, CallInv, Key, Source, SourceOf, KeyPath, Read
<1>2. CallInv'
  BY <1>1 DEF TypeOK, CallInv, StoreInv, Key, Source, SourceOf, KeyPath, Read
<1>3. StoreInv'
  BY DEF TypeOK, CallInv, StoreInv, Key
<1>4. HomeInv'
  BY DEF TypeOK, CallInv, StoreInv, HomeInv, Key, Source, SourceOf, KeyPath, Read
<1>5. PromiseInv'
  BY DEF TypeOK, CallInv, StoreInv, HomeInv, PromiseInv, Key, Source, SourceOf, KeyPath, Read
<1>6. OpenedInv'
  BY DEF TypeOK, CallInv, StoreInv, OpenedInv, Key, KeyPath
<1> QED
  BY <1>1, <1>2, <1>3, <1>4, <1>5, <1>6 DEF IInv

LEMMA RekeyFailsKeeps ==
  ASSUME IInv, RekeyFails
  PROVE  IInv'
<1> USE Kinds DEF IInv, disk, past, RekeyFails, AfterFailedRekey
<1>1. TypeOK'
  BY DEF TypeOK, CallInv, Key, Source, SourceOf, KeyPath, Read
<1>2. CallInv'
  BY <1>1 DEF TypeOK, CallInv, StoreInv, Key, Source, SourceOf, KeyPath, Read
<1>3. StoreInv'
  BY DEF TypeOK, CallInv, StoreInv, Key
<1>4. HomeInv'
  BY DEF TypeOK, CallInv, StoreInv, HomeInv, Key, Source, SourceOf, KeyPath, Read
<1>5. PromiseInv'
  BY DEF TypeOK, CallInv, StoreInv, HomeInv, PromiseInv, Key, Source, SourceOf, KeyPath, Read
<1>6. OpenedInv'
  BY DEF TypeOK, CallInv, StoreInv, OpenedInv, Key, KeyPath
<1> QED
  BY <1>1, <1>2, <1>3, <1>4, <1>5, <1>6 DEF IInv

LEMMA UndoKeeps ==
  ASSUME IInv, Undo
  PROVE  IInv'
<1> USE Kinds DEF IInv, disk, past, Undo, Rollback, Err, Return
<1>1. TypeOK'
  BY DEF TypeOK, CallInv, Key, Source, SourceOf, KeyPath, Read
<1>2. CallInv'
  BY <1>1 DEF TypeOK, CallInv, StoreInv, Key, Source, SourceOf, KeyPath, Read
<1>3. StoreInv'
  BY DEF TypeOK, CallInv, StoreInv, Key
<1>4. HomeInv'
  BY DEF TypeOK, CallInv, StoreInv, HomeInv, Key, Source, SourceOf, KeyPath, Read
<1>5. PromiseInv'
  BY DEF TypeOK, CallInv, StoreInv, HomeInv, PromiseInv, Key, Source, SourceOf, KeyPath, Read
<1>6. OpenedInv'
  BY DEF TypeOK, CallInv, StoreInv, OpenedInv, Key, KeyPath
<1> QED
  BY <1>1, <1>2, <1>3, <1>4, <1>5, <1>6 DEF IInv

LEMMA RemoveKeeps ==
  ASSUME IInv, Remove
  PROVE  IInv'
<1> USE Kinds DEF IInv, disk, past, Remove, WithKeyRemoved, Ok, Return
<1>1. TypeOK'
  BY DEF TypeOK, CallInv, Key, Source, SourceOf, KeyPath, Read
<1>2. CallInv'
  BY <1>1 DEF TypeOK, CallInv, StoreInv, Key, Source, SourceOf, KeyPath, Read
<1>3. StoreInv'
  BY DEF TypeOK, CallInv, StoreInv, Key
<1>4. HomeInv'
  BY DEF TypeOK, CallInv, StoreInv, HomeInv, Key, Source, SourceOf, KeyPath, Read
<1>5. PromiseInv'
  BY DEF TypeOK, CallInv, StoreInv, HomeInv, PromiseInv, Key, Source, SourceOf, KeyPath, Read
<1>6. OpenedInv'
  BY DEF TypeOK, CallInv, StoreInv, OpenedInv, Key, KeyPath
<1> QED
  BY <1>1, <1>2, <1>3, <1>4, <1>5, <1>6 DEF IInv

LEMMA WriteFailsKeeps ==
  ASSUME IInv, WriteFails
  PROVE  IInv'
<1> USE Kinds DEF IInv, disk, past, WriteFails, HalfWritten, FreshKey, Kind, Rollback, WithKeyRemoved
<1>1. TypeOK'
  BY DEF TypeOK, CallInv, Key, Source, SourceOf, KeyPath, Read
<1>2. CallInv'
  BY <1>1 DEF TypeOK, CallInv, StoreInv, Key, Source, SourceOf, KeyPath, Read
<1>3. StoreInv'
  BY DEF TypeOK, CallInv, StoreInv, Key
<1>4. HomeInv'
  BY DEF TypeOK, CallInv, StoreInv, HomeInv, Key, Source, SourceOf, KeyPath, Read
<1>5. PromiseInv'
  BY DEF TypeOK, CallInv, StoreInv, HomeInv, PromiseInv, Key, Source, SourceOf, KeyPath, Read
<1>6. OpenedInv'
  BY DEF TypeOK, CallInv, StoreInv, OpenedInv, Key, KeyPath
<1> QED
  BY <1>1, <1>2, <1>3, <1>4, <1>5, <1>6 DEF IInv

LEMMA StopKeeps ==
  ASSUME IInv, Stop
  PROVE  IInv'
<1> USE Kinds DEF IInv, disk, past, Stop, HalfWritten, FreshKey, Kind, Rollback, WithKeyRemoved
<1>1. TypeOK'
  BY DEF TypeOK, CallInv, Key, Source, SourceOf, KeyPath, Read
<1>2. CallInv'
  BY <1>1 DEF TypeOK, CallInv, StoreInv, Key, Source, SourceOf, KeyPath, Read
<1>3. StoreInv'
  BY DEF TypeOK, CallInv, StoreInv, Key
<1>4. HomeInv'
  BY DEF TypeOK, CallInv, StoreInv, HomeInv, Key, Source, SourceOf, KeyPath, Read
<1>5. PromiseInv'
  BY DEF TypeOK, CallInv, StoreInv, HomeInv, PromiseInv, Key, Source, SourceOf, KeyPath, Read
<1>6. OpenedInv'
  BY DEF TypeOK, CallInv, StoreInv, OpenedInv, Key, KeyPath
<1> QED
  BY <1>1, <1>2, <1>3, <1>4, <1>5, <1>6 DEF IInv

LEMMA StepOK == IInv /\ [Next]_vars => IInv'
<1> SUFFICES ASSUME IInv, [Next]_vars PROVE IInv'
  OBVIOUS
<1>1. CASE UNCHANGED vars
  BY <1>1 DEF vars, disk, past, IInv, TypeOK, CallInv, StoreInv, HomeInv, PromiseInv,
     OpenedInv, Read
<1>2. CASE Next
  BY <1>2, LaunchKeeps, NewKeyKeeps, OpenStoreKeeps, SetPassphraseKeeps,
     ClearPassphraseKeeps, WriteSidecarKeeps, RekeyKeeps, RekeyFailsKeeps,
     ClearedKeeps, UndoKeeps, RemoveKeeps, WriteFailsKeeps, StopKeeps DEF Next
<1> QED
  BY <1>1, <1>2

LEMMA Invariance == Spec => []IInv
  BY InitOK, StepOK, PTL DEF Spec

----------------------------------------------------------------------------

\* The three files and the call in progress keep their types.
THEOREM TypeCorrect == Spec => []TypeOK
<1>1. IInv => TypeOK
  BY DEF IInv
<1> QED
  BY <1>1, Invariance, PTL

\* For either shell, the key of the database is never destroyed by a call that
\* found the device file in charge.
THEOREM TheKeySurvives == Spec => []KeySurvives
<1>1. ASSUME IInv, "phrase" \notin cut, dbKey # NoKey
      PROVE  \/ \E path \in {"core", "app"} : dbKey = keyFile[path]
             \/ \E p \in Phrase, s \in {sidecar, previous} \cap Salt : dbKey = <<p, s>>
  <2>1. CASE dbKey \in DeviceKey
    BY <1>1, <2>1 DEF IInv, HomeInv
  <2>2. CASE dbKey \in PhraseKey
    <3>1. dbKey[2] \in {sidecar, previous} \cap Salt /\ dbKey[1] \in Phrase
      BY <1>1, <2>2, Kinds DEF IInv, HomeInv
    <3>2. dbKey = <<dbKey[1], dbKey[2]>>
      BY <2>2, Kinds
    <3> QED
      BY <3>1, <3>2
  <2> QED
    BY <1>1, <2>1, <2>2 DEF IInv, TypeOK, Key
<1>2. IInv => KeySurvives
  BY <1>1 DEF KeySurvives
<1> QED
  BY <1>2, Invariance, PTL

\* The command line client opens what it was told it can open, as long as every
\* call ran to its end.
THEOREM PromiseOpens ==
  ASSUME Shell = "cli"
  PROVE  Spec => []OpensAsPromised
<1>1. ASSUME IInv, step \in {"closed", "idle"}, cut = {}, dbKey # NoKey
      PROVE  dbKey \in Unlocked(promise)
  <2>1. CASE dbKey \in DeviceKey
    BY <1>1, <2>1 DEF IInv, PromiseInv, Unlocked, Route, ReadKey, KeyPath
  <2>2. CASE dbKey \in PhraseKey
    <3>1. promise = dbKey[1] /\ sidecar = dbKey[2] /\ Route = dbKey[2]
      BY <1>1, <2>2, Kinds DEF IInv, HomeInv, PromiseInv, Route, Read
    <3>2. dbKey = <<promise, Route>> /\ Route \in Salt /\ Route # Device
      BY <2>2, <3>1, Kinds
    <3> QED
      BY <2>2, <3>2 DEF Unlocked
  <2> QED
    BY <1>1, <2>1, <2>2 DEF IInv, TypeOK, Key
<1>2. IInv => OpensAsPromised
  BY <1>1 DEF OpensAsPromised
<1> QED
  BY <1>2, Invariance, PTL

\* Whatever stops or fails, no key file opens a protected database, until a
\* clear_passphrase has put it back under one.
THEOREM TheDiskAloneIsUseless ==
  ASSUME Shell = "cli"
  PROVE  Spec => []DiskAloneIsUseless
<1>1. IInv => DiskAloneIsUseless
  BY Kinds DEF IInv, TypeOK, OpenedInv, DiskAloneIsUseless
<1> QED
  BY <1>1, Invariance, PTL

=============================================================================
