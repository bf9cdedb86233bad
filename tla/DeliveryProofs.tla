--------------------------- MODULE DeliveryProofs --------------------------
(***************************************************************************)
(* Proofs about Delivery, for any number of messages, losses and crashes,  *)
(* any tolerance and any retention.  The sender's half of the invariant is *)
(* the one of SenderProofs.                                                *)
(***************************************************************************)
EXTENDS Delivery, SenderProofs

\* What is about to be erased, or was, is stored.
HandledInv == \A e \in handled \cup erased : stores[e.msg] > 0

\* What was stored was posted, and its key is gone.
StoredInv ==
  /\ \A m \in Msg : stores[m] > 0 => \E e \in posted : e.msg = m
  /\ ~receiverTorn =>
       /\ \A e \in posted : stores[e.msg] > 0 => Spent(window, e.gen)
       /\ \A m \in Msg : stores[m] <= 1

\* A message is stored once more for each stop of the receiver, and the key of
\* one that used this up is gone.
CountInv ==
  /\ \A m \in Msg : stores[m] <= receiverCrashes + 1
  /\ \A e \in posted : stores[e.msg] > receiverCrashes => Spent(window, e.gen)

\* Every generation a window has passed is still kept, or fell out of the
\* tolerance, or belongs to a message that was stored.
Covered(w) ==
  /\ w.head > 0 => \E e \in posted : e.gen = w.head - 1
  /\ \A g \in Nat : g < w.head =>
       \/ g \in w.kept
       \/ w.head - g > Tolerance
       \/ \E e \in posted : e.gen = g /\ stores[e.msg] > 0

CoverInv == Covered(window) /\ Covered(savedWindow)

CrashInv ==
  /\ receiverCrashes <= MaxReceiverCrash
  /\ receiverTorn => receiverCrashes > 0

\* A row of the thread came from the letter whose identifier it has.
RowsInv ==
  \A r \in rows :
    stores[r.msg] > 0 /\ \E e \in posted : e.id = r.id /\ e.msg = r.msg

ReceiverInv ==
  /\ ReceiverTypeOK
  /\ RowsInv
  /\ HandledInv
  /\ StoredInv
  /\ CountInv
  /\ CoverInv
  /\ CrashInv

Inv == SenderInv /\ ReceiverInv

----------------------------------------------------------------------------
(***************************************************************************)
(* The ratchet window                                                      *)
(***************************************************************************)

\* Advancing yields a window again.
LEMMA AdvanceIsWindow ==
  ASSUME NEW w \in Window, NEW g \in Nat
  PROVE  Advance(w, g) \in Window
<1>1. w.head \in Nat /\ w.kept \subseteq Nat /\ w.head .. g - 1 \subseteq Nat
  BY DEF Window
<1>2. Advance(w, g).head \in Nat
  BY <1>1 DEF Advance
<1>3. Advance(w, g).kept \subseteq Nat
  BY <1>1 DEF Advance
<1>5. \A k \in Advance(w, g).kept : k < Advance(w, g).head
  BY <1>1 DEF Advance, Window
<1>4. Advance(w, g) = [head |-> Advance(w, g).head, kept |-> Advance(w, g).kept]
  BY DEF Advance
<1> QED
  BY <1>2, <1>3, <1>4, <1>5 DEF Window

\* A generation that was decrypted once is spent, and a spent one is refused.
LEMMA NoReplay ==
  ASSUME NEW w \in Window, NEW g \in Nat
  PROVE  /\ Accepts(w, g) => Spent(Advance(w, g), g)
         /\ Spent(w, g) => ~Accepts(w, g)
<1> USE DEF Window
<1>1. Advance(w, g).head > g /\ g \notin Advance(w, g).kept
  <2>1. CASE g >= w.head
    BY <2>1 DEF Advance
  <2>2. CASE g < w.head
    BY <2>2 DEF Advance
  <2> QED
    BY <2>1, <2>2
<1>2. Spent(w, g) => ~Accepts(w, g)
  BY DEF Accepts, Spent
<1> QED
  BY <1>1, <1>2 DEF Spent

\* Spent is for good.
LEMMA SpentStays ==
  ASSUME NEW w \in Window, NEW g \in Nat, NEW h \in Nat, Spent(w, h)
  PROVE  Spent(Advance(w, g), h)
BY DEF Window, Advance, Spent

\* Advancing over generation g loses a key only to the tolerance.
LEMMA AdvanceKeeps ==
  ASSUME NEW w \in Window, NEW g \in Nat, NEW h \in Nat,
         h < Advance(w, g).head, h # g, h \notin Advance(w, g).kept
  PROVE  \/ Advance(w, g).head - h > Tolerance
         \/ h < w.head /\ h \notin w.kept
BY RatchetAssumption DEF Window, Advance

----------------------------------------------------------------------------
(***************************************************************************)
(* Steps of the receiver                                                   *)
(***************************************************************************)

\* The receiver does not touch what the sender's invariant speaks of.
LEMMA ReceiverIsElsewhere ==
  ASSUME Inv, ReceiverNext, UNCHANGED senderVars
  PROVE  Elsewhere /\ WireTypeOK' /\ posted' = posted /\ clock' = clock
<1> USE DEF Inv, SenderInv, ReceiverInv, ReceiverTypeOK, AllTypeOK, WireTypeOK,
            Elsewhere
<1>1. CASE UNCHANGED wireVars
  BY <1>1 DEF wireVars
<1>2. CASE AckDone \/ AckFailed
  <2>1. \/ UNCHANGED wireVars
        \/ /\ Drop!Acknowledge(handled) /\ clock' = clock
           /\ lost' = lost \/ LoseAnswer
    BY <1>2 DEF AckDone, AckFailed, EraseAnswered, EraseFailed
  <2>2. CASE Drop!Acknowledge(handled) /\ clock' = clock /\ (lost' = lost \/ LoseAnswer)
    BY <2>2 DEF Drop!Acknowledge, LoseAnswer
  <2> QED
    BY <1>1, <2>1, <2>2
<1> QED
  BY <1>1, <1>2 DEF ReceiverNext, ReceiverStep, Collect, Open, Skip,
     PersistWindow, ReceiverRestart

LEMMA CollectInv == Inv /\ Collect => ReceiverInv'
<1> SUFFICES ASSUME Inv, Collect PROVE ReceiverInv'
  OBVIOUS
<1> USE DEF Inv, ReceiverInv, ReceiverTypeOK, Collect, wireVars
<1>1. ReceiverTypeOK'
  BY DEF SenderInv, AllTypeOK, WireTypeOK
<1>2. HandledInv' /\ StoredInv' /\ CountInv' /\ RowsInv' /\ CrashInv'
  BY DEF HandledInv, StoredInv, CountInv, RowsInv, CrashInv
<1>3. CoverInv'
  BY DEF CoverInv, Covered
<1> QED
  BY <1>1, <1>2, <1>3

LEMMA SkipInv == ASSUME NEW e \in batch, Inv, Skip(e) PROVE ReceiverInv'
<1> USE DEF Inv, ReceiverInv, ReceiverTypeOK, Skip, wireVars
<1>1. /\ ReceiverTypeOK' /\ HandledInv' /\ StoredInv' /\ CountInv'
      /\ RowsInv' /\ CrashInv'
  BY DEF HandledInv, StoredInv, CountInv, RowsInv, CrashInv
<1>2. CoverInv'
  BY DEF CoverInv, Covered
<1> QED
  BY <1>1, <1>2

\* A letter is decrypted and stored.
LEMMA OpenInv == ASSUME NEW e \in batch, Inv, Open(e) PROVE ReceiverInv'
<1>1. e \in posted /\ e \in Envelope /\ posted' = posted /\ erased' = erased
  BY DEF Inv, SenderInv, AllTypeOK, ReceiverInv, ReceiverTypeOK, WireTypeOK, Open, wireVars
<1>2. e.msg \in Msg /\ e.gen \in Nat /\ e.id \in MessageId /\ clock \in Nat
  BY <1>1 DEF Envelope, Inv, SenderInv, AllTypeOK, WireTypeOK
<1>3. window \in Window /\ savedWindow \in Window /\ window' = Advance(window, e.gen)
  BY DEF Inv, ReceiverInv, ReceiverTypeOK, Open
<1>4. /\ stores \in [Msg -> Nat] /\ stores' \in [Msg -> Nat]
      /\ \A m \in Msg : m # e.msg => stores'[m] = stores[m]
      /\ stores'[e.msg] \in {stores[e.msg], stores[e.msg] + 1}
      /\ \A m \in Msg : stores[m] > 0 => stores'[m] > 0
  BY <1>2 DEF Open, Store, Inv, ReceiverInv, ReceiverTypeOK
<1>6. \A f \in posted : f.msg \in Msg /\ f.gen \in Nat
  BY DEF Inv, SenderInv, AllTypeOK, WireTypeOK, Envelope
<1>7. ReceiverTypeOK'
  BY <1>1, <1>2, <1>3, <1>4, AdvanceIsWindow
  DEF Inv, ReceiverInv, ReceiverTypeOK, Open, Store
<1>8. stores'[e.msg] > 0
  <2>1. CASE \E r \in rows : r.id = e.id
    <3>1. PICK r \in rows : r.id = e.id
      BY <2>1
    <3>2. PICK f \in posted : f.id = r.id /\ f.msg = r.msg
      BY DEF Inv, ReceiverInv, RowsInv
    <3>3. f = e
      BY <1>1, <3>1, <3>2 DEF Inv, SenderInv, LettersInv
    <3>4. stores[e.msg] > 0
      BY <3>2, <3>3 DEF Inv, ReceiverInv, RowsInv
    <3> QED
      BY <1>2, <1>4, <3>4
  <2>2. CASE ~\E r \in rows : r.id = e.id
    BY <1>2, <1>4, <2>2 DEF Open, Store
  <2> QED
    BY <2>1, <2>2
<1>9. HandledInv'
  <2>1. handled' = handled \cup {e} /\ handled \subseteq posted /\ erased \subseteq posted
    BY DEF Open, Inv, ReceiverInv, ReceiverTypeOK, SenderInv, AllTypeOK, WireTypeOK
  <2>2. \A f \in handled \cup erased : stores[f.msg] > 0 /\ f.msg \in Msg
    BY <1>6, <2>1 DEF Inv, ReceiverInv, HandledInv
  <2> QED
    BY <1>1, <1>4, <1>8, <2>1, <2>2 DEF HandledInv
<1>10. RowsInv'
  <2>1. \A r \in rows' : r \in rows \/ (r.id = e.id /\ r.msg = e.msg)
    BY DEF Open, Store
  <2>2. \A r \in rows : r.msg \in Msg
    BY DEF Inv, ReceiverInv, ReceiverTypeOK
  <2> QED
    BY <1>1, <1>4, <1>8, <2>1, <2>2 DEF Inv, ReceiverInv, RowsInv
<1>11. StoredInv'
  <2>1. \A m \in Msg : stores'[m] > 0 => \E f \in posted' : f.msg = m
    BY <1>1, <1>4 DEF Inv, ReceiverInv, StoredInv
  <2>2. ASSUME ~receiverTorn'
        PROVE  /\ \A f \in posted' : stores'[f.msg] > 0 => Spent(window', f.gen)
               /\ \A m \in Msg : stores'[m] <= 1
    <3>1. /\ \A f \in posted : stores[f.msg] > 0 => Spent(window, f.gen)
          /\ \A m \in Msg : stores[m] <= 1
      BY <2>2 DEF Open, Inv, ReceiverInv, StoredInv
    <3>2. stores[e.msg] = 0
      <4>1. ~Spent(window, e.gen)
        BY <1>2, <1>3, NoReplay DEF Open
      <4> QED
        BY <1>1, <1>2, <1>4, <3>1, <4>1
    <3>3. ASSUME NEW f \in posted, stores'[f.msg] > 0 PROVE Spent(window', f.gen)
      <4>1. CASE f.msg = e.msg
        <5>1. Used(e.msg, e.gen) /\ Used(e.msg, f.gen)
          BY <1>1, <4>1 DEF Used
        <5>2. f.gen = e.gen
          BY <1>2, <1>6, <5>1 DEF Inv, SenderInv, BindingInv
        <5> QED
          BY <1>2, <1>3, <5>2, NoReplay DEF Open
      <4>2. CASE f.msg # e.msg
        <5>1. Spent(window, f.gen)
          BY <1>4, <1>6, <3>1, <3>3, <4>2
        <5> QED
          BY <1>2, <1>3, <1>6, <5>1, SpentStays
      <4> QED
        BY <4>1, <4>2
    <3>4. \A m \in Msg : stores'[m] <= 1
      BY <1>2, <1>4, <3>1, <3>2
    <3> QED
      BY <1>1, <3>3, <3>4
  <2> QED
    BY <2>1, <2>2 DEF StoredInv
<1>12. ASSUME NEW g \in Nat, NEW w, Covered(w),
              g < w.head, g \notin w.kept, w.head - g <= Tolerance,
              w.head \in Nat
       PROVE  \E f \in posted' : f.gen = g /\ stores'[f.msg] > 0
  BY <1>1, <1>4, <1>6, <1>12, RatchetAssumption DEF Covered
<1>13. Covered(savedWindow)'
  <2>1. savedWindow' = savedWindow /\ savedWindow.head \in Nat
    BY <1>3 DEF Open, Window
  <2>2. Covered(savedWindow)
    BY DEF Inv, ReceiverInv, CoverInv
  <2>3. \A g \in Nat : g < savedWindow.head =>
          \/ g \in savedWindow.kept
          \/ savedWindow.head - g > Tolerance
          \/ \E f \in posted' : f.gen = g /\ stores'[f.msg] > 0
    BY <1>12, <2>1, <2>2, RatchetAssumption
  <2> QED
    BY <1>1, <2>1, <2>2, <2>3 DEF Covered
<1>14. Covered(window)'
  <2>1. window.head \in Nat /\ window'.head \in Nat
    BY <1>2, <1>3, AdvanceIsWindow DEF Window
  <2>2. Covered(window)
    BY DEF Inv, ReceiverInv, CoverInv
  <2>3. window'.head > 0 => \E f \in posted' : f.gen = window'.head - 1
    BY <1>1, <1>2, <1>3, <2>1, <2>2 DEF Covered, Advance
  <2>4. ASSUME NEW g \in Nat, g < window'.head, g \notin window'.kept,
               window'.head - g <= Tolerance
        PROVE  \E f \in posted' : f.gen = g /\ stores'[f.msg] > 0
    <3>1. CASE g = e.gen
      BY <1>1, <1>8, <3>1
    <3>2. CASE g # e.gen
      <4>1. g < window.head /\ g \notin window.kept
        BY <1>2, <1>3, <2>1, <2>4, <3>2, AdvanceKeeps, RatchetAssumption
      <4>2. window.head <= window'.head
        BY <1>2, <1>3, <2>1 DEF Advance
      <4> QED
        BY <1>12, <2>1, <2>2, <2>4, <4>1, <4>2, RatchetAssumption
    <3> QED
      BY <3>1, <3>2
  <2> QED
    BY <2>1, <2>3, <2>4, RatchetAssumption DEF Covered
<1>15. CrashInv'
  BY DEF Inv, ReceiverInv, CrashInv, Open
<1>16. CountInv'
  <2>1. /\ receiverCrashes' = receiverCrashes /\ receiverCrashes \in Nat
        /\ \A m \in Msg : stores[m] <= receiverCrashes + 1
        /\ \A f \in posted : stores[f.msg] > receiverCrashes => Spent(window, f.gen)
    BY DEF Open, Inv, ReceiverInv, ReceiverTypeOK, CountInv
  <2>2. stores[e.msg] <= receiverCrashes
    <3>1. ~Spent(window, e.gen)
      BY <1>2, <1>3, NoReplay DEF Open
    <3> QED
      BY <1>1, <1>2, <1>4, <2>1, <3>1
  <2>3. \A m \in Msg : stores'[m] <= receiverCrashes + 1
    BY <1>2, <1>4, <2>1, <2>2
  <2>4. ASSUME NEW f \in posted, stores'[f.msg] > receiverCrashes
        PROVE  Spent(window', f.gen)
    <3>1. CASE f.msg = e.msg
      <4>1. Used(e.msg, e.gen) /\ Used(e.msg, f.gen)
        BY <1>1, <3>1 DEF Used
      <4>2. f.gen = e.gen
        BY <1>2, <1>6, <4>1 DEF Inv, SenderInv, BindingInv
      <4> QED
        BY <1>2, <1>3, <4>2, NoReplay DEF Open
    <3>2. CASE f.msg # e.msg
      <4>1. Spent(window, f.gen)
        BY <1>4, <1>6, <2>1, <2>4, <3>2
      <4> QED
        BY <1>2, <1>3, <1>6, <4>1, SpentStays
    <3> QED
      BY <3>1, <3>2
  <2> QED
    BY <1>1, <2>1, <2>3, <2>4 DEF CountInv
<1> QED
  BY <1>7, <1>9, <1>10, <1>11, <1>13, <1>14, <1>15, <1>16 DEF ReceiverInv, CoverInv

LEMMA AckInv ==
  ASSUME Inv, AckDone \/ AckFailed, posted' = posted PROVE ReceiverInv'
<1> USE DEF Inv, ReceiverInv, ReceiverTypeOK
<1>1. /\ UNCHANGED <<savedWindow, rows, window, batch, stores,
                     receiverCrashes, receiverTorn>>
      /\ handled' \subseteq handled
      /\ step' \in {"persist", "idle"}
      /\ erased' \subseteq erased \cup handled
  BY DEF AckDone, AckFailed, EraseAnswered, EraseFailed, wireVars, Drop!Acknowledge
<1>2. ReceiverTypeOK'
  BY <1>1
<1>3. HandledInv' /\ RowsInv' /\ StoredInv' /\ CountInv' /\ CrashInv'
  BY <1>1 DEF HandledInv, RowsInv, StoredInv, CountInv, CrashInv
<1>4. CoverInv'
  BY <1>1 DEF CoverInv, Covered
<1> QED
  BY <1>2, <1>3, <1>4

LEMMA PersistInv ==
  ASSUME Inv, PersistWindow \/ ReceiverRestart PROVE ReceiverInv'
<1> USE DEF Inv, ReceiverInv, ReceiverTypeOK, PersistWindow, ReceiverRestart, wireVars
<1>1. /\ posted' = posted /\ erased' = erased /\ stores' = stores
      /\ rows' \subseteq rows /\ handled' = {} /\ batch' \subseteq batch
  BY DEF PurgeRows
<1>2. /\ window' \in {window, savedWindow}
      /\ savedWindow' \in {window, savedWindow}
      /\ step' = "idle"
  OBVIOUS
<1>3. receiverCrashes' \in Nat
  OBVIOUS
<1>4. receiverTorn' \in BOOLEAN
  <2>1. CASE PersistWindow
    BY <2>1
  <2>2. CASE ReceiverRestart
    BY <2>2
  <2> QED
    BY <2>1, <2>2
<1>5. ReceiverTypeOK'
  BY <1>1, <1>2, <1>3, <1>4
<1>6. HandledInv' /\ RowsInv'
  BY <1>1 DEF HandledInv, RowsInv
<1>7. ~receiverTorn' => ~receiverTorn /\ window' = window
  OBVIOUS
<1>8. StoredInv'
  BY <1>1, <1>7 DEF StoredInv
<1>9. CoverInv'
  BY <1>1, <1>2 DEF CoverInv, Covered
<1>10. CrashInv'
  BY ReceiverAssumption DEF CrashInv
<1>11. CountInv'
  <2>1. \/ receiverCrashes' = receiverCrashes /\ window' = window
        \/ receiverCrashes' = receiverCrashes + 1
    OBVIOUS
  <2>2. \A e \in posted : e.msg \in Msg
    BY DEF SenderInv, AllTypeOK, WireTypeOK, Envelope
  <2> QED
    BY <1>1, <1>3, <2>1, <2>2 DEF CountInv
<1> QED
  BY <1>6, <1>8, <1>9, <1>5, <1>10, <1>11

LEMMA ReceiverStepInv ==
  ASSUME Inv, ReceiverNext, UNCHANGED senderVars PROVE Inv'
<1>1. SenderInv'
  BY ReceiverIsElsewhere, SenderInvElsewhere DEF Inv
<1>2. ReceiverInv'
  <2>1. posted' = posted
    BY ReceiverIsElsewhere
  <2> QED
    BY <2>1, CollectInv, OpenInv, SkipInv, AckInv, PersistInv
    DEF ReceiverNext, ReceiverStep
<1> QED
  BY <1>1, <1>2 DEF Inv

----------------------------------------------------------------------------
(***************************************************************************)
(* Steps of everyone else                                                  *)
(***************************************************************************)

\* A letter that is new to the relay carries an old message only as a copy.
LEMMA OthersStepInv ==
  ASSUME Inv, UNCHANGED receiverVars, SenderInv', posted \subseteq posted',
         erased' = erased
  PROVE  ReceiverInv'
<1> USE DEF Inv, ReceiverInv, ReceiverTypeOK, receiverVars
<1>1. ReceiverTypeOK' /\ HandledInv' /\ RowsInv' /\ CrashInv'
  BY DEF HandledInv, RowsInv, CrashInv
<1>2. CoverInv'
  BY DEF CoverInv, Covered
<1>3. ASSUME NEW e \in posted', stores[e.msg] > 0
      PROVE  \E f \in posted : f.msg = e.msg /\ f.gen = e.gen
  <2>1. e.msg \in Msg /\ e.gen \in Nat
    BY DEF SenderInv, AllTypeOK, WireTypeOK, Envelope
  <2>2. PICK f \in posted : f.msg = e.msg
    BY <1>3, <2>1 DEF StoredInv
  <2>3. f.gen \in Nat /\ f \in posted'
    BY DEF SenderInv, AllTypeOK, WireTypeOK, Envelope
  <2>4. Used(e.msg, e.gen)' /\ Used(e.msg, f.gen)'
    BY <2>2, <2>3 DEF Used
  <2>5. e.gen = f.gen
    BY <2>1, <2>3, <2>4 DEF SenderInv, BindingInv
  <2> QED
    BY <2>2, <2>5
<1>4. StoredInv'
  BY <1>3 DEF StoredInv
<1>5. CountInv'
  <2>1. \A e \in posted' : e.msg \in Msg
    BY DEF SenderInv, AllTypeOK, WireTypeOK, Envelope
  <2>2. \A e \in posted' : stores[e.msg] > receiverCrashes => stores[e.msg] > 0
    BY <2>1
  <2> QED
    BY <1>3, <2>2 DEF CountInv
<1> QED
  BY <1>1, <1>2, <1>4, <1>5

LEMMA NextInv == Inv /\ [Next]_vars => Inv'
<1> SUFFICES ASSUME Inv, [Next]_vars PROVE Inv'
  OBVIOUS
<1>1. CASE SenderNext /\ UNCHANGED receiverVars
  <2>1. SenderInv'
    BY <1>1, SenderInvStep DEF Inv
  <2>2. posted \subseteq posted' /\ erased' = erased
    BY <1>1, SenderOnlyPosts DEF Inv, SenderInv
  <2> QED
    BY <1>1, <2>1, <2>2, OthersStepInv DEF Inv
<1>2. CASE ReceiverNext /\ UNCHANGED senderVars
  BY <1>2, ReceiverStepInv
<1>3. CASE \/ (Tick \/ RelayExpires) /\ UNCHANGED <<senderVars, receiverVars>>
           \/ UNCHANGED vars
  <2>1. posted' = posted /\ erased' = erased /\ UNCHANGED senderVars /\ UNCHANGED receiverVars
    BY <1>3 DEF vars, wireVars, Tick, RelayExpires, Drop!Expire
  <2>2. Elsewhere /\ WireTypeOK'
    BY <1>3, <2>1 DEF Inv, SenderInv, AllTypeOK, WireTypeOK, Elsewhere, vars,
       wireVars, Tick, RelayExpires, Drop!Expire
  <2>3. SenderInv'
    BY <2>2, SenderInvElsewhere DEF Inv
  <2> QED
    BY <2>1, <2>3, OthersStepInv DEF Inv
<1> QED
  BY <1>1, <1>2, <1>3 DEF Next

LEMMA InitInv == Init => Inv
<1> SUFFICES ASSUME Init PROVE Inv
  OBVIOUS
<1>1. SenderInv
  BY SenderInvInit DEF Init
<1>2. ReceiverInv
  <2> USE DEF Init, ReceiverInit, WireInit, Drop!Init
  <2>1. ReceiverTypeOK
    BY DEF ReceiverTypeOK, Unused, Window
  <2>2. HandledInv /\ RowsInv /\ StoredInv /\ CountInv
    BY DEF HandledInv, RowsInv, StoredInv, CountInv
  <2>3. CoverInv
    BY DEF CoverInv, Covered, Unused
  <2>4. CrashInv
    BY ReceiverAssumption DEF CrashInv
  <2> QED
    BY <2>1, <2>2, <2>3, <2>4 DEF ReceiverInv
<1> QED
  BY <1>1, <1>2 DEF Inv

LEMMA Invariance == Spec => []Inv
BY InitInv, NextInv, PTL DEF Spec

----------------------------------------------------------------------------

\* Every variable of both ends and of the relay keeps its type.
THEOREM TypeCorrect == Spec => []TypeOK
<1>1. Inv => TypeOK
  BY DEF Inv, SenderInv, AllTypeOK, ReceiverInv, TypeOK
<1> QED
  BY <1>1, Invariance, PTL

\* In the whole system as well as for the sender alone, a generation carries
\* one message until a restart takes back a ratchet step.
THEOREM GenerationsStayUniqueOnTheWire == Spec => []GenerationsUnique
<1>1. Inv => GenerationsUnique
  BY GenerationsFollow DEF Inv
<1> QED
  BY <1>1, Invariance, PTL

\* The relay is told to erase only what the recipient has stored, through any
\* crash of either end and any lost answer.
THEOREM AcknowledgedIsStored == Spec => []AckedIsStored
<1>1. Inv => AckedIsStored
  BY DEF Inv, ReceiverInv, HandledInv, AckedIsStored
<1> QED
  BY <1>1, Invariance, PTL

\* However many copies of a message the relay was given, it enters the thread
\* once, unless a restart took back the step that used its key.
THEOREM CopiesAreRefused == Spec => []StoredOnce
<1>1. Inv => StoredOnce
  BY DEF Inv, ReceiverInv, StoredInv, StoredOnce
<1> QED
  BY <1>1, Invariance, PTL

\* What waits within the tolerance is stored or can still be decrypted.
LEMMA WithinTolerance == Inv => NothingStranded
<1>1. ASSUME Inv, ~senderTorn, NEW e \in waiting, e.gen <= MaxForward,
             \A f \in posted : f.gen < e.gen + Tolerance
      PROVE  stores[e.msg] > 0 \/ Accepts(window, e.gen)
  <2>1. e \in posted /\ e.gen \in Nat /\ window.head \in Nat /\ Covered(window)
    BY <1>1 DEF Inv, SenderInv, AllTypeOK, WireTypeOK, Envelope, ReceiverInv,
       ReceiverTypeOK, Window, CoverInv
  <2>2. CASE e.gen >= window.head
    BY <1>1, <2>1, <2>2, RatchetAssumption DEF Accepts
  <2>3. CASE e.gen < window.head
    <3>1. window.head - e.gen <= Tolerance
      BY <1>1, <2>1, <2>3, RatchetAssumption DEF Covered
    <3>2. \/ e.gen \in window.kept
          \/ \E f \in posted : f.gen = e.gen /\ stores[f.msg] > 0
      BY <2>1, <2>3, <3>1, RatchetAssumption DEF Covered
    <3>3. CASE e.gen \in window.kept
      BY <2>3, <3>1, <3>3 DEF Accepts
    <3>4. CASE \E f \in posted : f.gen = e.gen /\ stores[f.msg] > 0
      <4>1. PICK f \in posted : f.gen = e.gen /\ stores[f.msg] > 0
        BY <3>4
      <4>2. f.msg = e.msg
        BY <1>1, <2>1, <4>1, GenerationsFollow DEF Inv, GenerationsUnique
      <4> QED
        BY <4>1, <4>2
    <3> QED
      BY <3>2, <3>3, <3>4
  <2> QED
    BY <2>1, <2>2, <2>3
<1> QED
  BY <1>1 DEF NothingStranded

\* No order of collection costs a message that is within the tolerance.
THEOREM OrderCostsNothing == Spec => []NothingStranded
BY WithinTolerance, Invariance, PTL

\* Nothing that was shown as sent is unaccounted for: the invariant of the
\* sender follows it to the relay, the acknowledgement and the window from there.
THEOREM SentIsAccountedFor == Spec => []NothingVanishes
<1>1. ASSUME Inv, ~senderTorn, NEW r \in sentRows,
             ~(phase = "enqueue" /\ current = r.msg),
             \A q \in outbox : q.msg # r.msg, ~(stores[r.msg] > 0)
      PROVE  \E e \in posted \ erased :
               /\ e.msg = r.msg
               /\ \/ e \notin waiting
                  \/ e.gen > MaxForward
                  \/ \E f \in posted : f.gen >= e.gen + Tolerance
                  \/ Accepts(window, e.gen)
  <2>1. PICK e \in posted : e.msg = r.msg
    BY <1>1 DEF Inv, SenderInv, BackedInv, Backed
  <2>2. e \notin erased
    BY <1>1, <2>1 DEF Inv, ReceiverInv, HandledInv
  <2>3. e.gen \in Nat /\ \A f \in posted : f.gen \in Nat
    BY <1>1 DEF Inv, SenderInv, AllTypeOK, WireTypeOK, Envelope
  <2>4. CASE /\ e \in waiting /\ e.gen <= MaxForward
             /\ \A f \in posted : f.gen < e.gen + Tolerance
    BY <1>1, <2>1, <2>2, <2>4, WithinTolerance DEF NothingStranded
  <2>5. CASE ~(/\ e \in waiting /\ e.gen <= MaxForward
               /\ \A f \in posted : f.gen < e.gen + Tolerance)
    BY <2>1, <2>2, <2>3, <2>5, RatchetAssumption
  <2> QED
    BY <2>4, <2>5
<1>2. Inv => NothingVanishes
  BY <1>1 DEF NothingVanishes
<1> QED
  BY <1>2, Invariance, PTL

\* What the sender promises alone it promises beside a receiver, expiry and
\* acknowledgements: the rows of its thread stay backed,
THEOREM SentStaysBackedOnTheWire == Spec => []SentIsBacked
<1>1. Inv => SentIsBacked
  BY DEF Inv, SenderInv, BackedInv, Backed, SentIsBacked
<1> QED
  BY <1>1, Invariance, PTL

\* and its retry keeps to the order of the seconds.
THEOREM FlushFollowsSecondsOnTheWire == Spec => FlushedBySecond
<1>1. Inv /\ Next => posted' = posted \/ SenderNext
  BY ReceiverIsElsewhere DEF Next, Tick, RelayExpires, Drop!Expire
<1>2. Inv /\ [Next]_vars
        => [~senderTorn /\ phase = "flush" =>
              \A e \in posted' \ posted : \A q, r \in outbox :
                r.gen = e.gen /\ q.gen < e.gen => q.at = r.at]_sVars
  BY <1>1, FlushOrder DEF Inv, vars, sVars, wireVars
<1> QED
  BY <1>2, Invariance, PTL DEF Spec, FlushedBySecond

----------------------------------------------------------------------------
(***************************************************************************)
(* Refinement                                                              *)
(***************************************************************************)

LEMMA StepRefines ==
  ASSUME Inv, [Next]_vars
  PROVE  [Contract!Next]_(Contract!vars)
<1> USE DEF Contract!vars
<1>1. ASSUME NEW m \in Text, Send(m), UNCHANGED receiverVars
      PROVE  Contract!Next
  BY <1>1 DEF Send, receiverVars, Contract!Next, Contract!Compose, Text
<1>2. ASSUME NEW e \in batch, Open(e), UNCHANGED senderVars
      PROVE  Contract!Next \/ UNCHANGED <<submitted, stores>>
  <2>1. e \in posted /\ e.msg \in Msg /\ e.gen \in Nat
    BY DEF Inv, SenderInv, AllTypeOK, WireTypeOK, Envelope, ReceiverInv, ReceiverTypeOK
  <2>2. e.msg \in submitted
    <3>1. Used(e.msg, e.gen)
      BY <2>1 DEF Used
    <3> QED
      BY <2>1, <3>1 DEF Inv, SenderInv, BindingInv
  <2>3. stores[e.msg] < MaxReceiverCrash + 1
    <3>1. /\ window \in Window /\ stores[e.msg] \in Nat
          /\ receiverCrashes \in Nat /\ receiverCrashes <= MaxReceiverCrash
      BY <2>1 DEF Inv, ReceiverInv, ReceiverTypeOK, CrashInv
    <3>2. ~Spent(window, e.gen)
      BY <1>2, <2>1, <3>1, NoReplay DEF Open
    <3>3. stores[e.msg] <= receiverCrashes
      BY <2>1, <3>1, <3>2 DEF Inv, ReceiverInv, CountInv
    <3> QED
      BY <3>1, <3>3, ReceiverAssumption
  <2>4. stores' \in {stores, [stores EXCEPT ![e.msg] = @ + 1]}
    BY <1>2 DEF Open, Store
  <2>6. submitted' = submitted
    BY <1>2 DEF senderVars, history
  <2>7. CASE stores' = [stores EXCEPT ![e.msg] = @ + 1]
    BY <2>1, <2>2, <2>3, <2>6, <2>7 DEF Contract!Next, Contract!Appear
  <2> QED
    BY <2>4, <2>6, <2>7
<1>3. CASE \/ UNCHANGED vars
           \/ (Tick \/ RelayExpires) /\ UNCHANGED <<senderVars, receiverVars>>
           \/ /\ Poll \/ (SenderStep /\ ~HelloPosted /\ ~HelloFailed)
                 \/ SenderRestart
              /\ UNCHANGED receiverVars
  BY <1>3 DEF vars, senderVars, history, receiverVars, Poll, SenderStep,
     FlushPosted, FlushFailed, Dequeue, SendPosted, SendFailed, RecordRow,
     Enqueue, PollCollect, Persist, SenderRestart
<1>4. CASE /\ \/ Collect \/ AckDone \/ AckFailed \/ PersistWindow \/ ReceiverRestart
              \/ \E e \in batch : Skip(e)
           /\ UNCHANGED senderVars
  BY <1>4 DEF senderVars, history, Collect, AckDone, AckFailed, PersistWindow,
     ReceiverRestart, Skip
<1>5. CASE (HelloPosted \/ HelloFailed) /\ UNCHANGED receiverVars
  <2>1. /\ Hello \in Msg
        /\ submitted' = submitted \cup {Hello} /\ stores' = stores
    BY <1>5 DEF HelloPosted, HelloFailed, receiverVars, Inv, SenderInv, PhaseInv
  <2> QED
    BY <2>1 DEF Contract!Next, Contract!Compose
<1> QED
  BY <1>1, <1>2, <1>3, <1>4, <1>5 DEF Next, SenderNext, ReceiverNext, ReceiverStep

\* The two ends implement a mailbox in which a message appears only once it was
\* composed, and again at most once for each time the receiver's process stopped
\* with something unsaved: once, when it stops only between calls.
THEOREM MailboxIsImplemented == Spec => ImplementsMailbox
<1>1. Init => Contract!Init
  BY DEF Init, SenderInit, ReceiverInit, Contract!Init
<1>2. Inv /\ [Next]_vars => [Contract!Next]_(Contract!vars)
  BY StepRefines
<1> QED
  BY <1>1, <1>2, Invariance, PTL DEF Spec, ImplementsMailbox, Contract!Spec

\* The sum of it: once nothing is queued and every letter was acknowledged, each
\* message the sender's thread shows as sent was stored exactly once at the
\* other end, provided no restart took back a ratchet step of either.
THEOREM QuietIsDelivered ==
  Spec => [](/\ phase = "idle" /\ outbox = {} /\ posted \subseteq erased
             /\ ~senderTorn /\ ~receiverTorn
             => \A r \in sentRows : stores[r.msg] = 1)
<1> DEFINE Quiet == /\ phase = "idle" /\ outbox = {} /\ posted \subseteq erased
                    /\ ~senderTorn /\ ~receiverTorn
           Once == \A r \in sentRows : stores[r.msg] = 1
<1>1. TypeOK /\ NothingVanishes /\ StoredOnce => (Quiet => Once)
  <2> SUFFICES ASSUME TypeOK, NothingVanishes, StoredOnce, Quiet, NEW r \in sentRows
               PROVE  stores[r.msg] = 1
    OBVIOUS
  <2>1. r.msg \in Msg /\ stores[r.msg] \in Nat
    BY DEF TypeOK, SenderTypeOK, ReceiverTypeOK
  <2>2. stores[r.msg] > 0
    BY DEF NothingVanishes
  <2>3. stores[r.msg] <= 1
    BY <2>1 DEF StoredOnce
  <2> QED
    BY <2>1, <2>2, <2>3
<1> QED
  BY <1>1, TypeCorrect, SentIsAccountedFor, CopiesAreRefused, PTL

----------------------------------------------------------------------------

\* A POST is a submission to the mail drop, or nothing.
LEMMA PostIsSubmission ==
  ASSUME NEW m \in Msg, NEW g \in Nat, PostAnswered(m, g) \/ PostFailed(m, g)
  PROVE  [Drop!Next]_<<posted, waiting, erased>>
<1>1. CASE Post(m, g)
  <2> DEFINE free == MessageId \ {e.id : e \in posted}
             l == [id |-> CHOOSE i \in free : TRUE, msg |-> m, gen |-> g]
  <2>1. free # {} /\ Drop!Submit(l)
    BY <1>1 DEF Post
  <2>2. l \in Envelope
    BY <2>1 DEF Envelope
  <2> QED
    BY <2>1, <2>2 DEF Drop!Next
<1> QED
  BY <1>1 DEF PostAnswered, PostFailed, wireVars

\* Nothing the two ends and their relay do goes beyond the contract of one
\* inbox, which the relay of store.rs implements.
THEOREM DeliveryKeepsToMailDrop == Spec => Drop!Spec
<1>1. Init => Drop!Init
  BY DEF Init, WireInit
<1>2. Inv /\ [Next]_vars => [Drop!Next]_<<posted, waiting, erased>>
  <2> SUFFICES ASSUME Inv, [Next]_vars
               PROVE  [Drop!Next]_<<posted, waiting, erased>>
    OBVIOUS
  <2>1. CASE FlushPosted \/ FlushFailed
    <3>1. PICK q \in Oldest(toFlush) :
            PostAnswered(q.msg, q.gen) \/ PostFailed(q.msg, q.gen)
      BY <2>1 DEF FlushPosted, FlushFailed
    <3>2. q.msg \in Msg /\ q.gen \in Nat
      BY <3>1, OldestIsThere DEF Inv, SenderInv, AllTypeOK, SenderTypeOK, Queued
    <3> QED
      BY <3>1, <3>2, PostIsSubmission
  <2>2. CASE SendPosted \/ SendFailed
    <3>1. current \in Msg /\ generation \in Nat
      BY <2>2 DEF SendPosted, SendFailed, Inv, SenderInv, PhaseInv, AllTypeOK,
                  SenderTypeOK, Text
    <3> QED
      BY <2>2, <3>1, PostIsSubmission DEF SendPosted, SendFailed
  <2>3. CASE AckDone \/ AckFailed
    <3>1. handled \in SUBSET Envelope
      BY DEF Inv, ReceiverInv, ReceiverTypeOK, SenderInv, AllTypeOK, WireTypeOK
    <3> QED
      BY <2>3, <3>1 DEF AckDone, AckFailed, EraseAnswered, EraseFailed, wireVars,
         Drop!Next
  <2>4. CASE RelayExpires
    <3>1. PICK e \in waiting : Drop!Expire({e})
      BY <2>4 DEF RelayExpires
    <3>2. {e} \in SUBSET Envelope
      BY DEF Inv, SenderInv, AllTypeOK, WireTypeOK
    <3> QED
      BY <3>1, <3>2 DEF Drop!Next
  <2>5. CASE \/ UNCHANGED wireVars
             \/ Tick
    BY <2>5 DEF wireVars, Tick
  <2>6. CASE HelloPosted \/ HelloFailed
    <3>1. Hello \in Msg /\ generation \in Nat
      BY <2>6 DEF HelloPosted, HelloFailed, Inv, SenderInv, PhaseInv, AllTypeOK,
                  SenderTypeOK
    <3> QED
      BY <2>6, <3>1, PostIsSubmission DEF HelloPosted, HelloFailed
  <2> QED
    BY <2>1, <2>2, <2>3, <2>4, <2>5, <2>6
    DEF Next, vars, SenderNext, SenderStep, Send, Poll, Begin, Dequeue, RecordRow,
        Enqueue, PollCollect, Persist, SenderRestart, ReceiverNext, ReceiverStep,
        Collect, Open, Skip, PersistWindow, ReceiverRestart
<1> QED
  BY <1>1, <1>2, Invariance, PTL DEF Spec, Drop!Spec

=============================================================================
