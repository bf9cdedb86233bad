--------------------------- MODULE ContactsProofs --------------------------
(***************************************************************************)
(* What Contacts promises, for any keys and conversations.                 *)
(***************************************************************************)
EXTENDS Contacts, TLAPS

\* Every mark, shown or hidden behind a change, was made under the key in use.
MarkInv == \A id \in verified : marked[id] = inUse[id]

\* An open change is on record, except the one that is being recorded.
OpenInv ==
  ~struck =>
    /\ unacked \subseteq open
    /\ \A id \in open \ unacked : ~Quiet /\ id = contactOf[replacing]
    /\ ~Quiet => contactOf[replacing] \in open

\* A conversation of a contact has somebody who speaks in it.
SpeakerInv == \A c \in Conv : contactOf[c] # Nobody => speaker[c] # Nobody

\* A key in use that came after the number in hand, or after nobody compared
\* anything, is either answered or still to be answered.
Answerable(id) == \/ id \in unacked
                  \/ <<id, inUse[id]>> \in answered
                  \/ ~Quiet /\ id = contactOf[replacing]

\* The number in front of the user is of the key in use, or else the user has
\* been told; so is every mark.
ComparedInv ==
  ~struck =>
    /\ number # NoNumber =>
         number.key = inUse[number.id] \/ Answerable(number.id)
    /\ \A id \in verified : \/ <<id, inUse[id]>> \in compared \cup answered
                            \/ id \in unacked

IInv == TypeOK /\ MarkInv /\ OpenInv /\ SpeakerInv /\ ComparedInv

\* The statement and the rest of a letter put no contact but the thread's own.
LEMMA HandleKeeps ==
  ASSUME TypeOK, NEW c \in Conv, contactOf[c] # Nobody, Handle(c)
  PROVE  known' = known /\ verified' = verified /\ contactOf' = contactOf
<1>1. CASE Put(HelloContact(c), c)
  <2>1. contactOf[c] \in known
    BY DEF TypeOK
  <2>2. HelloContact(c) = contactOf[c]
    BY DEF HelloContact
  <2>3. [contactOf EXCEPT ![c] = contactOf[c]] = contactOf
    BY DEF TypeOK
  <2> QED
    BY <1>1, <2>1, <2>2, <2>3 DEF Put, VerifiedAfterPut, KnownAfterPut
<1>2. CASE UNCHANGED <<known, verified, contactOf>>
  BY <1>2
<1> QED
  BY <1>1, <1>2 DEF Handle

LEMMA InitOK == Init => IInv
<1> SUFFICES ASSUME Init PROVE IInv
  OBVIOUS
<1> USE ContactsAssumption
<1>1. TypeOK
  BY DEF Init, TypeOK, NoNumber
<1>2. MarkInv /\ OpenInv /\ SpeakerInv /\ ComparedInv
  BY DEF Init, MarkInv, OpenInv, SpeakerInv, ComparedInv, Quiet
<1> QED
  BY <1>1, <1>2 DEF IInv

LEMMA AddKeeps ==
  ASSUME IInv, NEW c \in Conv, NEW k \in Key, NEW s \in Key, AddContact(c, k, s)
  PROVE  IInv'
<1> USE DEF AddContact, Put, VerifiedAfterPut, KnownAfterPut, Quiet
<1>1. TypeOK'
  BY ContactsAssumption DEF IInv, TypeOK
<1>2. MarkInv'
  BY DEF IInv, MarkInv
<1>3. OpenInv'
  BY ContactsAssumption DEF IInv, TypeOK, OpenInv
<1>4. SpeakerInv'
  BY ContactsAssumption DEF IInv, TypeOK, SpeakerInv
<1>5. ComparedInv'
  BY ContactsAssumption DEF IInv, TypeOK, ComparedInv, Answerable
<1> QED
  BY <1>1, <1>2, <1>3, <1>4, <1>5 DEF IInv

LEMMA KeyDiffersKeeps ==
  ASSUME IInv, NEW c \in Conv, KeyDiffers(c)
  PROVE  IInv'
<1> DEFINE id == contactOf[c]
<1> USE DEF KeyDiffers, VerifiedAfterChange
<1>0. id \in known /\ known \subseteq Key /\ speaker[c] \in Key /\ c # Nobody
  BY ContactsAssumption DEF IInv, TypeOK, SpeakerInv
<1>1. TypeOK'
  BY <1>0 DEF IInv, TypeOK
<1>2. MarkInv'
  BY <1>0 DEF IInv, TypeOK, MarkInv
<1>3. OpenInv'
  BY <1>0 DEF IInv, TypeOK, OpenInv, Quiet
<1>4. SpeakerInv'
  BY DEF IInv, SpeakerInv
<1>5. ComparedInv'
  <2>1. ASSUME ~struck, number # NoNumber
        PROVE  number.key = inUse'[number.id] \/ Answerable(number.id)'
    BY <1>0, <2>1 DEF IInv, TypeOK, ComparedInv, Answerable, Quiet
  <2>2. ASSUME ~struck, NEW i \in verified \ {id}
        PROVE  <<i, inUse'[i]>> \in compared \cup answered \/ i \in unacked
    BY <1>0, <2>2 DEF IInv, TypeOK, ComparedInv
  <2> QED
    BY <2>1, <2>2 DEF ComparedInv
<1> QED
  BY <1>1, <1>2, <1>3, <1>4, <1>5 DEF IInv

LEMMA RecordKeeps ==
  ASSUME IInv, RecordChange
  PROVE  IInv'
<1> USE DEF RecordChange, UnackedAfterChange
<1>1. replacing \in Conv /\ contactOf[replacing] # Nobody
  BY DEF IInv, TypeOK, Quiet
<1>2. known' = known /\ verified' = verified /\ contactOf' = contactOf
  BY <1>1, HandleKeeps DEF IInv
<1>3. contactOf[replacing] \in known
  BY <1>1 DEF IInv, TypeOK
<1>4. TypeOK'
  BY <1>2, <1>3 DEF IInv, TypeOK
<1>5. MarkInv' /\ SpeakerInv'
  BY <1>2 DEF IInv, MarkInv, SpeakerInv
<1>6. OpenInv'
  BY <1>2, <1>3 DEF IInv, OpenInv, Quiet
<1>7. ComparedInv'
  BY <1>2, <1>3 DEF IInv, ComparedInv, Answerable, Quiet
<1> QED
  BY <1>4, <1>5, <1>6, <1>7 DEF IInv

LEMMA KeyMatchesKeeps ==
  ASSUME IInv, NEW c \in Conv, KeyMatches(c)
  PROVE  IInv'
<1>1. known' = known /\ verified' = verified /\ contactOf' = contactOf
  BY HandleKeeps DEF IInv, KeyMatches
<1> QED
  BY <1>1 DEF IInv, KeyMatches, TypeOK, MarkInv, OpenInv, SpeakerInv,
     ComparedInv, Answerable, Quiet

\* What the user does: look at a number, mark, take back a mark, answer.
LEMMA UserKeeps ==
  ASSUME IInv,
         Verify \/ \E id \in known : ShowNumber(id) \/ Unverify(id) \/ Acknowledge(id)
  PROVE  IInv'
<1>1. CASE Verify
  <2> USE DEF Verify
  <2>1. number.id \in known /\ number.key \in Key /\ number.id \in Key
    BY <1>1 DEF IInv, TypeOK
  <2>2. TypeOK'
    BY <1>1, <2>1 DEF IInv, TypeOK
  <2>3. MarkInv'
    BY <1>1, <2>1 DEF IInv, TypeOK, MarkInv
  <2>4. OpenInv' /\ SpeakerInv'
    BY <1>1 DEF IInv, OpenInv, SpeakerInv, Quiet
  <2>5. ComparedInv'
    BY <1>1, <2>1 DEF IInv, TypeOK, ComparedInv, Answerable, Quiet
  <2> QED
    BY <2>2, <2>3, <2>4, <2>5 DEF IInv
<1>2. ASSUME NEW id \in known, ShowNumber(id)
      PROVE  IInv'
  <2>1. number' \in [id : known, key : Key]
    BY <1>2 DEF IInv, TypeOK, ShowNumber
  <2> QED
    BY <1>2, <2>1 DEF IInv, ShowNumber, rows, TypeOK, MarkInv, OpenInv, SpeakerInv,
     ComparedInv, Answerable, Quiet
<1>3. ASSUME NEW id \in known, Unverify(id)
      PROVE  IInv'
  BY <1>3 DEF IInv, Unverify, TypeOK, MarkInv, OpenInv, SpeakerInv,
     ComparedInv, Answerable, Quiet
<1>4. ASSUME NEW id \in known, Acknowledge(id)
      PROVE  IInv'
  BY <1>4 DEF IInv, Acknowledge, TypeOK, MarkInv, OpenInv, SpeakerInv,
     ComparedInv, Answerable, Quiet
<1> QED
  BY <1>1, <1>2, <1>3, <1>4

LEMMA StopKeeps == ASSUME IInv, Stop PROVE IInv'
<1> USE DEF Stop, rows
<1>1. TypeOK' /\ MarkInv' /\ SpeakerInv'
  BY DEF IInv, TypeOK, MarkInv, SpeakerInv
<1>2. ASSUME ~struck' PROVE Quiet /\ ~struck
  BY <1>2 DEF IInv, TypeOK
<1>3. OpenInv' /\ ComparedInv'
  BY <1>2 DEF IInv, OpenInv, ComparedInv, Answerable, Quiet
<1> QED
  BY <1>1, <1>3 DEF IInv

LEMMA StepOK == IInv /\ [Next]_vars => IInv'
<1> SUFFICES ASSUME IInv, [Next]_vars PROVE IInv'
  OBVIOUS
<1>1. CASE UNCHANGED vars
  BY <1>1 DEF IInv, vars, rows, TypeOK, MarkInv, OpenInv, SpeakerInv,
     ComparedInv, Answerable, Quiet
<1>2. CASE Next
  BY <1>2, AddKeeps, KeyDiffersKeeps, KeyMatchesKeeps, RecordKeeps, UserKeeps,
     StopKeeps DEF Next, Join
<1> QED
  BY <1>1, <1>2

LEMMA Invariance == Spec => []IInv
  BY InitOK, StepOK, PTL DEF Spec

----------------------------------------------------------------------------

\* The tables and the memory keep their types; every conversation is put under
\* a contact that exists.
THEOREM TypeCorrect == Spec => []TypeOK
<1>1. IInv => TypeOK
  BY DEF IInv
<1> QED
  BY <1>1, Invariance, PTL

\* replace_identity_key drops the mark in the statement that changes the key,
\* so no interleaving of changes, marks and stops shows a mark under another.
THEOREM MarksAreForThisKey == Spec => []VerifiedUnderThisKey
<1>1. IInv => VerifiedUnderThisKey
  BY DEF IInv, MarkInv, VerifiedUnderThisKey, IdentityState
<1> QED
  BY <1>1, Invariance, PTL

\* The warning stays from the change to the answer, for every contact.
THEOREM WarningsStay == Spec => []ChangeStaysUntilAnswered
<1>1. IInv => ChangeStaysUntilAnswered
  BY DEF IInv, OpenInv, ChangeStaysUntilAnswered, IdentityState
<1> QED
  BY <1>1, Invariance, PTL

\* Whoever is shown as verified had that key compared, or the user was told of
\* it: a change that slips in between the number and the mark is on record
\* before the mark is shown.
THEOREM MarksAreComparedOrAnswered == Spec => []MarkIsComparedOrAnswered
<1>1. IInv => MarkIsComparedOrAnswered
  BY DEF IInv, ComparedInv, MarkIsComparedOrAnswered, IdentityState
<1> QED
  BY <1>1, Invariance, PTL

\* put_contact never takes back a mark.
THEOREM MarksAreKept == Spec => MarkGoesOnlyWithItsKey
<1>1. ASSUME IInv, [Next]_vars, NEW id \in verified \ verified'
      PROVE  inUse'[id] # inUse[id] \/ Unverify(id)
  <2>1. CASE UNCHANGED vars
    BY <1>1, <2>1 DEF vars, rows
  <2>2. ASSUME NEW c \in Conv, NEW k \in Key, NEW s \in Key, AddContact(c, k, s)
        PROVE  FALSE
    BY <1>1, <2>2 DEF AddContact, Put, VerifiedAfterPut, KnownAfterPut
  <2>3. ASSUME NEW c \in Conv, KeyDiffers(c)
        PROVE  inUse'[id] # inUse[id]
    BY <1>1, <2>3 DEF KeyDiffers, VerifiedAfterChange, IInv, TypeOK
  <2>4. ASSUME (\E c \in Conv : KeyMatches(c)) \/ RecordChange
        PROVE  FALSE
    BY <1>1, <2>4 DEF KeyMatches, RecordChange, Handle, Put, VerifiedAfterPut, KnownAfterPut
  <2>5. ASSUME Verify \/ Stop \/ (\E i \in known : ShowNumber(i) \/ Acknowledge(i))
        PROVE  FALSE
    BY <1>1, <2>5 DEF Verify, Stop, ShowNumber, Acknowledge, rows
  <2>6. ASSUME NEW i \in known, Unverify(i)
        PROVE  Unverify(id)
    <3>1. i = id
      BY <1>1, <2>6 DEF Unverify
    <3> QED
      BY <2>6, <3>1
  <2> QED
    BY <1>1, <2>1, <2>2, <2>3, <2>4, <2>5, <2>6 DEF Next, Join
<1>2. IInv /\ [Next]_vars =>
        [\A id \in verified \ verified' : inUse'[id] # inUse[id] \/ Unverify(id)]_vars
  BY <1>1
<1> QED
  BY <1>2, Invariance, PTL DEF Spec, MarkGoesOnlyWithItsKey

\* No letter, Welcome or invite moves a thread to another contact.
THEOREM ThreadsStay == Spec => ThreadKeepsItsContact
<1>1. ASSUME IInv, [Next]_vars, NEW c \in Conv, contactOf[c] # Nobody
      PROVE  contactOf'[c] = contactOf[c]
  <2>1. CASE UNCHANGED vars
    BY <2>1 DEF vars, rows
  <2>2. ASSUME NEW d \in Conv, NEW k \in Key, NEW s \in Key, AddContact(d, k, s)
        PROVE  contactOf'[c] = contactOf[c]
    BY <1>1, <2>2 DEF AddContact, Put, IInv, TypeOK, SpeakerInv
  <2>3. ASSUME NEW d \in Conv, KeyMatches(d)
        PROVE  contactOf'[c] = contactOf[c]
    BY <1>1, <2>3, HandleKeeps DEF KeyMatches, IInv
  <2>4. ASSUME RecordChange
        PROVE  contactOf'[c] = contactOf[c]
    BY <1>1, <2>4, HandleKeeps DEF RecordChange, IInv, TypeOK, Quiet
  <2>5. ASSUME \/ \E d \in Conv : KeyDiffers(d)
               \/ Verify \/ Stop
               \/ \E i \in known : ShowNumber(i) \/ Unverify(i) \/ Acknowledge(i)
        PROVE  contactOf'[c] = contactOf[c]
    BY <2>5 DEF KeyDiffers, Verify, Stop, ShowNumber, Unverify, Acknowledge, rows
  <2> QED
    BY <1>1, <2>1, <2>2, <2>3, <2>4, <2>5 DEF Next, Join
<1>2. IInv /\ [Next]_vars =>
        [\A c \in Conv : contactOf[c] # Nobody => contactOf'[c] = contactOf[c]]_vars
  BY <1>1
<1> QED
  BY <1>2, Invariance, PTL DEF Spec, ThreadKeepsItsContact

=============================================================================
