--------------------------- MODULE PairingProofs ---------------------------
(***************************************************************************)
(* Proofs about Pairing, for any conversations and invites.                *)
(*                                                                         *)
(* The invariant has three parts: how far add_contact has come and what it *)
(* has left on disk and on the relay (AddInv); what is in the joiner's     *)
(* provider, snapshot, rows and map (JoinInv, KeyInv); and which letters   *)
(* have been dealt with, here or on the relay (LetterInv, ReadInv).        *)
(***************************************************************************)
EXTENDS Pairing, TLAPS

\* The initiator: rows come before the Welcome, the Welcome before the Hello,
\* and what add_contact answered Ok for is on disk.
AddInv ==
  /\ addStep # "idle" => adding \in groups /\ usedInvite[adding] \in codes
  /\ addStep \in {"welcome", "open", "hello", "save"} => adding \in offered
  /\ addStep \in {"open", "hello", "save"} => Welcome(adding) \in posted
  /\ addStep \in {"hello", "save"} => adding \in live \cap savedGroups
  /\ savedGroups \subseteq groups
  /\ added \subseteq offered \cap savedGroups \cap live
  /\ \A c \in Conv :
       /\ Welcome(c) \in posted => c \in offered /\ usedInvite[c] \in codes
       /\ Hello(c) \in posted => Welcome(c) \in posted

\* The joiner: a group is in the map, and then on disk with its row, or it is
\* the one being joined and on its way there.
JoinInv ==
  /\ step \in {"row", "save"} <=> joining # Nothing
  /\ joining # Nothing =>
       /\ joining.kind = "Welcome"
       /\ joining.conv \in provider.groups \ saved.groups
       /\ step = "save" => joining.conv \in opened
  /\ joining # Nothing \/ opened # {} => contactInbox # Nothing
  /\ saved.groups \subseteq provider.groups \cap opened
  /\ \A c \in Conv :
       /\ replyTo[c] # Nothing => c \in saved.groups
       /\ c \in provider.groups =>
            replyTo[c] # Nothing \/ (joining # Nothing /\ joining.conv = c)

\* A key package is gone once a group was joined with it.
KeyInv ==
  /\ provider.packages \subseteq codes
  /\ saved.packages \subseteq codes
  /\ \A c \in provider.groups : usedInvite[c] \in codes \ provider.packages
  /\ \A c \in saved.groups : usedInvite[c] \in codes \ saved.packages

\* Letters dealt with belong to conversations on disk; a blank address has a
\* Hello still to come; who has been heard is answered.
LetterInv ==
  /\ \A c \in Conv : Welcome(c) \in handled \cup erased => c \in saved.groups
  /\ \A c \in Conv : Hello(c) \in handled \cup erased => c \in saved.groups
  /\ contactInbox = Blank =>
       \E c \in Conv : Welcome(c) \in posted /\ Hello(c) \notin handled \cup erased
  /\ ~startedBlank =>
       \A c \in Conv :
         Hello(c) \in handled \cup erased /\ replyTo[c] # Nothing => replyTo[c] = Known

\* A Hello of this poll is still to be read, was read, or was skipped when no
\* Welcome was left that could open its conversation.
ReadInv ==
  step \in {"read", "row", "save"} =>
    \A c \in Conv : Hello(c) \in collected =>
      \/ Hello(c) \in batch
      \/ c \in provider.heard
      \/ step = "read" /\ WelcomesFirst /\ c \notin provider.groups

IInv == TypeOK /\ AddInv /\ JoinInv /\ KeyInv /\ LetterInv /\ ReadInv

----------------------------------------------------------------------------

\* Letters are told apart by their kind and their conversation.
LEMMA Letters ==
  /\ \A c \in Conv : Welcome(c) \in Letter /\ Hello(c) \in Letter
  /\ \A c, d \in Conv :
       /\ Welcome(c) # Hello(d)
       /\ Welcome(c) = Welcome(d) => c = d
       /\ Hello(c) = Hello(d) => c = d
  /\ \A l \in Letter :
       /\ l.conv \in Conv
       /\ l.kind = "Welcome" => l = Welcome(l.conv)
       /\ l.kind = "Hello" => l = Hello(l.conv)
       /\ l.kind \in {"Welcome", "Hello"}
  /\ \A c \in Conv : /\ Welcome(c).kind = "Welcome" /\ Welcome(c).conv = c
                     /\ Hello(c).kind = "Hello" /\ Hello(c).conv = c
  BY DEF Letter, Welcome, Hello

LEMMA InitOK == Init => IInv
<1> SUFFICES ASSUME Init PROVE IInv
  OBVIOUS
<1> USE PairingAssumption DEF Init, Drop!Init
<1>1. provider = [packages |-> {}, groups |-> {}, heard |-> {}] /\ saved = provider
  OBVIOUS
<1>2. provider \in Provider /\ provider.packages = {} /\ provider.groups = {}
  BY <1>1 DEF Provider
<1>3. TypeOK
  BY <1>1, <1>2 DEF TypeOK
<1>4. AddInv /\ LetterInv /\ ReadInv
  BY DEF AddInv, LetterInv, ReadInv
<1>5. JoinInv /\ KeyInv
  BY <1>1, <1>2 DEF JoinInv, KeyInv
<1> QED
  BY <1>3, <1>4, <1>5 DEF IInv

\* What a step that leaves the joiner and the relay alone has to keep.
LEMMA InitiatorKeeps ==
  ASSUME IInv, UNCHANGED <<drop, jVars>>, TypeOK', AddInv',
         \A c \in Conv : usedInvite[c] # Nothing => usedInvite'[c] = usedInvite[c]
  PROVE  IInv'
<1> USE DEF drop, jVars, IInv
<1>1. JoinInv' /\ LetterInv' /\ ReadInv'
  BY DEF JoinInv, LetterInv, ReadInv, WelcomesFirst, Welcome, Hello
<1>2. KeyInv'
  <2>1. /\ codes \subseteq Invite
        /\ provider.groups \subseteq Conv
        /\ saved.groups \subseteq Conv
    BY DEF TypeOK, Provider
  <2> QED
    BY <2>1, PairingAssumption DEF KeyInv
<1> QED
  BY <1>1, <1>2

LEMMA AddKeeps ==
  ASSUME IInv, NEW c \in Conv, NEW i \in Invite, Add(c, i)
  PROVE  IInv'
<1> USE DEF Add, drop, jVars
<1>1. /\ TypeOK'
      /\ \A d \in Conv : usedInvite[d] # Nothing => usedInvite'[d] = usedInvite[d]
  BY DEF IInv, TypeOK, Provider
<1>2. AddInv'
  <2>1. usedInvite'[c] = i /\ c \in groups'
    BY DEF IInv, TypeOK
  <2>2. \A d \in Conv : usedInvite[d] \in codes => usedInvite'[d] \in codes
    BY <2>1, PairingAssumption DEF IInv, TypeOK
  <2> QED
    BY <2>1, <2>2 DEF IInv, AddInv, Welcome, Hello
<1> QED
  BY <1>1, <1>2, InitiatorKeeps

\* The steps of the initiator that touch nothing but its own disk and memory.
LEMMA OwnStepsKeep ==
  ASSUME IInv, PutRows \/ OpenOwn \/ FinishAdd \/ OtherCall \/ InitiatorRestart
  PROVE  IInv'
<1> USE DEF IInv, TypeOK, AddInv, drop, jVars, Snapshot, Reloaded, Welcome, Hello
<1>1. CASE PutRows
  <2>1. TypeOK' /\ AddInv' /\ UNCHANGED <<drop, jVars, usedInvite>>
    BY <1>1 DEF PutRows
  <2> QED
    BY <2>1, InitiatorKeeps
<1>2. CASE OpenOwn
  <2>1. TypeOK' /\ AddInv' /\ UNCHANGED <<drop, jVars, usedInvite>>
    BY <1>2 DEF OpenOwn
  <2> QED
    BY <2>1, InitiatorKeeps
<1>3. CASE FinishAdd
  <2>1. TypeOK' /\ AddInv' /\ UNCHANGED <<drop, jVars, usedInvite>>
    BY <1>3 DEF FinishAdd
  <2> QED
    BY <2>1, InitiatorKeeps
<1>4. CASE OtherCall
  <2>1. TypeOK' /\ AddInv' /\ UNCHANGED <<drop, jVars, usedInvite>>
    BY <1>4 DEF OtherCall
  <2> QED
    BY <2>1, InitiatorKeeps
<1>5. CASE InitiatorRestart
  <2>1. TypeOK' /\ AddInv' /\ UNCHANGED <<drop, jVars, usedInvite>>
    BY <1>5 DEF InitiatorRestart
  <2> QED
    BY <2>1, InitiatorKeeps
<1> QED
  BY <1>1, <1>2, <1>3, <1>4, <1>5

\* The relay may accept a letter about the conversation being added.
LEMMA PostsKeep ==
  ASSUME IInv, PostWelcome \/ PostHello
  PROVE  IInv'
<1>1. PICK l \in Letter :
        /\ UNCHANGED drop \/ Drop!Submit(l)
        /\ UNCHANGED jVars
        /\ UNCHANGED <<offered, savedGroups, groups, live, usedInvite, added>>
        /\ l.conv \in offered /\ usedInvite[l.conv] \in codes
        /\ l.kind = "Hello" => Welcome(l.conv) \in posted
        /\ \/ addStep' = "idle" /\ adding' = Nothing
           \/ /\ adding' = adding
              /\ \/ addStep = "welcome" /\ addStep' = "open" /\ Welcome(adding) \in posted'
                 \/ addStep = "hello" /\ addStep' = "save"
  <2>1. addStep \in {"welcome", "hello"} => adding \in Conv
    BY PairingAssumption DEF IInv, TypeOK, AddInv
  <2>2. CASE PostWelcome
    <3>1. Welcome(adding) \in Letter /\ Welcome(adding).conv = adding
      BY <2>1, <2>2, Letters DEF PostWelcome
    <3>2. Welcome(adding).kind # "Hello"
      BY DEF Welcome
    <3> USE <3>1
    <3> WITNESS Welcome(adding) \in Letter
    <3> QED
      BY <2>2, <3>1, <3>2
      DEF PostWelcome, Posted, Failed, IInv, AddInv, Drop!Submit
  <2>3. CASE PostHello
    <3>1. Hello(adding) \in Letter /\ Hello(adding).conv = adding
      BY <2>1, <2>3, Letters DEF PostHello
    <3> USE <3>1
    <3> WITNESS Hello(adding) \in Letter
    <3> QED
      BY <2>3, <3>1 DEF PostHello, Posted, Failed, IInv, AddInv
  <2> QED
    BY <2>2, <2>3
<1>2. /\ posted \subseteq posted' /\ posted' \subseteq posted \cup {l}
      /\ waiting' \subseteq posted' /\ erased' = erased
  BY <1>1 DEF Drop!Submit, drop, IInv, TypeOK
<1>3. TypeOK'
  BY <1>1, <1>2 DEF IInv, TypeOK, jVars
<1>4. AddInv'
  <2>1. \A c \in Conv :
          /\ Welcome(c) \in posted' => c \in offered /\ usedInvite[c] \in codes
          /\ Hello(c) \in posted' => Welcome(c) \in posted'
    BY <1>1, <1>2, Letters DEF IInv, AddInv
  <2>2. codes' = codes
    BY <1>1 DEF jVars
  <2>3. \A c : Welcome(c)' = Welcome(c) /\ Hello(c)' = Hello(c)
    BY DEF Welcome, Hello
  <2> QED
    BY <1>1, <1>2, <2>1, <2>2, <2>3 DEF IInv, AddInv, Welcome, Hello
<1>5. JoinInv' /\ KeyInv'
  BY <1>1 DEF IInv, JoinInv, KeyInv, jVars
<1>6. LetterInv' /\ ReadInv'
  BY <1>1, <1>2 DEF IInv, LetterInv, ReadInv, jVars, WelcomesFirst, Welcome, Hello
<1> QED
  BY <1>3, <1>4, <1>5, <1>6 DEF IInv

----------------------------------------------------------------------------

\* What the joiner's own steps cannot disturb, unless they hand out an invite.
LEMMA AddElsewhere ==
  ASSUME AddInv, UNCHANGED <<iVars, posted, codes>>
  PROVE  AddInv'
BY DEF AddInv, iVars, Welcome, Hello

LEMMA InviteKeeps ==
  ASSUME IInv, NEW i \in Invite, InviteCode(i)
  PROVE  IInv'
<1> USE DEF InviteCode, drop, iVars
<1>1. /\ provider' = saved' /\ provider'.packages = provider.packages \cup {i}
      /\ provider'.groups = provider.groups /\ provider'.heard = provider.heard
      /\ provider' \in Provider
  BY DEF IInv, TypeOK, Provider
<1>2. provider.groups = saved.groups
  BY DEF IInv, JoinInv, TypeOK, Provider
<1>3. TypeOK'
  BY <1>1 DEF IInv, TypeOK
<1>4. AddInv'
  BY DEF IInv, AddInv, Welcome, Hello
<1>5. JoinInv' /\ KeyInv'
  BY <1>1, <1>2 DEF IInv, JoinInv, KeyInv
<1>6. LetterInv' /\ ReadInv'
  BY <1>1, <1>2 DEF IInv, LetterInv, ReadInv, WelcomesFirst, Welcome, Hello
<1> QED
  BY <1>3, <1>4, <1>5, <1>6 DEF IInv

LEMMA CollectKeeps == ASSUME IInv, Collect PROVE IInv'
<1> USE DEF Collect, drop
<1>1. TypeOK'
  BY DEF IInv, TypeOK, iVars
<1>2. AddInv'
  BY AddElsewhere DEF IInv
<1>3. JoinInv' /\ KeyInv'
  BY DEF IInv, JoinInv, KeyInv, iVars
<1>4. LetterInv' /\ ReadInv'
  BY DEF IInv, LetterInv, ReadInv, WelcomesFirst, Welcome, Hello
<1> QED
  BY <1>1, <1>2, <1>3, <1>4 DEF IInv

\* A Welcome joined is one whose Hello has not been dealt with: its key
\* package would be gone.
LEMMA JoinKeeps ==
  ASSUME IInv, NEW l \in batch, Join(l)
  PROVE  IInv'
<1> USE DEF Join, drop
<1> DEFINE c == l.conv
<1>1. l \in posted /\ c \in Conv /\ l = Welcome(c) /\ l # Nothing
  BY Letters, PairingAssumption DEF IInv, TypeOK, JoinInv
<1>2. /\ provider' \in Provider
      /\ provider'.packages = provider.packages \ {usedInvite[c]}
      /\ provider'.groups = provider.groups \cup {c}
      /\ provider'.heard = provider.heard
  BY <1>1 DEF IInv, TypeOK, Provider
<1>3. c \notin provider.groups /\ c \notin saved.groups
  BY DEF IInv, KeyInv, JoinInv
<1>4. TypeOK'
  BY <1>1, <1>2 DEF IInv, TypeOK, iVars
<1>5. AddInv'
  BY AddElsewhere DEF IInv
<1>6. JoinInv'
  BY <1>1, <1>2, <1>3, PairingAssumption DEF IInv, JoinInv
<1>7. KeyInv'
  <2>1. usedInvite[c] \in codes
    BY <1>1 DEF IInv, AddInv
  <2> QED
    BY <1>2, <2>1 DEF IInv, KeyInv, iVars
<1>8. LetterInv'
  <2>1. Hello(c) \notin handled \cup erased
    BY <1>1, <1>3 DEF IInv, LetterInv
  <2>2. Welcome(c) \in posted
    BY <1>1
  <2> QED
    BY <1>1, <2>1, <2>2 DEF IInv, LetterInv, Welcome, Hello
<1>9. ReadInv'
  <2>1. ~WelcomesFirst
    BY DEF WelcomesFirst
  <2>2. \A d \in Conv : Hello(d) # l
    BY <1>1, Letters
  <2> QED
    BY <1>2, <2>1, <2>2 DEF IInv, ReadInv, Hello
<1> QED
  BY <1>4, <1>5, <1>6, <1>7, <1>8, <1>9 DEF IInv

LEMMA PutRowKeeps == ASSUME IInv, PutRow PROVE IInv'
<1> USE DEF PutRow, drop
<1>1. joining # Nothing /\ joining.conv \in Conv
  BY Letters DEF IInv, JoinInv, TypeOK
<1>2. TypeOK'
  BY <1>1 DEF IInv, TypeOK, iVars
<1>3. AddInv'
  BY AddElsewhere DEF IInv
<1>4. JoinInv' /\ KeyInv'
  BY <1>1 DEF IInv, JoinInv, KeyInv, iVars
<1>5. LetterInv' /\ ReadInv'
  BY DEF IInv, LetterInv, ReadInv, WelcomesFirst, Welcome, Hello
<1> QED
  BY <1>2, <1>3, <1>4, <1>5 DEF IInv

LEMMA SaveJoinKeeps == ASSUME IInv, SaveJoin PROVE IInv'
<1> USE DEF SaveJoin, SavedAfterJoin, drop
<1> DEFINE c == joining.conv
<1>1. /\ joining \in posted /\ c \in Conv /\ joining = Welcome(c)
      /\ c \in provider.groups \ saved.groups /\ c \in opened
  BY Letters DEF IInv, JoinInv, TypeOK
<1>2. provider.groups = saved.groups \cup {c}
  BY <1>1 DEF IInv, JoinInv, TypeOK, Provider
<1>3. TypeOK'
  BY <1>1, <1>2 DEF IInv, TypeOK, JoinInv, iVars
<1>4. AddInv'
  BY AddElsewhere DEF IInv
<1>5. JoinInv'
  BY <1>1, <1>2, PairingAssumption DEF IInv, JoinInv, TypeOK
<1>6. KeyInv'
  BY DEF IInv, KeyInv, iVars
<1>7. LetterInv'
  <2>1. Hello(c) \notin handled \cup erased
    BY <1>1 DEF IInv, LetterInv
  <2>2. \A d \in Conv : Hello(d) \notin {joining}
    BY <1>1, Letters
  <2>3. \A d \in Conv : Welcome(d) = joining => d = c
    BY <1>1, Letters
  <2> QED
    BY <1>1, <1>2, <2>1, <2>2, <2>3 DEF IInv, LetterInv, TypeOK, Welcome, Hello
<1>8. ReadInv'
  BY DEF IInv, ReadInv, Hello
<1> QED
  BY <1>3, <1>4, <1>5, <1>6, <1>7, <1>8 DEF IInv

LEMMA ReadHelloKeeps ==
  ASSUME IInv, NEW l \in batch, ReadHello(l)
  PROVE  IInv'
<1> USE DEF ReadHello, InboxAfterHello, ReplyAfterHello, Decrypts, drop
<1> DEFINE c == l.conv
<1>1. l \in posted /\ c \in Conv /\ l = Hello(c)
  BY Letters DEF IInv, TypeOK
<1>2. /\ provider' \in Provider
      /\ provider'.packages = provider.packages
      /\ provider'.groups = provider.groups
      /\ provider'.heard = provider.heard \cup {c}
  BY <1>1 DEF IInv, TypeOK, Provider
<1>3. TypeOK'
  BY <1>1, <1>2 DEF IInv, TypeOK, iVars
<1>4. AddInv'
  BY AddElsewhere DEF IInv
<1>5. JoinInv'
  BY <1>1, <1>2, PairingAssumption DEF IInv, JoinInv, TypeOK
<1>6. KeyInv'
  BY <1>2 DEF IInv, KeyInv, iVars
<1>7. LetterInv'
  <2>1. c \in saved.groups
    BY <1>1 DEF IInv, JoinInv
  <2>2. \A d \in Conv : Welcome(d) # l /\ (Hello(d) = l => d = c)
    BY <1>1, Letters
  <2> QED
    BY <1>1, <2>1, <2>2, PairingAssumption DEF IInv, LetterInv, TypeOK, Welcome, Hello
<1>8. ReadInv'
  <2>1. \A d \in Conv : Hello(d) = l => d = c
    BY <1>1, Letters
  <2> QED
    BY <1>2, <2>1 DEF IInv, ReadInv, WelcomesFirst, Hello
<1> QED
  BY <1>3, <1>4, <1>5, <1>6, <1>7, <1>8 DEF IInv

LEMMA SkipKeeps ==
  ASSUME IInv, NEW l \in batch, Skip(l)
  PROVE  IInv'
<1> USE DEF Skip, drop
<1>1. l \in posted /\ l.conv \in Conv
  BY Letters DEF IInv, TypeOK
<1>2. TypeOK'
  BY DEF IInv, TypeOK, iVars
<1>3. AddInv'
  BY AddElsewhere DEF IInv
<1>4. JoinInv' /\ KeyInv' /\ LetterInv'
  BY DEF IInv, JoinInv, KeyInv, LetterInv, iVars, Welcome, Hello
<1>5. ReadInv'
  <2>1. CASE l.kind = "Welcome"
    <3>1. \A d \in Conv : Hello(d) # l
      BY <2>1, Letters
    <3> QED
      BY <3>1 DEF IInv, ReadInv, WelcomesFirst, Hello
  <2>2. CASE l.kind = "Hello" /\ WelcomesFirst /\ ~Decrypts(l.conv)
    <3>1. \A d \in Conv : Hello(d) = l => d = l.conv
      BY <1>1, Letters
    <3>2. l.conv \in provider.heard \/ l.conv \notin provider.groups
      BY <1>1, <2>2 DEF IInv, JoinInv, Decrypts
    <3>3. WelcomesFirst'
      BY <2>2 DEF WelcomesFirst
    <3> QED
      BY <3>1, <3>2, <3>3 DEF IInv, ReadInv, WelcomesFirst, Hello
  <2> QED
    BY <2>1, <2>2
<1> QED
  BY <1>2, <1>3, <1>4, <1>5 DEF IInv

LEMMA AckKeeps == ASSUME IInv, Ack PROVE IInv'
<1> USE DEF Ack
<1>1. /\ posted' = posted /\ waiting' \subseteq waiting
      /\ erased \subseteq erased' /\ erased' \subseteq erased \cup handled
      /\ handled' \subseteq handled
  BY DEF Drop!Acknowledge, drop
<1>2. TypeOK'
  BY <1>1 DEF IInv, TypeOK, iVars
<1>3. AddInv'
  BY <1>1, AddElsewhere DEF IInv
<1>4. JoinInv' /\ KeyInv'
  BY DEF IInv, JoinInv, KeyInv, iVars
<1>5. LetterInv' /\ ReadInv'
  BY <1>1 DEF IInv, LetterInv, ReadInv, Welcome, Hello
<1> QED
  BY <1>2, <1>3, <1>4, <1>5 DEF IInv

LEMMA PersistKeeps == ASSUME IInv, Persist PROVE IInv'
<1> USE DEF Persist, drop
<1>1. provider.groups = saved.groups
  BY DEF IInv, JoinInv, TypeOK, Provider
<1>2. TypeOK'
  BY DEF IInv, TypeOK, iVars
<1>3. AddInv'
  BY AddElsewhere DEF IInv
<1>4. JoinInv' /\ KeyInv'
  BY <1>1 DEF IInv, JoinInv, KeyInv, iVars
<1>5. LetterInv' /\ ReadInv'
  BY <1>1 DEF IInv, LetterInv, ReadInv, Welcome, Hello
<1> QED
  BY <1>2, <1>3, <1>4, <1>5 DEF IInv

LEMMA JoinerRestartKeeps == ASSUME IInv, JoinerRestart PROVE IInv'
<1> USE DEF JoinerRestart, Reloaded, drop
<1>1. \A c \in Conv :
        replyTo'[c] = IF c \in saved.groups THEN contactInbox ELSE Nothing
  BY DEF IInv, JoinInv
<1>2. TypeOK'
  BY <1>1 DEF IInv, TypeOK, JoinInv, iVars
<1>3. AddInv'
  BY AddElsewhere DEF IInv
<1>4. JoinInv' /\ KeyInv'
  BY <1>1 DEF IInv, TypeOK, JoinInv, KeyInv, Provider, iVars
<1>5. LetterInv' /\ ReadInv'
  BY <1>1 DEF IInv, TypeOK, LetterInv, ReadInv, Welcome, Hello
<1> QED
  BY <1>2, <1>3, <1>4, <1>5 DEF IInv

LEMMA ExpireKeeps == ASSUME IInv, RelayExpires PROVE IInv'
<1>1. posted' = posted /\ erased' = erased /\ waiting' \subseteq waiting
  BY DEF RelayExpires, Drop!Expire
<1>2. UNCHANGED <<iVars, jVars>>
  BY DEF RelayExpires
<1>3. TypeOK'
  BY <1>1, <1>2 DEF IInv, TypeOK, iVars, jVars
<1>4. AddInv'
  BY <1>1, <1>2, AddElsewhere DEF IInv, jVars
<1>5. JoinInv' /\ KeyInv' /\ LetterInv' /\ ReadInv'
  BY <1>1, <1>2
  DEF IInv, JoinInv, KeyInv, LetterInv, ReadInv, WelcomesFirst, iVars, jVars,
      Welcome, Hello
<1> QED
  BY <1>3, <1>4, <1>5 DEF IInv

LEMMA StepOK == IInv /\ [Next]_vars => IInv'
<1> SUFFICES ASSUME IInv, [Next]_vars PROVE IInv'
  OBVIOUS
<1>1. CASE UNCHANGED vars
  <2>1. UNCHANGED <<drop, jVars>> /\ UNCHANGED iVars
    BY <1>1 DEF vars
  <2>2. TypeOK' /\ AddInv'
    BY <2>1 DEF IInv, TypeOK, AddInv, iVars, jVars, drop, Welcome, Hello
  <2> QED
    BY <2>1, <2>2, InitiatorKeeps DEF iVars
<1>2. CASE Next
  BY <1>2, AddKeeps, OwnStepsKeep, PostsKeep, InviteKeeps, CollectKeeps, JoinKeeps,
     PutRowKeeps, SaveJoinKeeps, ReadHelloKeeps, SkipKeeps, AckKeeps, PersistKeeps,
     JoinerRestartKeeps, ExpireKeeps DEF Next
<1> QED
  BY <1>1, <1>2

LEMMA Invariance == Spec => []IInv
<1> QED
  BY InitOK, StepOK, PTL DEF Spec

----------------------------------------------------------------------------

\* Whatever Init and Next reach, in any interleaving of the two processes with
\* lost answers, expired letters and restarts, has the types of the model.
THEOREM TypeCorrect == Spec => []TypeOK
<1>1. IInv => TypeOK
  BY DEF IInv
<1> QED
  BY Invariance, <1>1, PTL

\* What add_contact (core/src/api/contacts.rs) answered Ok for survives every
\* restart: rows, group and entry in the map.
THEOREM AddedStaysDurable == Spec => []AddedIsDurable
<1>1. IInv => AddedIsDurable
  BY DEF IInv, AddInv, AddedIsDurable
<1> QED
  BY Invariance, <1>1, PTL

\* A Welcome the relay erased for receive_messages is a conversation on disk:
\* try_join persists before its blob can be acknowledged.
THEOREM OpenedStaysDurable == Spec => []OpenedIsDurable
<1>1. IInv => OpenedIsDurable
  BY DEF IInv, TypeOK, JoinInv, LetterInv, OpenedIsDurable
<1> QED
  BY Invariance, <1>1, PTL

\* A blank contacts.inbox_id always has a Hello that has not been dealt with:
\* no Welcome blanks the row after the last Hello.
THEOREM AddressGetsLearned == Spec => []AddressIsLearned
<1>1. IInv => AddressIsLearned
  BY DEF IInv, LetterInv, AddressIsLearned
<1> QED
  BY Invariance, <1>1, PTL

\* set_peer reaches the conversation whose Hello was acknowledged, so replies
\* in it have an address until the process restarts on a blank row.
THEOREM HeardIsAnswered == Spec => []HeardIsAddressed
<1>1. IInv => HeardIsAddressed
  BY DEF IInv, LetterInv, HeardIsAddressed
<1> QED
  BY Invariance, <1>1, PTL

\* receive_messages reads every Hello it collected whose conversation is open
\* when the poll ends, whatever order the relay returned the letters in.
THEOREM OnePollIsEnough == Spec => []OnePollSuffices
<1>1. IInv => OnePollSuffices
  <2> SUFFICES ASSUME IInv, step = "read", batch = {},
                      NEW c \in provider.groups, Hello(c) \in collected
               PROVE  c \in provider.heard
    BY DEF OnePollSuffices
  <2>1. c \in Conv
    BY DEF IInv, TypeOK, Provider
  <2> QED
    BY <2>1 DEF IInv, ReadInv
<1> QED
  BY Invariance, <1>1, PTL

\* A conversation is offered before it is opened, and opened before its Hello
\* is dealt with, and none of it is taken back.
THEOREM IntroductionIsImplemented == Spec => ImplementsIntroduction
<1> DEFINE heard == {c \in Conv : Hello(c) \in erased}
<1>1. Init => Intro!Init
  BY DEF Init, Drop!Init, Intro!Init
<1>2. IInv /\ [Next]_vars => [Intro!Next]_<<offered, opened, heard>>
  <2> SUFFICES ASSUME IInv, [Next]_vars
               PROVE  Intro!Next \/ UNCHANGED <<offered, opened, heard>>
    OBVIOUS
  <2> USE DEF Hello
  <2>1. CASE PutRows
    <3>1. adding \in Conv
      BY <2>1, PairingAssumption DEF PutRows, IInv, TypeOK, AddInv
    <3>2. Intro!Offer(adding)
      BY <2>1 DEF PutRows, Intro!Offer, drop, jVars
    <3> QED
      BY <3>1, <3>2 DEF Intro!Next
  <2>2. CASE PutRow
    <3>1. joining.conv \in Conv /\ joining = Welcome(joining.conv)
      BY <2>2, Letters DEF PutRow, IInv, TypeOK, JoinInv
    <3>2. joining.conv \in offered
      BY <2>2, <3>1 DEF PutRow, IInv, TypeOK, JoinInv, AddInv
    <3>3. Intro!Open(joining.conv)
      BY <2>2, <3>2 DEF PutRow, Intro!Open, drop, iVars
    <3> QED
      BY <3>1, <3>3 DEF Intro!Next
  <2>3. CASE Ack
    <3> DEFINE some == {c \in Conv : Hello(c) \in handled}
    <3>1. UNCHANGED <<offered, opened>> /\ erased' \in {erased, erased \cup handled}
      BY <2>3 DEF Ack, Drop!Acknowledge, drop, iVars
    <3>2. CASE erased' = erased
      BY <3>1, <3>2
    <3>3. CASE erased' = erased \cup handled
      <4>1. some \subseteq opened
        BY DEF IInv, LetterInv, JoinInv
      <4>2. heard' = heard \cup some
        BY <3>3
      <4>3. \E s \in SUBSET Conv :
              s \subseteq opened /\ heard' = heard \cup s /\ UNCHANGED <<offered, opened>>
        <5>1. some \in SUBSET Conv
          OBVIOUS
        <5> HIDE DEF some, heard
        <5> QED
          BY <3>1, <4>1, <4>2, <5>1
      <4> QED
        BY <4>3 DEF Intro!Next, Intro!Hear
    <3> QED
      BY <3>1, <3>2, <3>3
  <2>4. CASE PostWelcome \/ PostHello
    <3>1. UNCHANGED <<offered, opened, erased>>
      BY <2>4
      DEF PostWelcome, PostHello, Posted, Failed, Drop!Submit, drop, jVars
    <3> QED
      BY <3>1
  <2>5. CASE \/ \E c \in Conv, i \in Invite : Add(c, i)
             \/ OpenOwn \/ FinishAdd \/ OtherCall \/ InitiatorRestart
    <3>1. UNCHANGED <<offered, opened, erased>>
      BY <2>5 DEF Add, OpenOwn, FinishAdd, OtherCall, InitiatorRestart, drop, jVars
    <3> QED
      BY <3>1
  <2>6. CASE \/ \E i \in Invite : InviteCode(i)
             \/ \E l \in batch : Join(l) \/ ReadHello(l) \/ Skip(l)
             \/ Collect \/ SaveJoin \/ Persist \/ JoinerRestart
    <3>1. UNCHANGED <<offered, opened, erased>>
      BY <2>6 DEF InviteCode, Join, ReadHello, Skip, Collect, SaveJoin, Persist,
                  JoinerRestart, drop, iVars
    <3> QED
      BY <3>1
  <2>7. CASE RelayExpires \/ UNCHANGED vars
    <3>1. UNCHANGED <<offered, opened, erased>>
      BY <2>7 DEF RelayExpires, Drop!Expire, vars, iVars, drop, jVars
    <3> QED
      BY <3>1
  <2> QED
    BY <2>1, <2>2, <2>3, <2>4, <2>5, <2>6, <2>7 DEF Next
<1> QED
  BY Invariance, <1>1, <1>2, PTL DEF Spec, ImplementsIntroduction, Intro!Spec

\* Nor does either client or the inbox between them go beyond the contract of
\* the relay.
THEOREM PairingKeepsToMailDrop == Spec => Drop!Spec
<1>1. Init => Drop!Init
  BY DEF Init
<1>2. IInv /\ [Next]_vars => [Drop!Next]_<<posted, waiting, erased>>
  <2> SUFFICES ASSUME IInv, [Next]_vars
               PROVE  [Drop!Next]_<<posted, waiting, erased>>
    OBVIOUS
  <2>1. CASE PostWelcome \/ PostHello
    <3>1. PICK l \in {Welcome(adding), Hello(adding)} : UNCHANGED drop \/ Drop!Submit(l)
      BY <2>1 DEF PostWelcome, PostHello, Posted, Failed
    <3>2. adding \in Conv
      BY <2>1, PairingAssumption
      DEF PostWelcome, PostHello, IInv, TypeOK, AddInv
    <3>3. l \in Letter
      BY <3>2, Letters
    <3> QED
      BY <3>1, <3>3 DEF Drop!Next, drop
  <2>2. CASE Ack
    <3>1. handled \in SUBSET Letter
      BY DEF IInv, TypeOK
    <3> QED
      BY <2>2, <3>1 DEF Ack, Drop!Next, drop
  <2>3. CASE RelayExpires
    <3>1. PICK l \in waiting : Drop!Expire({l})
      BY <2>3 DEF RelayExpires
    <3>2. {l} \in SUBSET Letter
      BY DEF IInv, TypeOK
    <3> QED
      BY <3>1, <3>2 DEF Drop!Next
  <2> QED
    BY <2>1, <2>2, <2>3
    DEF Next, Add, PutRows, OpenOwn, FinishAdd, OtherCall, InitiatorRestart,
        InviteCode, Collect, Join, ReadHello, Skip, PutRow, SaveJoin, Persist,
        JoinerRestart, vars, drop
<1> QED
  BY Invariance, <1>1, <1>2, PTL DEF Spec, Drop!Spec

=============================================================================
