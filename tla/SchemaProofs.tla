---------------------------- MODULE SchemaProofs ---------------------------
(***************************************************************************)
(* For any number of openers and of faults: the version on the file and    *)
(* the stores handed out never run ahead of what the migrations created.   *)
(***************************************************************************)
EXTENDS Schema, TLAPS

\* The statements an opener has behind it took effect, and still do: nothing
\* drops a table, so the work of a stopped opener counts for the next.
DoneSoFar ==
  /\ \A o \in Opener, i \in 1..V2 : step[o] > i => Script[i].name \in objects
  /\ \A o \in Opener : step[o] >= Stamp => hasColumn

\* Nothing on the file claims more than is there.
Earned == version = SCHEMA_VERSION => objects = Everything /\ hasColumn

IInv == TypeOK /\ DoneSoFar /\ Earned

USE DEF V1, V2, Look, Alter, Stamp, Open, Closed, SCHEMA_VERSION

----------------------------------------------------------------------------

\* The name of every statement is the name of an object of the schema.
LEMMA ScriptNames == \A i \in 1..V2 : Script[i].name \in Everything
  BY DEF Everything

\* An opener past the script has the whole schema behind it.
LEMMA PastTheScript ==
  ASSUME IInv, NEW o \in Opener, step[o] >= Stamp
  PROVE  objects = Everything /\ hasColumn
<1>1. \A i \in 1..V2 : Script[i].name \in objects
  <2>1. TAKE i \in 1..V2
  <2>2. step[o] > i
    BY DEF IInv, TypeOK
  <2>3. QED
    BY <2>2 DEF IInv, DoneSoFar
<1>2. Everything \subseteq objects
  BY <1>1 DEF Everything
<1>3. hasColumn
  BY DEF IInv, DoneSoFar
<1>4. QED
  BY <1>2, <1>3 DEF IInv, TypeOK

\* migrate() starts where everything before is there already.
LEMMA FirstIsSafe ==
  ASSUME IInv, NEW seen \in {version, 0}
  PROVE  /\ First(seen) \in {1, Stamp}
         /\ First(seen) = Stamp => objects = Everything /\ hasColumn
BY DEF IInv, TypeOK, Earned, First

----------------------------------------------------------------------------

THEOREM TypeAndWork == Spec => []IInv
<1>1. Init => IInv
  <2> SUFFICES ASSUME Init PROVE IInv
    OBVIOUS
  <2>1. Phase1 \subseteq Everything
    BY DEF Phase1, Everything
  <2>2. TypeOK
    <3>1. step \in [Opener -> 0..Open]
      BY DEF Init
    <3>2. objects \subseteq Everything
      BY <2>1 DEF Init
    <3>3. version \in {0, SCHEMA_VERSION} /\ hasColumn \in BOOLEAN /\ faults \in Nat
      BY DEF Init
    <3>4. QED
      BY <3>1, <3>2, <3>3 DEF TypeOK
  <2>3. DoneSoFar
    BY DEF Init, DoneSoFar
  <2>4. Earned
    BY DEF Init, Earned
  <2>5. QED
    BY <2>2, <2>3, <2>4 DEF IInv
<1>2. IInv /\ [Next]_vars => IInv'
  <2> SUFFICES ASSUME IInv, [Next]_vars PROVE IInv'
    OBVIOUS
  <2> USE DEF IInv
  <2>1. ASSUME NEW o \in Opener, Begin(o) PROVE IInv'
    <3>1. PICK seen \in {version, 0} : step' = [step EXCEPT ![o] = First(seen)]
      BY <2>1 DEF Begin
    <3>2. /\ First(seen) \in {1, Stamp}
          /\ First(seen) = Stamp => objects = Everything /\ hasColumn
      BY FirstIsSafe
    <3>3. UNCHANGED <<version, objects, hasColumn, faults>>
      BY <2>1 DEF Begin
    <3>4. TypeOK'
      BY <3>1, <3>2, <3>3 DEF TypeOK
    <3>5. DoneSoFar'
      BY <3>1, <3>2, <3>3, ScriptNames DEF DoneSoFar, TypeOK
    <3>6. Earned'
      BY <3>3 DEF Earned
    <3>7. QED
      BY <3>4, <3>5, <3>6
  <2>2. ASSUME NEW o \in Opener, Create(o) PROVE IInv'
    <3> DEFINE s == Script[step[o]]
    <3>1. s.name \in Everything
      BY <2>2, ScriptNames DEF Create
    <3>2. CASE Creates(s)
      <4>1. /\ objects' = objects \cup {s.name}
            /\ step' = [step EXCEPT ![o] = @ + 1]
            /\ UNCHANGED <<version, hasColumn, faults>>
            /\ step[o] \in 1..V2
        BY <2>2, <3>2 DEF Create
      <4>2. TypeOK'
        BY <4>1, <3>1 DEF TypeOK
      <4>3. \A i \in 1..V2 : step'[o] > i => Script[i].name \in objects'
        <5>1. TAKE i \in 1..V2
        <5>2. CASE i = step[o]
          BY <4>1, <5>2
        <5>3. CASE i # step[o]
          BY <4>1, <5>3 DEF DoneSoFar, TypeOK
        <5>4. QED
          BY <5>2, <5>3
      <4>4. DoneSoFar'
        BY <4>1, <4>3 DEF DoneSoFar, TypeOK
      <4>5. Earned'
        BY <4>1, <3>1 DEF Earned
      <4>6. QED
        BY <4>2, <4>4, <4>5
    <3>3. CASE ~Creates(s)
      <4>1. /\ step' = [step EXCEPT ![o] = Closed]
            /\ UNCHANGED <<version, objects, hasColumn, faults>>
        BY <2>2, <3>3 DEF Create
      <4>2. QED
        BY <4>1 DEF TypeOK, DoneSoFar, Earned
    <3>4. QED
      BY <3>2, <3>3
  <2>3. ASSUME NEW o \in Opener, LookForColumn(o) PROVE IInv'
    <3>1. /\ step[o] = Look
          /\ step' = [step EXCEPT ![o] = IF hasColumn THEN Stamp ELSE Alter]
          /\ UNCHANGED <<version, objects, hasColumn, faults>>
      BY <2>3 DEF LookForColumn, Missing
    <3>2. TypeOK' /\ Earned'
      BY <3>1 DEF TypeOK, Earned
    <3>3. DoneSoFar'
      BY <3>1 DEF DoneSoFar, TypeOK
    <3>4. QED
      BY <3>2, <3>3
  <2>4. ASSUME NEW o \in Opener, AddColumn(o) PROVE IInv'
    <3>1. /\ step[o] = Alter
          /\ \/ hasColumn' = TRUE /\ step' = [step EXCEPT ![o] = Stamp]
             \/ hasColumn' = hasColumn /\ step' = [step EXCEPT ![o] = Closed]
          /\ UNCHANGED <<version, objects, faults>>
      BY <2>4 DEF AddColumn
    <3>2. TypeOK'
      <4>1. step' \in [Opener -> 0..Open]
        BY <3>1 DEF TypeOK
      <4>2. hasColumn' \in BOOLEAN
        BY <3>1 DEF TypeOK
      <4>3. QED
        BY <3>1, <4>1, <4>2 DEF TypeOK
    <3>3. Earned'
      BY <3>1 DEF Earned
    <3>4. DoneSoFar'
      BY <3>1 DEF DoneSoFar, TypeOK
    <3>5. QED
      BY <3>2, <3>3, <3>4
  <2>5. ASSUME NEW o \in Opener, SetVersion(o) PROVE IInv'
    <3>1. objects = Everything /\ hasColumn
      BY <2>5, PastTheScript DEF SetVersion
    <3>2. /\ version' = 2
          /\ step' = [step EXCEPT ![o] = Open]
          /\ UNCHANGED <<objects, hasColumn, faults>>
      BY <2>5 DEF SetVersion
    <3>3. TypeOK' /\ Earned'
      BY <3>1, <3>2 DEF TypeOK, Earned
    <3>4. DoneSoFar'
      BY <3>1, <3>2, ScriptNames DEF DoneSoFar, TypeOK
    <3>5. QED
      BY <3>3, <3>4
  <2>6. ASSUME NEW o \in Opener, Fault(o) \/ Close(o) PROVE IInv'
    <3>1. /\ step' = [step EXCEPT ![o] = Closed]
          /\ faults' \in {faults, faults + 1}
          /\ UNCHANGED <<version, objects, hasColumn>>
      BY <2>6 DEF Fault, Close
    <3>2. QED
      BY <3>1 DEF TypeOK, DoneSoFar, Earned
  <2>7. CASE UNCHANGED vars
    BY <2>7 DEF vars, TypeOK, DoneSoFar, Earned
  <2>8. QED
    BY <2>1, <2>2, <2>3, <2>4, <2>5, <2>6, <2>7 DEF Next, Migrate
<1>3. QED
  BY <1>1, <1>2, PTL DEF Spec

\* The version, the objects and the openers' steps keep their types.
THEOREM TypeCorrect == Spec => []TypeOK
BY TypeAndWork, PTL DEF IInv

\* schema.rs:35: user_version is earned, and so is every open store, for any
\* number of openers that race, stop and fail anywhere.
THEOREM OpenedStaysWhole == Spec => []OpenedIsWhole
<1>1. IInv => OpenedIsWhole
  <2> SUFFICES ASSUME IInv PROVE OpenedIsWhole
    OBVIOUS
  <2>1. CASE version = SCHEMA_VERSION
    BY <2>1 DEF IInv, Earned, OpenedIsWhole
  <2>2. ASSUME NEW o \in Opener, step[o] = Open PROVE OpenedIsWhole
    BY <2>2, PastTheScript DEF OpenedIsWhole
  <2>3. QED
    BY <2>1, <2>2 DEF OpenedIsWhole
<1>2. QED
  BY <1>1, TypeAndWork, PTL

=============================================================================
