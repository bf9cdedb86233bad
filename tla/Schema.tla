------------------------------- MODULE Schema ------------------------------
(***************************************************************************)
(* The migrations of core/src/storage/schema.rs: what LocalStore::open     *)
(* runs on a database before it hands the store out.                       *)
(*                                                                         *)
(* Every statement is durable on its own (there is no transaction around a *)
(* migration), so an opener may stop, or a statement may fail, after any   *)
(* of them, and several openers (command line processes, the desktop) may  *)
(* be migrating the same file.  A database starts empty or as Phase 1 left *)
(* it: the first five tables, their index, and user_version 0.             *)
(*                                                                         *)
(* The columns of a CREATE are fixed by its text; the one column added     *)
(* later is kept apart.  Rows are not modelled: no statement touches them. *)
(***************************************************************************)
EXTENDS Integers

CONSTANTS
  Opener,    \* connections that open the database
  MaxFaults  \* bound: stops and failed statements

ASSUME SchemaAssumption == MaxFaults \in Nat

VARIABLES
  version,     \* PRAGMA user_version
  objects,     \* tables and indexes that exist
  hasColumn,   \* conversations has disappear_after
  step,        \* per opener: its next statement
  faults       \* bound: faults so far

vars == <<version, objects, hasColumn, step, faults>>

SCHEMA_VERSION == 2

\* The statements of the two batches, each with the table its index is on.
Script ==
  << [name |-> "identity",              on |-> {}],
     [name |-> "mls_state",             on |-> {}],
     [name |-> "contacts",              on |-> {}],
     [name |-> "conversations",         on |-> {}],
     [name |-> "messages",              on |-> {}],
     [name |-> "messages_conversation", on |-> {"messages"}],
     [name |-> "settings",              on |-> {}],
     [name |-> "identity_changes",      on |-> {}],
     [name |-> "outbox",                on |-> {}],
     [name |-> "outbox_order",          on |-> {"outbox"}] >>

\* The last statement of migrate_to_v1 and of migrate_to_v2.
V1 == 6
V2 == 10

Phase1 == {Script[i].name : i \in 1..V1}
Everything == {Script[i].name : i \in 1..V2}

\* The steps of an opener: a statement of the script, then these.
Look    == V2 + 1  \* PRAGMA table_info
Alter   == V2 + 2  \* ALTER TABLE, the column was missing
Stamp   == V2 + 3  \* PRAGMA user_version = 2
Open    == V2 + 4  \* open answered Ok
Closed  == 0       \* not begun, or ended with an error

Init ==
  /\ version = 0
  /\ objects \in {{}, Phase1}
  /\ hasColumn = FALSE
  /\ step = [o \in Opener |-> Closed]
  /\ faults = 0

----------------------------------------------------------------------------

\* Faulty variants: a file that has the first table is taken to have all of
\* Phase 1; CREATE without IF NOT EXISTS; the ALTER without the look.
FirstAfterIdentity(seen) ==
  IF seen >= SCHEMA_VERSION THEN Stamp
  ELSE IF "identity" \in objects THEN V1 + 1 ELSE 1
CreatesOnlyNew(s) == s.on \subseteq objects /\ s.name \notin objects
AlwaysMissing == TRUE

\* migrate(): the first statement a file of that version needs.
First(seen) ==
  IF seen < 1 THEN 1 ELSE IF seen < SCHEMA_VERSION THEN V1 + 1 ELSE Stamp

\* A CREATE ... IF NOT EXISTS succeeds unless the index has no table.
Creates(s) == s.on \subseteq objects

\* add_column_if_missing: table_info does not list the column.
Missing == ~hasColumn

\* migrate() reads user_version, and takes it to be 0 when the read fails.
Begin(o) ==
  /\ step[o] = Closed
  /\ \E seen \in {version, 0} : step' = [step EXCEPT ![o] = First(seen)]
  /\ UNCHANGED <<version, objects, hasColumn, faults>>

\* One CREATE of a batch; an error ends the open.
Create(o) ==
  /\ step[o] \in 1..V2
  /\ LET s == Script[step[o]]
     IN  IF Creates(s)
         THEN /\ objects' = objects \cup {s.name}
              /\ step' = [step EXCEPT ![o] = @ + 1]
         ELSE /\ step' = [step EXCEPT ![o] = Closed]
              /\ UNCHANGED objects
  /\ UNCHANGED <<version, hasColumn, faults>>

LookForColumn(o) ==
  /\ step[o] = Look
  /\ step' = [step EXCEPT ![o] = IF Missing THEN Alter ELSE Stamp]
  /\ UNCHANGED <<version, objects, hasColumn, faults>>

\* ALTER TABLE fails on a column that is there: another opener added it since
\* this one looked.
AddColumn(o) ==
  /\ step[o] = Alter
  /\ IF ~hasColumn /\ "conversations" \in objects
     THEN hasColumn' = TRUE /\ step' = [step EXCEPT ![o] = Stamp]
     ELSE step' = [step EXCEPT ![o] = Closed] /\ UNCHANGED hasColumn
  /\ UNCHANGED <<version, objects, faults>>

SetVersion(o) ==
  /\ step[o] = Stamp
  /\ version' = SCHEMA_VERSION
  /\ step' = [step EXCEPT ![o] = Open]
  /\ UNCHANGED <<objects, hasColumn, faults>>

\* The process stops, or the statement in hand fails and `?` ends the open.
Fault(o) ==
  /\ step[o] \notin {Closed, Open}
  /\ faults < MaxFaults
  /\ faults' = faults + 1
  /\ step' = [step EXCEPT ![o] = Closed]
  /\ UNCHANGED <<version, objects, hasColumn>>

\* The store is dropped.
Close(o) ==
  /\ step[o] = Open
  /\ step' = [step EXCEPT ![o] = Closed]
  /\ UNCHANGED <<version, objects, hasColumn, faults>>

\* What a call of LocalStore::open does by itself.
Migrate(o) == Create(o) \/ LookForColumn(o) \/ AddColumn(o) \/ SetVersion(o)

Next == \E o \in Opener : Begin(o) \/ Migrate(o) \/ Fault(o) \/ Close(o)

Spec == Init /\ [][Next]_vars

\* An open that has begun runs on, and one that ended is tried again.
FairSpec == Spec /\ \A o \in Opener : WF_vars(Begin(o)) /\ WF_vars(Migrate(o))

----------------------------------------------------------------------------

TypeOK ==
  /\ version \in {0, SCHEMA_VERSION}
  /\ objects \subseteq Everything
  /\ hasColumn \in BOOLEAN
  /\ step \in [Opener -> 0..Open]
  /\ faults \in Nat

\* schema.rs:7: the version on a file is never ahead of what the file holds,
\* and a store that was handed out has every table, index and column, whatever
\* other openers did meanwhile and wherever earlier ones stopped.
OpenedIsWhole ==
  version = SCHEMA_VERSION \/ (\E o \in Opener : step[o] = Open) =>
    objects = Everything /\ hasColumn

\* schema.rs:144 "a migration that fails halfway leaves a database that cannot
\* be opened at all": whoever keeps trying opens, whatever was left behind.
EveryoneOpens == \A o \in Opener : step[o] = Closed ~> step[o] = Open

=============================================================================
