------------------------------ MODULE Receiver -----------------------------
(***************************************************************************)
(* The receiving end of a conversation: receive_messages of                *)
(* core/src/api/messaging.rs after its flush, for messages that decompress *)
(* and parse as Text.  Steps, restarts and bounds are as in Sender.        *)
(***************************************************************************)
EXTENDS Wire, Ratchet

CONSTANT MaxReceiverCrash  \* bound: stops in mid-call, or with unsaved state

ASSUME ReceiverAssumption == MaxReceiverCrash \in Nat

VARIABLES
  savedWindow,      \* disk: the ratchet window in the mls_state row
  rows,             \* disk: messages rows of direction Received, [id, msg, at]
  window,           \* memory: the ratchet window of the MLS provider
  step,             \* memory: the next step of the call in progress
  batch,            \* memory: collected letters not looked at yet
  handled,          \* memory: letters to acknowledge
  stores,           \* history: how often each message was taken in anew
  receiverCrashes,  \* bound: stops so far
  receiverTorn      \* history: a restart took back a ratchet step

receiverVars == <<savedWindow, rows, window, step, batch, handled, stores,
                  receiverCrashes, receiverTorn>>

ReceiverTypeOK ==
  /\ savedWindow \in Window
  /\ rows \subseteq [id : MessageId, msg : Msg, at : Nat]
  /\ window \in Window
  /\ step \in {"idle", "open", "persist"}
  /\ batch \subseteq posted
  /\ handled \subseteq posted
  /\ stores \in [Msg -> Nat]
  /\ receiverCrashes \in Nat
  /\ receiverTorn \in BOOLEAN

ReceiverInit ==
  /\ savedWindow = Unused
  /\ rows = {}
  /\ window = Unused
  /\ step = "idle"
  /\ batch = {}
  /\ handled = {}
  /\ stores = [m \in Msg |-> 0]
  /\ receiverCrashes = 0
  /\ receiverTorn = FALSE

----------------------------------------------------------------------------

\* The relay's GET succeeds.  (When it fails, `?` ends the call.)
Collect ==
  /\ step = "idle"
  /\ batch' = waiting
  /\ step' = "open"
  /\ UNCHANGED <<savedWindow, rows, window, handled, stores,
                 receiverCrashes, receiverTorn>>
  /\ UNCHANGED wireVars

\* put_message of a received letter: INSERT OR REPLACE under the identifier
\* of the envelope.  A Hello is no row of the thread: what it does to the
\* contact is in Reply, and here it only counts as dealt with.
Store(e) ==
  /\ rows' = IF e.msg = Hello THEN rows
             ELSE {r \in rows : r.id # e.id} \cup
                    {[id |-> e.id, msg |-> e.msg, at |-> clock]}
  /\ stores' = IF \E r \in rows : r.id = e.id
               THEN stores
               ELSE [stores EXCEPT ![e.msg] = @ + 1]

\* A letter of the batch decrypts: it is stored, then listed as handled.  The
\* relay orders a batch by random identifiers, so the next may be any of it.
Open(e) ==
  /\ step = "open"
  /\ batch' = batch \ {e}
  /\ Accepts(window, e.gen)
  /\ window' = Advance(window, e.gen)
  /\ Store(e)
  /\ handled' = handled \cup {e}
  /\ UNCHANGED <<savedWindow, step, receiverCrashes, receiverTorn>>
  /\ UNCHANGED wireVars

\* A letter that does not decrypt is left on the relay.
Skip(e) ==
  /\ step = "open"
  /\ batch' = batch \ {e}
  /\ ~Accepts(window, e.gen)
  /\ UNCHANGED <<savedWindow, rows, window, step, handled, stores,
                 receiverCrashes, receiverTorn>>
  /\ UNCHANGED wireVars

\* Faulty variant of the next definition: the inbox is acknowledged as a whole.
AckEverything ==
  /\ step = "open"
  /\ batch = {}
  /\ EraseAnswered(waiting)
  /\ step' = "persist"
  /\ UNCHANGED <<savedWindow, rows, window, batch, handled, stores,
                 receiverCrashes, receiverTorn>>

\* The acknowledgement names the letters that were handled, no others.
AckDone ==
  /\ step = "open"
  /\ batch = {}
  /\ EraseAnswered(handled)
  /\ step' = "persist"
  /\ UNCHANGED <<savedWindow, rows, window, batch, handled, stores,
                 receiverCrashes, receiverTorn>>

\* `?` ends the call with nothing persisted and nothing purged.
AckFailed ==
  /\ step = "open"
  /\ batch = {}
  /\ EraseFailed(handled)
  /\ handled' = {}
  /\ step' = "idle"
  /\ UNCHANGED <<savedWindow, rows, window, batch, stores,
                 receiverCrashes, receiverTorn>>

PurgeRows == rows' = {r \in rows : ~Outlived(r.at)}

\* persist_mls_state, then purge_expired; one step for the reason in Sender.
PersistWindow ==
  /\ step = "persist"
  /\ savedWindow' = window
  /\ handled' = {}
  /\ PurgeRows
  /\ step' = "idle"
  /\ UNCHANGED <<window, batch, stores, receiverCrashes, receiverTorn>>
  /\ UNCHANGED wireVars

\* The process ends and Pouch::open restores the snapshot and purges.
ReceiverRestart ==
  /\ IF step = "idle" /\ window = savedWindow
     THEN UNCHANGED receiverCrashes
     ELSE /\ receiverCrashes < MaxReceiverCrash
          /\ receiverCrashes' = receiverCrashes + 1
  /\ window' = savedWindow
  /\ receiverTorn' = (receiverTorn \/ window # savedWindow)
  /\ step' = "idle"
  /\ batch' = {}
  /\ handled' = {}
  /\ PurgeRows
  /\ UNCHANGED <<savedWindow, stores>>
  /\ UNCHANGED wireVars

\* What the process does on its own once a call has begun.
ReceiverStep ==
  \/ \E e \in batch : Open(e) \/ Skip(e)
  \/ AckDone \/ AckFailed \/ PersistWindow

ReceiverNext == Collect \/ ReceiverStep \/ ReceiverRestart

=============================================================================
