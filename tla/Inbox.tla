------------------------------- MODULE Inbox -------------------------------
(***************************************************************************)
(* What arrives from WhatsApp on its way into the history: a message is    *)
(* handed to handleWAEvent, inserted, queued for the event bridge and only *)
(* then acknowledged; the server sends it again until it is.  Batches of   *)
(* older messages take another way, through the history-sync worker, and   *)
(* answer a pending sync.force.  The websocket drops, the disk fails, the  *)
(* daemon is closed or killed anywhere in between.                         *)
(*                                                                         *)
(* The watchdog's forced reconnect is left out (it is off by default): one *)
(* that overlaps Adapter.Close would bring the websocket up again.         *)
(***************************************************************************)
EXTENDS Naturals, Sequences, FiniteSets

CONSTANTS
    Msgs,           \* messages of one conversation
    NoMsg,
    EventCap,       \* capacity of eventCh, 256
    MaxBlobs,       \* bound of the history blobs that arrive
    MaxMishaps      \* bound of the times the websocket drops, an insert fails or
                    \* the daemon is restarted

ASSUME InboxBounds ==
    /\ Msgs # {} /\ NoMsg \notin Msgs
    /\ EventCap \in Nat \ {0}
    /\ MaxBlobs \in Nat /\ MaxMishaps \in Nat

VARIABLES
    owed,           \* messages the server has not seen acknowledged
    line,           \* the websocket is up
    handled,        \* the message in handleWAEvent, and how far it is
    eventCh,        \* how many events wait in the channel to the bridge
    row,            \* the history: none, live or revoked
    blobs,          \* historySyncCh, as far as it concerns the conversation
    batch,          \* what the worker has still to insert
    routed,         \* what it will answer a pending request with
    force,          \* a sync.force is pending
    adapter,        \* open, cancelled, disconnected, closed or dead
    excused,        \* messages whose insert failed, which is audited, or whose
                    \* row the operator or retention deleted
    stamped,        \* messages whose stored row a Revoke has stamped
    reported,       \* messages a sync.force reported as delivered
    tally           \* how often each bounded event has happened

inboxVars == <<owed, line, handled, eventCh, row, blobs, batch, routed, force, adapter,
               excused, stamped, reported, tally>>
ghosts == <<stamped, reported>>

Idle == [msg |-> NoMsg, at |-> "none"]
Bounds == [blobs |-> MaxBlobs, mishaps |-> MaxMishaps]

InboxTypeOK ==
    /\ owed \subseteq Msgs /\ line \in BOOLEAN
    /\ handled \in [msg : Msgs \cup {NoMsg}, at : {"none", "persist", "enqueue", "ack"}]
    /\ eventCh \in 0..EventCap
    /\ row \in [Msgs -> {"none", "live", "revoked"}]
    /\ Len(blobs) <= MaxBlobs
    /\ batch \subseteq Msgs /\ routed \subseteq Msgs
    /\ force \in BOOLEAN
    /\ adapter \in {"open", "cancelled", "disconnected", "closed", "dead"}
    /\ UNION {excused, stamped, reported} \subseteq Msgs
    /\ \A b \in DOMAIN Bounds : tally[b] \in 0..Bounds[b]

InboxInit ==
    /\ owed = Msgs /\ line = FALSE
    /\ handled = Idle /\ eventCh = 0
    /\ row = [m \in Msgs |-> "none"]
    /\ blobs = <<>> /\ batch = {} /\ routed = {}
    /\ force = FALSE
    /\ adapter = "open"
    /\ excused = {} /\ stamped = {} /\ reported = {}
    /\ tally = [b \in DOMAIN Bounds |-> 0]

Count(b) == tally[b] < Bounds[b] /\ tally' = [tally EXCEPT ![b] = @ + 1]

HistoryOpen == adapter \in {"open", "cancelled", "disconnected"}

\* Mutant: the insert replaces the row there is.
InsertOrReplace(m) == row' = [row EXCEPT ![m] = "live"]

\* INSERT ... ON CONFLICT DO NOTHING.
Insert(m) == row' = [row EXCEPT ![m] = IF @ = "none" THEN "live" ELSE @]

-----------------------------------------------------------------------------
(* Messages *)

\* whatsmeow runs the handler for one event at a time.
Deliver(m) ==
    /\ line /\ m \in owed /\ handled = Idle
    /\ handled' = [msg |-> m, at |-> "persist"]
    /\ UNCHANGED <<owed, line, eventCh, row, blobs, batch, routed, force, adapter,
                   excused, ghosts, tally>>

\* persistInboundMessage: an error is audited and the message goes on.
persistInboundMessage ==
    /\ handled.at = "persist"
    /\ handled' = [handled EXCEPT !.at = "enqueue"]
    /\ \/ HistoryOpen /\ Insert(handled.msg) /\ UNCHANGED <<excused, tally>>
       \/ /\ HistoryOpen /\ Count("mishaps")
          /\ excused' = excused \cup {handled.msg}
          /\ UNCHANGED row
       \/ ~HistoryOpen /\ UNCHANGED <<row, excused, tally>>
    /\ UNCHANGED <<owed, line, eventCh, blobs, batch, routed, force, adapter, ghosts>>

\* enqueueBounded: room in the channel, at once or within the timeout; the
\* select may prefer it to a cancelled context.
Enqueue ==
    /\ handled.at = "enqueue" /\ eventCh < EventCap
    /\ eventCh' = eventCh + 1
    /\ handled' = [handled EXCEPT !.at = "ack"]
    /\ UNCHANGED <<owed, line, row, blobs, batch, routed, force, adapter, excused, ghosts, tally>>

\* The context is cancelled, or the channel stayed full: a marker is sent if
\* there is room by now, and the message is not acknowledged.
Refused ==
    /\ handled.at = "enqueue"
    /\ \/ adapter # "open" /\ UNCHANGED eventCh
       \/ eventCh = EventCap /\ UNCHANGED eventCh
       \/ eventCh = EventCap - 1 /\ eventCh' = eventCh + 1
    /\ handled' = Idle
    /\ UNCHANGED <<owed, line, row, blobs, batch, routed, force, adapter, excused, ghosts, tally>>

\* The handler returned true: whatsmeow acknowledges, if it still can.
Acknowledge ==
    /\ handled.at = "ack"
    /\ owed' = IF line THEN owed \ {handled.msg} ELSE owed
    /\ handled' = Idle
    /\ UNCHANGED <<line, eventCh, row, blobs, batch, routed, force, adapter, excused, ghosts, tally>>

\* Adapter.Next.
NextEvent ==
    /\ eventCh > 0 /\ adapter \in {"open", "cancelled", "disconnected"}
    /\ eventCh' = eventCh - 1
    /\ UNCHANGED <<owed, line, handled, row, blobs, batch, routed, force, adapter,
                   excused, ghosts, tally>>

-----------------------------------------------------------------------------
(* History blobs *)

\* dispatchHistorySync: a blob that finds the channel full, of those of other
\* chats and kinds, is dropped; it is acknowledged either way.
dispatchHistorySync(s) ==
    /\ line /\ handled = Idle /\ Count("blobs")
    /\ blobs' \in {Append(blobs, s), blobs}
    /\ UNCHANGED <<owed, line, handled, eventCh, row, batch, routed, force, adapter,
                   excused, ghosts>>

\* processHistorySyncBlob, for an ON_DEMAND blob.
TakeBlob ==
    /\ blobs # <<>> /\ batch = {} /\ routed = {} /\ HistoryOpen
    /\ batch' = Head(blobs) /\ routed' = Head(blobs)
    /\ blobs' = Tail(blobs)
    /\ UNCHANGED <<owed, line, handled, eventCh, row, force, adapter, excused, ghosts, tally>>

\* persistOneMessage, under the worker's context: a failed insert is audited.
persistOneMessage(m) ==
    /\ m \in batch
    /\ batch' = batch \ {m}
    /\ \/ adapter = "open" /\ Insert(m) /\ UNCHANGED <<excused, tally>>
       \/ adapter = "open" /\ Count("mishaps") /\ excused' = excused \cup {m} /\ UNCHANGED row
       \/ adapter # "open" /\ excused' = excused \cup {m} /\ UNCHANGED <<row, tally>>
    /\ UNCHANGED <<owed, line, handled, eventCh, blobs, routed, force, adapter, ghosts>>

\* routeOnDemandResponse: the first pending request for the chat, if any.
routeOnDemandResponse ==
    /\ routed # {} /\ batch = {}
    /\ IF force
       THEN force' = FALSE /\ reported' = reported \cup routed
       ELSE UNCHANGED <<force, reported>>
    /\ routed' = {}
    /\ UNCHANGED <<owed, line, handled, eventCh, row, blobs, batch, adapter, excused,
                   stamped, tally>>

\* forceChatScopedSync registers its request and asks; the answer, or else a
\* timeout or the end of a context, ends it.
forceChatScopedSync ==
    /\ ~force /\ adapter = "open" /\ line
    /\ force' = TRUE
    /\ UNCHANGED <<owed, line, handled, eventCh, row, blobs, batch, routed, adapter,
                   excused, ghosts, tally>>

EndForce ==
    /\ force
    /\ force' = FALSE
    /\ UNCHANGED <<owed, line, handled, eventCh, row, blobs, batch, routed, adapter,
                   excused, ghosts, tally>>

-----------------------------------------------------------------------------
(* The operator *)

\* Moderator.Revoke and StampRevoke: a message without a row is passed over.
Revoke(m) ==
    /\ adapter = "open" /\ line
    /\ row[m] # "none"
    /\ row' = [row EXCEPT ![m] = "revoked"]
    /\ stamped' = stamped \cup {m}
    /\ UNCHANGED <<owed, line, handled, eventCh, blobs, batch, routed, force, adapter,
                   excused, reported, tally>>

\* PurgeChat and CleanupRetention.
Purge(s) ==
    /\ HistoryOpen
    /\ s # {} /\ \A m \in s : row[m] # "none"
    /\ row' = [m \in Msgs |-> IF m \in s THEN "none" ELSE row[m]]
    /\ excused' = excused \cup s
    /\ stamped' = stamped \ s
    /\ UNCHANGED <<owed, line, handled, eventCh, blobs, batch, routed, force, adapter,
                   reported, tally>>

-----------------------------------------------------------------------------
(* The connection and the process *)

Connect ==
    /\ ~line /\ adapter \in {"open", "cancelled"}
    /\ line' = TRUE
    /\ UNCHANGED <<owed, handled, eventCh, row, blobs, batch, routed, force, adapter,
                   excused, ghosts, tally>>

LineDrops ==
    /\ line /\ Count("mishaps")
    /\ line' = FALSE
    /\ UNCHANGED <<owed, handled, eventCh, row, blobs, batch, routed, force, adapter,
                   excused, ghosts>>

\* Adapter.Close: clientCancel, Disconnect, the worker, the stores.
CancelInbox ==
    /\ adapter = "open" /\ adapter' = "cancelled"
    /\ UNCHANGED <<owed, line, handled, eventCh, row, blobs, batch, routed, force,
                   excused, ghosts, tally>>

Disconnect ==
    /\ adapter = "cancelled" /\ adapter' = "disconnected"
    /\ line' = FALSE
    /\ UNCHANGED <<owed, handled, eventCh, row, blobs, batch, routed, force,
                   excused, ghosts, tally>>

\* Mutant: the history is closed while the websocket is up.
CloseConnected ==
    /\ adapter \in {"cancelled", "disconnected"} /\ batch = {} /\ routed = {}
    /\ adapter' = "closed"
    /\ UNCHANGED <<owed, line, handled, eventCh, row, blobs, batch, routed, force,
                   excused, ghosts, tally>>

CloseHistory ==
    /\ adapter = "disconnected" /\ batch = {} /\ routed = {}
    /\ adapter' = "closed"
    /\ UNCHANGED <<owed, line, handled, eventCh, row, blobs, batch, routed, force,
                   excused, ghosts, tally>>

\* The end of the process, at any time: rows stay, everything else is gone.
Kill ==
    /\ adapter # "dead"
    /\ adapter' = "dead" /\ line' = FALSE
    /\ handled' = Idle /\ eventCh' = 0
    /\ blobs' = <<>> /\ batch' = {} /\ routed' = {}
    /\ force' = FALSE
    /\ UNCHANGED <<owed, row, excused, ghosts, tally>>

Restart ==
    /\ adapter = "dead" /\ Count("mishaps")
    /\ adapter' = "open"
    /\ UNCHANGED <<owed, line, handled, eventCh, row, blobs, batch, routed, force,
                   excused, ghosts>>

InboxNext ==
    \/ \E m \in Msgs : Deliver(m) \/ persistOneMessage(m) \/ Revoke(m)
    \/ \E s \in SUBSET Msgs \ {{}} : dispatchHistorySync(s) \/ Purge(s)
    \/ persistInboundMessage \/ Enqueue \/ Refused \/ Acknowledge \/ NextEvent
    \/ TakeBlob \/ routeOnDemandResponse \/ forceChatScopedSync \/ EndForce
    \/ Connect \/ LineDrops \/ CancelInbox \/ Disconnect \/ CloseHistory \/ Kill \/ Restart

-----------------------------------------------------------------------------
(* Properties *)

\* What the daemon said it has is in the history: a message acknowledged to the
\* server, which will not send it again, and one that a sync.force reported as
\* delivered, across redelivery, a full channel, Close and kill; except where
\* the insert failed (audited as persist_msg and hsync_insert) or the row was
\* deleted later.
ReportedIsStored ==
    \A m \in (Msgs \ owed) \cup reported :
        row[m] # "none" \/ m \in excused

\* A message once marked as revoked stays so: neither a redelivery nor a history
\* blob that brings the original again takes the stamp off its row.
StampsStay == \A m \in stamped : row[m] = "revoked"
=============================================================================
