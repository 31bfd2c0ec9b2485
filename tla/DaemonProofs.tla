---------------------------- MODULE DaemonProofs ----------------------------
(***************************************************************************)
(* What is proved of the daemon's housekeeping, for every value of the     *)
(* constants.  A behaviour of Daemon takes the steps of one component and  *)
(* leaves the others alone, so each theorem rests on an invariant of one   *)
(* component and on Projection.                                            *)
(***************************************************************************)
EXTENDS Daemon, SequenceTheorems, TLAPS

-----------------------------------------------------------------------------
(* Inbox *)

\* A message is accounted for: it has a row, or a failed insert was audited, or
\* its row was deleted.
Held(m) == row[m] # "none" \/ m \in excused

InboxTypes ==
    /\ owed \subseteq Msgs
    /\ handled \in [msg : Msgs \cup {NoMsg}, at : {"none", "persist", "enqueue", "ack"}]
    /\ handled.at # "none" => handled.msg \in Msgs
    /\ row \in [Msgs -> {"none", "live", "revoked"}]
    /\ blobs \in Seq(SUBSET Msgs)
    /\ batch \subseteq Msgs /\ routed \subseteq Msgs
    /\ excused \subseteq Msgs /\ stamped \subseteq Msgs /\ reported \subseteq Msgs
    /\ adapter \in {"open", "cancelled", "disconnected", "closed", "dead"}

\* The websocket is down for good before the history is closed, and a dead
\* process handles nothing.
LineInv ==
    /\ adapter \in {"disconnected", "closed", "dead"} => ~line
    /\ adapter = "dead" => handled = Idle

\* A message past its insert is accounted for, unless it came too late for the
\* history, and then there is no line to acknowledge it on.
HandledInv == handled.at \in {"enqueue", "ack"} /\ HistoryOpen => Held(handled.msg)

\* What the worker will report it has inserted, or has still to insert.
RoutedInv == \A m \in routed : m \in batch \/ Held(m)

InboxInv ==
    InboxTypes /\ LineInv /\ HandledInv /\ RoutedInv /\ ReportedIsStored /\ StampsStay

LEMMA InboxInitOK == InboxInit => InboxInv
  BY DEF InboxInit, InboxInv, InboxTypes, LineInv, HandledInv, RoutedInv, ReportedIsStored,
         StampsStay, Idle, Held

\* The steps of a message.
LEMMA MessageKeeps ==
  ASSUME InboxInv,
         \/ \E m \in Msgs : Deliver(m)
         \/ persistInboundMessage \/ Enqueue \/ Refused \/ Acknowledge \/ NextEvent
  PROVE  InboxInv'
<1> USE DEF InboxInv, InboxTypes, LineInv, HandledInv, RoutedInv, ReportedIsStored,
            StampsStay, Idle, Held, HistoryOpen, ghosts
<1>1. ASSUME NEW m \in Msgs, Deliver(m) PROVE InboxInv'
  BY <1>1 DEF Deliver
<1>2. CASE persistInboundMessage
  BY <1>2 DEF persistInboundMessage, Insert
<1>3. CASE Enqueue
  BY <1>3 DEF Enqueue
<1>4. CASE Refused
  BY <1>4 DEF Refused
<1>5. CASE Acknowledge
  BY <1>5 DEF Acknowledge
<1>6. CASE NextEvent
  BY <1>6 DEF NextEvent
<1> QED
  BY <1>1, <1>2, <1>3, <1>4, <1>5, <1>6

\* The steps of a history blob and of sync.force.
LEMMA BlobKeeps ==
  ASSUME InboxInv,
         \/ \E s \in SUBSET Msgs \ {{}} : dispatchHistorySync(s)
         \/ \E m \in Msgs : persistOneMessage(m)
         \/ TakeBlob \/ routeOnDemandResponse \/ forceChatScopedSync \/ EndForce
  PROVE  InboxInv'
<1> USE DEF InboxInv, InboxTypes, LineInv, HandledInv, RoutedInv, ReportedIsStored,
            StampsStay, Idle, Held, HistoryOpen, ghosts
<1>1. ASSUME NEW s \in SUBSET Msgs \ {{}}, dispatchHistorySync(s) PROVE InboxInv'
  BY <1>1 DEF dispatchHistorySync
<1>2. ASSUME NEW m \in Msgs, persistOneMessage(m) PROVE InboxInv'
  BY <1>2 DEF persistOneMessage, Insert
<1>3. CASE TakeBlob
  BY <1>3 DEF TakeBlob
<1>4. CASE routeOnDemandResponse
  BY <1>4 DEF routeOnDemandResponse
<1>5. CASE forceChatScopedSync
  BY <1>5 DEF forceChatScopedSync
<1>6. CASE EndForce
  BY <1>6 DEF EndForce
<1> QED
  BY <1>1, <1>2, <1>3, <1>4, <1>5, <1>6

\* The operator, the connection, Adapter.Close and the end of the process.
LEMMA OutsideKeeps ==
  ASSUME InboxInv,
         \/ \E m \in Msgs : Revoke(m)
         \/ \E s \in SUBSET Msgs \ {{}} : Purge(s)
         \/ Connect \/ LineDrops \/ CancelInbox \/ Disconnect \/ CloseHistory \/ Kill \/ Restart
  PROVE  InboxInv'
<1> USE DEF InboxInv, InboxTypes, LineInv, HandledInv, RoutedInv, ReportedIsStored,
            StampsStay, Idle, Held, HistoryOpen, ghosts
<1>1. ASSUME NEW m \in Msgs, Revoke(m) PROVE InboxInv'
  BY <1>1 DEF Revoke
<1>2. ASSUME NEW s \in SUBSET Msgs \ {{}}, Purge(s) PROVE InboxInv'
  BY <1>2 DEF Purge
<1>3. CASE Connect
  BY <1>3 DEF Connect
<1>4. CASE LineDrops
  BY <1>4 DEF LineDrops
<1>5. CASE CancelInbox
  BY <1>5 DEF CancelInbox
<1>6. CASE Disconnect
  BY <1>6 DEF Disconnect
<1>7. CASE CloseHistory
  BY <1>7 DEF CloseHistory
<1>8. CASE Kill
  BY <1>8 DEF Kill
<1>9. CASE Restart
  BY <1>9 DEF Restart
<1> QED
  BY <1>1, <1>2, <1>3, <1>4, <1>5, <1>6, <1>7, <1>8, <1>9

LEMMA InboxKept == InboxInv /\ [InboxNext]_inboxVars => InboxInv'
<1> SUFFICES ASSUME InboxInv, [InboxNext]_inboxVars PROVE InboxInv'
  OBVIOUS
<1>1. CASE InboxNext
  BY <1>1, MessageKeeps, BlobKeeps, OutsideKeeps, Zenon DEF InboxNext
<1>2. CASE UNCHANGED inboxVars
  BY <1>2 DEF inboxVars, InboxInv, InboxTypes, LineInv, HandledInv, RoutedInv,
              ReportedIsStored, StampsStay, Idle, Held, HistoryOpen
<1> QED
  BY <1>1, <1>2

-----------------------------------------------------------------------------
(* Recovery *)

\* The calls that have entered the collection in recoveryInFlight.
Inside(c) == repair[c] \notin {"none", "leave"}

\* Whoever is inside holds the entry, and nobody else is: the entry is given
\* back only by the call that leaves.
HolderInv ==
    /\ \A c \in Repairers : Inside(c) => inFlight
    /\ \A c, d \in Repairers : Inside(c) /\ Inside(d) => c = d

\* A worker has a call that waits for it, however it was cut short, and its
\* channel is the registered one: calls that are leaving take out only their own.
WorkerInv ==
    \A c \in Repairers : worker[c] # "none" => repair[c] \in {"watch", "abort"} /\ pending = {c}

\* What the wait group counts is over when the store is closed.
JoinedInv ==
    closing = "closed" => \A c \in Repairers : repair[c] \notin {"read", "watch", "abort"}

AloneInv == RepairTypeOK /\ HolderInv /\ WorkerInv /\ JoinedInv

LEMMA AloneInit == RepairInit => AloneInv
<1> SUFFICES ASSUME RepairInit PROVE AloneInv
  OBVIOUS
<1>1. RepairTypeOK
  <2>1. 0 \in 0..MaxVersion /\ 0 \in 0..MaxRepairs
    BY RepairBounds DEF RepairBounds
  <2> QED
    BY <2>1, Zenon DEF RepairInit, RepairTypeOK, Nobody
<1>2. HolderInv /\ WorkerInv /\ JoinedInv
  BY DEF RepairInit, HolderInv, WorkerInv, JoinedInv, Inside
<1> QED
  BY <1>1, <1>2 DEF AloneInv

\* One step of a call, from within ResyncAppState or its worker.
LEMMA CallKeeps ==
  ASSUME AloneInv, NEW c \in Repairers,
         \/ ResyncAppState(c) \/ FetchAppState(c) \/ Mismatch(c) \/ beginAppStateWork(c)
         \/ VersionUnread(c) \/ StartWorker(c) \/ SendPeerMessage(c) \/ GiveUpRepair(c)
         \/ SeeCompletion(c) \/ Verify(c) \/ CutShort(c) \/ JoinWorker(c)
         \/ Deregister(c)
  PROVE  AloneInv'
<1> USE RepairBounds DEF RepairBounds, AloneInv, RepairTypeOK, HolderInv, WorkerInv,
                         JoinedInv, Inside, At, WorkerAt
<1>1. CASE ResyncAppState(c)
  <2>1. RepairTypeOK'
    BY <1>1 DEF ResyncAppState
  <2>2. HolderInv'
    BY <1>1 DEF ResyncAppState
  <2>3. WorkerInv' /\ JoinedInv'
    BY <1>1 DEF ResyncAppState
  <2> QED
    BY <2>1, <2>2, <2>3
<1>2. CASE FetchAppState(c)
  <2>1. RepairTypeOK'
    <3>1. version' \in 0..MaxVersion
      BY <1>2 DEF FetchAppState
    <3>2. repair' \in [Repairers -> {"none", "fetch", "begin", "read", "watch", "abort", "leave"}]
      BY <1>2 DEF FetchAppState
    <3> QED
      BY <1>2, <3>1, <3>2 DEF FetchAppState
  <2>2. HolderInv'
    <3>1. \A d \in Repairers : ~Inside(d)'
      BY <1>2 DEF FetchAppState
    <3> QED
      BY <3>1
  <2>3. WorkerInv' /\ JoinedInv'
    BY <1>2 DEF FetchAppState
  <2> QED
    BY <2>1, <2>2, <2>3
<1>3. CASE Mismatch(c)
  BY <1>3 DEF Mismatch
<1>4. CASE beginAppStateWork(c)
  <2>1. CASE closing = "open"
    BY <1>4, <2>1 DEF beginAppStateWork
  <2>2. CASE closing # "open"
    <3>1. \A d \in Repairers : ~Inside(d)'
      BY <1>4, <2>2 DEF beginAppStateWork
    <3> QED
      BY <1>4, <2>2, <3>1 DEF beginAppStateWork
  <2> QED
    BY <2>1, <2>2
<1>5. CASE VersionUnread(c)
  BY <1>5 DEF VersionUnread
<1>6. CASE StartWorker(c)
  BY <1>6 DEF StartWorker
<1>7. CASE SendPeerMessage(c)
  BY <1>7 DEF SendPeerMessage
<1>8. CASE GiveUpRepair(c)
  BY <1>8 DEF GiveUpRepair
<1>9. CASE SeeCompletion(c)
  BY <1>9 DEF SeeCompletion
<1>10. CASE Verify(c)
  BY <1>10 DEF Verify
<1>11. CASE CutShort(c)
  BY <1>11 DEF CutShort
<1>12. CASE JoinWorker(c)
  <2>1. RepairTypeOK'
    BY <1>12 DEF JoinWorker
  <2>2. HolderInv'
    BY <1>12 DEF JoinWorker
  <2>3. WorkerInv' /\ JoinedInv'
    BY <1>12 DEF JoinWorker
  <2> QED
    BY <2>1, <2>2, <2>3
<1>13. CASE Deregister(c)
  <2>1. RepairTypeOK' /\ HolderInv' /\ JoinedInv'
    BY <1>13 DEF Deregister
  <2>2. ASSUME NEW d \in Repairers, worker'[d] # "none"
        PROVE  repair'[d] \in {"watch", "abort"} /\ pending' = {d}
    <3>1. worker[d] # "none" /\ d # c
      BY <1>13, <2>2 DEF Deregister
    <3> QED
      BY <1>13, <3>1 DEF Deregister
  <2> QED
    BY <2>1, <2>2
<1> QED
  BY <1>1, <1>2, <1>3, <1>4, <1>5, <1>6, <1>7, <1>8, <1>9, <1>10, <1>11, <1>12, <1>13

\* A step of the phone or of Adapter.Close.
LEMMA OthersKeep ==
  ASSUME AloneInv, Snapshot \/ Drain \/ CancelClient \/ CloseSession
  PROVE  AloneInv'
<1> USE RepairBounds DEF RepairBounds, AloneInv, RepairTypeOK, HolderInv, WorkerInv,
                         JoinedInv, Inside
<1>1. CASE Snapshot
  BY <1>1 DEF Snapshot
<1>2. CASE Drain
  BY <1>2 DEF Drain
<1>3. CASE CancelClient
  BY <1>3 DEF CancelClient
<1>4. CASE CloseSession
  BY <1>4 DEF CloseSession
<1> QED
  BY <1>1, <1>2, <1>3, <1>4

LEMMA AloneKept == AloneInv /\ [RepairNext]_repairVars => AloneInv'
<1> SUFFICES ASSUME AloneInv, [RepairNext]_repairVars PROVE AloneInv'
  OBVIOUS
<1>1. CASE RepairNext
  BY <1>1, CallKeeps, OthersKeep DEF RepairNext
<1>2. CASE UNCHANGED repairVars
  BY <1>2 DEF repairVars, AloneInv, RepairTypeOK, HolderInv, WorkerInv, JoinedInv, Inside
<1> QED
  BY <1>1, <1>2

-----------------------------------------------------------------------------
(* Watchdog *)

\* Seconds since the last tick.
Waited == softStaleTickFor - phase

WatchTypes ==
    /\ capSec \in Int /\ capSec >= ThresholdSec
    /\ quiet \in Int /\ quiet >= Never
    /\ since \in Int /\ since >= Never
    /\ streak \in 0..MostStreak
    /\ phase \in 0..softStaleTickFor
    /\ current \in {"unknown", "healthy", "stale"}
    /\ organic \in BOOLEAN /\ unseen \in BOOLEAN

\* A recovery that no traffic followed has begun a streak, so the gap to the
\* next one is capped.
StreakInv == since # Never /\ ~organic => streak >= 1

\* The last tick that found the line stale left at most a gap behind it; traffic
\* that shortens the gap afterwards is younger than that tick.
GapInv ==
    current = "stale" /\ ~unseen /\ since # Never =>
        IF organic THEN since < Cooldown + Waited \/ quiet <= Waited
        ELSE since < capSec + Waited

WatchInv == WatchTypes /\ StreakInv /\ GapInv

\* The ticker is faster than the threshold.
LEMMA TickFits == softStaleTickFor \in Nat /\ softStaleTickFor >= 1 /\ softStaleTickFor < ThresholdSec
  BY WatchdogBounds DEF WatchdogBounds, softStaleTickFor, Larger, Smaller

LEMMA WatchInitOK == WatchInit => WatchInv
<1> SUFFICES ASSUME WatchInit PROVE WatchInv
  OBVIOUS
<1>1. capSec \in Int /\ capSec >= ThresholdSec
  BY WatchdogBounds DEF WatchdogBounds, WatchInit, ParseSoftStaleBackoffCapSec, Larger, Smaller
<1>2. 0 \in 0..MostStreak /\ softStaleTickFor \in 0..softStaleTickFor /\ Never \in Int /\ Never >= Never
  BY TickFits, WatchdogBounds DEF WatchdogBounds, MostStreak, Never
<1> QED
  BY <1>1, <1>2, Zenon DEF WatchInit, WatchInv, WatchTypes, StreakInv, GapInv

LEMMA WatchKept == WatchInv /\ [WatchNext]_watchVars => WatchInv'
<1> SUFFICES ASSUME WatchInv, [WatchNext]_watchVars PROVE WatchInv'
  OBVIOUS
<1> USE TickFits, WatchdogBounds
    DEF WatchdogBounds, WatchInv, WatchTypes, StreakInv, GapInv, Never, MostStreak, Waited
<1> HIDE DEF softStaleTickFor
<1>1. CASE Second
  <2>1. MostSince \in Int /\ MostSince >= 0
    BY DEF MostSince, Larger
  <2> QED
    BY <1>1, <2>1 DEF Second, Smaller
<1>2. CASE Tick
  <2> DEFINE considers == softStaleStep = "stale" /\ Considers
             kept == IF considers /\ (current = "healthy" \/ since # Never)
                     THEN StreakNow ELSE streak
  <2>1. /\ current' = softStaleStep /\ phase' = softStaleTickFor
        /\ unseen' = (softStaleStep = "stale" /\ current = "unknown")
        /\ capSec' = capSec /\ quiet' = quiet
        /\ phase' \in 0..softStaleTickFor
    BY <1>2 DEF Tick
  <2>2. current' \in {"unknown", "healthy", "stale"} /\ unseen' \in BOOLEAN
    BY <2>1 DEF softStaleStep
  <2>3. kept \in 0..MostStreak
    BY DEF StreakNow
  <2>4. CASE considers /\ Recovers
    <3>1. since' = 0 /\ organic' = FALSE /\ streak' = Smaller(kept + 1, MostStreak)
      BY <1>2, <2>4, Zenon DEF Tick
    <3>2. streak' \in 0..MostStreak /\ streak' >= 1
      BY <2>3, <3>1 DEF Smaller
    <3>3. organic' \in BOOLEAN /\ ~organic'
      BY <3>1, Zenon
    <3>4. StreakInv' /\ GapInv'
      BY <2>1, <3>1, <3>2, <3>3
    <3> QED
      BY <2>1, <2>2, <3>1, <3>2, <3>3, <3>4
  <2>5. CASE ~(considers /\ Recovers)
    <3>1. since' = since /\ organic' = organic /\ streak' = kept
      BY <1>2, <2>5, Zenon DEF Tick
    <3>2. ASSUME current' = "stale", ~unseen', since # Never
          PROVE  IF organic THEN since < Cooldown ELSE since < capSec
      <4>1. considers
        BY <2>1, <3>2 DEF Considers
      <4>2. WithinGap(StreakNow)
        BY <2>5, <3>2, <4>1 DEF Recovers
      <4>3. CASE organic
        BY <3>2, <4>2, <4>3 DEF StreakNow, WithinGap
      <4>4. CASE ~organic
        BY <3>2, <4>2, <4>4 DEF StreakNow, WithinGap, Larger
      <4> QED
        BY <4>3, <4>4
    <3>3. StreakInv'
      BY <3>1 DEF StreakNow
    <3>4. GapInv'
      BY <2>1, <3>1, <3>2
    <3> QED
      BY <2>1, <2>2, <2>3, <3>1, <3>3, <3>4
  <2> QED
    BY <2>4, <2>5
<1>3. CASE Traffic
  BY <1>3 DEF Traffic
<1>4. CASE Connected
  BY <1>4 DEF Connected
<1>5. CASE Disconnected
  BY <1>5 DEF Disconnected
<1>6. CASE Reconnect
  BY <1>6 DEF Reconnect
<1>7. CASE ReconnectDone
  BY <1>7 DEF ReconnectDone
<1>8. CASE BackfillDone
  BY <1>8 DEF BackfillDone
<1>9. CASE UNCHANGED watchVars
  BY <1>9 DEF watchVars
<1> QED
  BY <1>1, <1>2, <1>3, <1>4, <1>5, <1>6, <1>7, <1>8, <1>9 DEF WatchNext

-----------------------------------------------------------------------------
(* Schema *)

Names ==
    {"messages", "idx_messages_chat_ts", "messages_fts", "messages_ai", "messages_ad", "messages_au",
     "media_type", "caption", "is_from_me", "push_name",
     "message_receipts", "message_idempotency", "interactive_json",
     "revoked_at", "edited_at", "previous_body", "edit_of", "idx_messages_chat_revoked",
     "idempotency_keys", "idx_idempotency_expires", "migration_history",
     "sender_alt_jid", "addressing_mode", "media_transcripts", "caption_folded"}
Stmt == [do : {"make", "remove", "version", "fold", "backup", "record", "rotate", "read"},
         of : Names \cup Nat]

\* What an Open has before it at user_version 1, block by block.
To8 == upgradeTo(8, 1)
To7 == upgradeTo(7, 1) \o To8
To6 == upgradeTo(6, 1) \o To7
To5 == upgradeTo(5, 1) \o To6
To4 == upgradeTo(4, 1) \o To5
To3 == upgradeTo(3, 1) \o To4
Later == << <<>>, To3, To4, To5, To6, To7, To8, <<>> >>

\* What ends a block, after its user_version.
Trailer(n) ==
    IF n = 1 THEN <<ReadVersion>> ELSE IF n < 4 THEN <<>> ELSE <<RecordMigration(n), RotateBackups>>
Rest(n) == Trailer(n) \o Later[n]

\* The statements that lie before user_version n bring the database d to it.
Prepares(n, body, d) ==
    /\ \A i \in DOMAIN body :
        /\ body[i].do \in {"make", "remove", "fold"}
        /\ body[i].do = "make" => body[i].of \in Names
        /\ body[i].do = "remove" => n = 7
    /\ \A x \in Made(n) \ {"messages_au"} : x \in d.has \/ \E i \in DOMAIN body : body[i] = Make(x)
    /\ n = 7 => \/ body = <<DropTrigger("messages_au")>> \o <<Make("messages_au")>>
                \/ body = <<Make("messages_au")>> /\ "broken_au" \notin d.has
                \/ body = <<>> /\ "broken_au" \notin d.has /\ "messages_au" \in d.has
    /\ n = 8 => d.folded \/ \E i \in DOMAIN body : body[i].do = "fold"

Database == [version : 0..Latest, has : SUBSET (Names \cup {"broken_au"}), folded : BOOLEAN]
Copy == [of : Database, whole : BOOLEAN]

\* user_version claims nothing that is not there.
Claims(d) ==
    /\ \A n \in 1..d.version : Made(n) \ {"messages_au"} \subseteq d.has
    /\ d.version >= 7 => "messages_au" \in d.has /\ "broken_au" \notin d.has
    /\ d.version >= 8 => d.folded

\* There is a copy from before the step to n.
Copied(n, copies) ==
    n >= 4 => \E i \in DOMAIN copies : copies[i].whole /\ copies[i].of.version = n - 1

\* Where an Open is, with the statements s before it.
AtBackup(n, s, d) ==
    /\ n >= 4 /\ d.version = n - 1
    /\ s = <<maybeBackup>> \o (Upgrades[n] \o Rest(n))
AtBody(n, s, d, copies) ==
    /\ n = 1 \/ d.version = n - 1
    /\ Copied(n, copies)
    /\ \E body \in Seq(Stmt) : Prepares(n, body, d) /\ s = body \o (<<Version(n)>> \o Rest(n))
AtRecord(n, s, d, copies) ==
    /\ n >= 4 /\ d.version = n /\ Copied(n, copies)
    /\ s = <<RecordMigration(n)>> \o (<<RotateBackups>> \o Later[n])
AtRotate(n, s, d) == n >= 4 /\ d.version = n /\ s = <<RotateBackups>> \o Later[n]
AtRead(s, d) == d.version = 1 /\ s = <<ReadVersion>>
AtEnd(s, d) == d.version = Latest /\ s = <<>>

Somewhere(s, d, copies) ==
    \/ \E n \in 1..Latest : \/ AtBackup(n, s, d) \/ AtBody(n, s, d, copies)
                            \/ AtRecord(n, s, d, copies) \/ AtRotate(n, s, d)
    \/ AtRead(s, d) \/ AtEnd(s, d)

UpgradeInv ==
    /\ db \in Database /\ backups \in Seq(Copy)
    /\ Claims(db)
    /\ held \in {"shut", "opening", "open"}
    /\ held = "opening" => Somewhere(script, db, backups)
    /\ held = "open" => db.version = Latest

-----------------------------------------------------------------------------

LEMMA Statements ==
    /\ \A x \in Names : Make(x) \in Stmt /\ Make(x).do = "make" /\ Make(x).of = x
    /\ \A x \in Names : DropTrigger(x) \in Stmt /\ DropTrigger(x).do = "remove"
    /\ \A n \in Nat : /\ Version(n) \in Stmt /\ Version(n).do = "version" /\ Version(n).of = n
                      /\ RecordMigration(n) \in Stmt /\ RecordMigration(n).do = "record"
                      /\ RecordMigration(n).of = n
    /\ maybeBackup \in Stmt /\ maybeBackup.do = "backup"
    /\ RotateBackups \in Stmt /\ RotateBackups.do = "rotate"
    /\ ReadVersion \in Stmt /\ ReadVersion.do = "read"
    /\ backfillCaptionFolded \in Stmt /\ backfillCaptionFolded.do = "fold"
<1>1. \A x \in Names : Make(x) \in Stmt /\ Make(x).do = "make" /\ Make(x).of = x
    BY DEF Make, Statement, Stmt
<1>2. \A x \in Names : DropTrigger(x) \in Stmt /\ DropTrigger(x).do = "remove"
    BY DEF DropTrigger, Statement, Stmt
<1>3. \A n \in Nat : Version(n) \in Stmt /\ Version(n).do = "version" /\ Version(n).of = n
    BY DEF Version, Statement, Stmt
<1>4. \A n \in Nat : /\ RecordMigration(n) \in Stmt /\ RecordMigration(n).do = "record"
                      /\ RecordMigration(n).of = n
    BY DEF RecordMigration, Statement, Stmt
<1>5. /\ maybeBackup \in Stmt /\ maybeBackup.do = "backup"
      /\ RotateBackups \in Stmt /\ RotateBackups.do = "rotate"
    BY DEF maybeBackup, RotateBackups, Statement, Stmt
<1>6. /\ ReadVersion \in Stmt /\ ReadVersion.do = "read"
      /\ backfillCaptionFolded \in Stmt /\ backfillCaptionFolded.do = "fold"
    BY DEF ReadVersion, backfillCaptionFolded, Statement, Stmt
<1> QED BY <1>1, <1>2, <1>3, <1>4, <1>5, <1>6

\* A sequence of statements with one in front, and one joined to another.
LEMMA Prefixed ==
    ASSUME NEW x \in Stmt, NEW t \in Seq(Stmt)
    PROVE  /\ <<x>> \o t \in Seq(Stmt) /\ <<x>> \o t # <<>>
           /\ Head(<<x>> \o t) = x /\ Tail(<<x>> \o t) = t
<1>1. /\ <<x>> \in Seq(Stmt) /\ Len(<<x>>) = 1 /\ <<x>>[1] = x
    OBVIOUS
<1> DEFINE u == <<x>> \o t
<1>2. /\ u \in Seq(Stmt) /\ Len(u) = 1 + Len(t) /\ Len(t) \in Nat
      /\ \A i \in 1..(1 + Len(t)) : u[i] = IF i <= 1 THEN <<x>>[i] ELSE t[i - 1]
    BY <1>1, ConcatProperties
<1> HIDE DEF u
<1>3. u # <<>> /\ Head(u) = x
    BY <1>1, <1>2
<1>4. /\ Tail(u) \in Seq(Stmt) /\ Len(Tail(u)) = Len(t)
      /\ \A i \in 1..Len(t) : Tail(u)[i] = u[i + 1] /\ u[i + 1] = t[i]
    BY <1>2, <1>3, HeadTailProperties
<1>5. Tail(u) = t
    BY <1>2, <1>4
<1> QED BY <1>2, <1>3, <1>5 DEF u

LEMMA Joined ==
    ASSUME NEW b \in Seq(Stmt), NEW t \in Seq(Stmt), b # <<>>
    PROVE  /\ b \o t # <<>> /\ Head(b \o t) = Head(b) /\ Tail(b \o t) = Tail(b) \o t
           /\ Head(b) \in Stmt /\ Tail(b) \in Seq(Stmt)
<1>1. /\ Head(b) \in Stmt /\ Tail(b) \in Seq(Stmt) /\ b = <<Head(b)>> \o Tail(b)
    OBVIOUS
<1> DEFINE x == Head(b)
<1> DEFINE r == Tail(b)
<1> HIDE DEF x, r
<1>2. x \in Stmt /\ r \in Seq(Stmt) /\ b = <<x>> \o r /\ <<x>> \in Seq(Stmt)
    BY <1>1 DEF x, r
<1> DEFINE u == r \o t
<1> DEFINE v == b \o t
<1>3. v = <<x>> \o u /\ u \in Seq(Stmt)
    BY <1>2, ConcatAssociative, ConcatProperties
<1> HIDE DEF u, v
<1>4. /\ v # <<>> /\ Head(v) = x /\ Tail(v) = u
    BY <1>2, <1>3, Prefixed
<1> QED BY <1>1, <1>4 DEF x, r, u, v

\* The statements of a step, before its user_version.
BodyOf(n, body) ==
    /\ body \in Seq(Stmt) /\ Upgrades[n] = body \o <<Version(n)>>
    /\ \A i \in DOMAIN body :
        /\ body[i].do \in {"make", "remove", "fold"}
        /\ body[i].do = "make" => body[i].of \in Names
        /\ body[i].do = "remove" => n = 7
    /\ n = 7 => body = <<DropTrigger("messages_au")>> \o <<Make("messages_au")>>
    /\ n = 8 => \E i \in DOMAIN body : body[i].do = "fold"

LEMMA MakeAlls ==
    ASSUME NEW names \in Seq(Names)
    PROVE  /\ MakeAll(names) \in Seq(Stmt)
           /\ \A i \in DOMAIN MakeAll(names) :
                MakeAll(names)[i].do = "make" /\ MakeAll(names)[i].of \in Names
<1> DEFINE all == MakeAll(names)
<1>1. all = [i \in 1..Len(names) |-> Make(names[i])] /\ Len(names) \in Nat
    BY DEF MakeAll
<1>2. \A i \in 1..Len(names) : names[i] \in Names
    OBVIOUS
<1>3. \A i \in 1..Len(names) : /\ Make(names[i]) \in Stmt /\ Make(names[i]).do = "make"
                               /\ Make(names[i]).of = names[i]
    BY <1>2, Statements
<1> HIDE DEF all
<1>4. all \in Seq(Stmt) /\ DOMAIN all = 1..Len(names)
    BY <1>1, <1>3
<1>5. \A i \in DOMAIN all : all[i].do = "make" /\ all[i].of \in Names
    BY <1>1, <1>2, <1>3
<1> QED BY <1>4, <1>5 DEF all

LEMMA TwoStatements == ASSUME NEW a, NEW b PROVE <<a>> \o <<b>> = <<a, b>>
<1>1. <<a>> \o <<b>> = Append(<<a>>, b)
    OBVIOUS
<1>2. <<a, b>> = Append(<<a>>, b)
    OBVIOUS
<1> QED BY <1>1, <1>2

LEMMA Bodies == \A n \in 1..Latest : \E body : BodyOf(n, body)
<1> SUFFICES ASSUME NEW n \in 1..Latest PROVE \E body : BodyOf(n, body)
    OBVIOUS
<1>1. ASSUME NEW names \in Seq(Names), Upgrades[n] = MakeAll(names) \o <<Version(n)>>,
             n # 7, n # 8
      PROVE  \E body : BodyOf(n, body)
  <2>1. BodyOf(n, MakeAll(names))
    BY <1>1, MakeAlls DEF BodyOf
  <2> QED BY <2>1
<1>2. n \in {1, 2, 3, 4, 5, 6, 7, 8}
    BY DEF Latest
<1>3. CASE n = 1
  <2> DEFINE names == <<"messages", "idx_messages_chat_ts", "messages_fts", "messages_ai",
                    "messages_ad", "messages_au">>
  <2>1. names \in Seq(Names)
    BY DEF Names
  <2>2. Upgrades[n] = schemaSQL /\ schemaSQL = MakeAll(names) \o <<Version(n)>>
    BY <1>3 DEF Upgrades, schemaSQL
  <2> HIDE DEF names
  <2> QED BY <1>1, <1>3, <2>1, <2>2
<1>4. CASE n = 2
  <2> DEFINE names == <<"media_type", "caption", "is_from_me", "push_name">>
  <2>1. names \in Seq(Names)
    BY DEF Names
  <2>2. Upgrades[n] = migrateV2 /\ migrateV2 = MakeAll(names) \o <<Version(n)>>
    BY <1>4 DEF Upgrades, migrateV2
  <2> HIDE DEF names
  <2> QED BY <1>1, <1>4, <2>1, <2>2
<1>5. CASE n = 3
  <2> DEFINE names == <<"message_receipts", "message_idempotency", "interactive_json">>
  <2>1. names \in Seq(Names)
    BY DEF Names
  <2>2. Upgrades[n] = migrateV3 /\ migrateV3 = MakeAll(names) \o <<Version(n)>>
    BY <1>5 DEF Upgrades, migrateV3
  <2> HIDE DEF names
  <2> QED BY <1>1, <1>5, <2>1, <2>2
<1>6. CASE n = 4
  <2> DEFINE names == <<"revoked_at", "edited_at", "previous_body", "edit_of",
                    "idx_messages_chat_revoked", "idempotency_keys", "idx_idempotency_expires",
                    "migration_history">>
  <2>1. names \in Seq(Names)
    BY DEF Names
  <2>2. Upgrades[n] = migrateV4 /\ migrateV4 = MakeAll(names) \o <<Version(n)>>
    BY <1>6 DEF Upgrades, migrateV4
  <2> HIDE DEF names
  <2> QED BY <1>1, <1>6, <2>1, <2>2
<1>7. CASE n = 5
  <2> DEFINE names == <<"sender_alt_jid", "addressing_mode">>
  <2>1. names \in Seq(Names)
    BY DEF Names
  <2>2. Upgrades[n] = migrateV5 /\ migrateV5 = MakeAll(names) \o <<Version(n)>>
    BY <1>7 DEF Upgrades, migrateV5
  <2> HIDE DEF names
  <2> QED BY <1>1, <1>7, <2>1, <2>2
<1>8. CASE n = 6
  <2> DEFINE b == <<Make("media_transcripts")>>
  <2>1. "media_transcripts" \in Names
    BY DEF Names
  <2>2. b \in Seq(Stmt) /\ \A i \in DOMAIN b : b[i].do = "make" /\ b[i].of \in Names
    BY <2>1, Statements
  <2>3. Upgrades[n] = b \o <<Version(n)>>
    BY <1>8 DEF Upgrades, migrateV6
  <2>4. BodyOf(n, b)
    BY <1>8, <2>2, <2>3 DEF BodyOf
  <2> QED BY <2>4
<1>9. CASE n = 7
  <2> DEFINE b == <<DropTrigger("messages_au")>> \o <<Make("messages_au")>>
  <2>1. "messages_au" \in Names
    BY DEF Names
  <2>2. b = <<DropTrigger("messages_au"), Make("messages_au")>>
    BY TwoStatements
  <2>3. /\ b \in Seq(Stmt)
        /\ \A i \in DOMAIN b : b[i].do \in {"make", "remove"} /\ (b[i].do = "make" => b[i].of \in Names)
    BY <2>1, <2>2, Statements
  <2>4. Upgrades[n] = b \o <<Version(n)>>
    BY <1>9, <2>2 DEF Upgrades, migrateV7
  <2>5. BodyOf(n, b)
    BY <1>9, <2>3, <2>4 DEF BodyOf
  <2> QED BY <2>5
<1>10. CASE n = 8
  <2> DEFINE b == <<Make("caption_folded"), backfillCaptionFolded>>
  <2>1. "caption_folded" \in Names
    BY DEF Names
  <2>2. /\ b \in Seq(Stmt)
        /\ \A i \in DOMAIN b : b[i].do \in {"make", "fold"} /\ (b[i].do = "make" => b[i].of \in Names)
        /\ \E i \in DOMAIN b : b[i].do = "fold"
    BY <2>1, Statements
  <2>3. Upgrades[n] = b \o <<Version(n)>>
    BY <1>10 DEF Upgrades, migrateV8
  <2>4. BodyOf(n, b)
    BY <1>10, <2>2, <2>3 DEF BodyOf
  <2> QED BY <2>4
<1> QED BY <1>2, <1>3, <1>4, <1>5, <1>6, <1>7, <1>8, <1>9, <1>10

LEMMA MadeBy ==
    ASSUME NEW n \in 1..Latest, NEW body, BodyOf(n, body), NEW x \in Made(n)
    PROVE  x \in Names /\ \E i \in DOMAIN body : body[i] = Make(x)
<1>1. /\ body \in Seq(Stmt) /\ Upgrades[n] = body \o <<Version(n)>>
      /\ \A i \in DOMAIN body : body[i].do = "make" => body[i].of \in Names
    BY DEF BodyOf
<1>2. n \in Nat
    BY DEF Latest
<1>3. Version(n) \in Stmt /\ Version(n).do = "version"
    BY <1>2, Statements
<1>v. <<Version(n)>> \in Seq(Stmt) /\ Len(<<Version(n)>>) = 1 /\ <<Version(n)>>[1] = Version(n)
    BY <1>3
<1> DEFINE U == body \o <<Version(n)>>
<1>4. /\ U \in Seq(Stmt) /\ Len(U) = Len(body) + 1 /\ Len(body) \in Nat
      /\ \A i \in 1..(Len(body) + 1) : U[i] = IF i <= Len(body) THEN body[i] ELSE Version(n)
    BY <1>1, <1>v, ConcatProperties
<1>5. U = Upgrades[n]
    BY <1>1
<1> HIDE DEF U
<1>6. PICK i \in DOMAIN U : U[i].do = "make" /\ U[i].of = x
    BY <1>5 DEF Made, Range
<1>7. i \in 1..Len(body) /\ body[i].do = "make" /\ body[i].of = x /\ body[i] \in Stmt
    BY <1>1, <1>3, <1>4, <1>6
<1>8. body[i] = Make(x)
    BY <1>7 DEF Stmt, Make, Statement
<1> QED BY <1>1, <1>7, <1>8

LEMMA NeverMade == \A n \in 1..Latest : Made(n) \subseteq Names /\ "broken_au" \notin Made(n)
<1>1. "broken_au" \notin Names
    BY DEF Names
<1> QED BY <1>1, Bodies, MadeBy

LEMMA Prepared ==
    ASSUME NEW n \in 1..Latest, NEW body, BodyOf(n, body), NEW d
    PROVE  Prepares(n, body, d)
<1>1. \A x \in Made(n) : \E i \in DOMAIN body : body[i] = Make(x)
    BY MadeBy
<1> QED BY <1>1 DEF Prepares, BodyOf

\* Concatenation under a name the provers do not look into.
Cat(a, b) == a \o b

LEMMA CatSeq ==
    ASSUME NEW a \in Seq(Stmt), NEW b \in Seq(Stmt) PROVE Cat(a, b) \in Seq(Stmt)
BY DEF Cat

LEMMA CatAssociative ==
    ASSUME NEW a \in Seq(Stmt), NEW b \in Seq(Stmt), NEW c \in Seq(Stmt)
    PROVE  Cat(Cat(a, b), c) = Cat(a, Cat(b, c))
BY ConcatAssociative DEF Cat

\* The chain, in order.
LEMMA Chain ==
    /\ \A n \in 1..Latest : /\ Later[n] \in Seq(Stmt) /\ Upgrades[n] \in Seq(Stmt)
                            /\ Trailer(n) \in Seq(Stmt) /\ upgradeTo(n, 1) \in Seq(Stmt)
                            /\ Rest(n) \in Seq(Stmt)
    /\ \A n \in 2..7 : Later[n] = upgradeTo(n + 1, 1) \o Later[n + 1]
    /\ Later[1] = <<>> /\ Later[8] = <<>>
<1>0. Latest = 8
    BY DEF Latest
<1>1. ASSUME NEW n \in 1..8
      PROVE  Upgrades[n] \in Seq(Stmt) /\ Trailer(n) \in Seq(Stmt)
  <2>1. Version(n) \in Stmt /\ RecordMigration(n) \in Stmt
    BY Statements
  <2>2. PICK body : BodyOf(n, body)
    BY <1>0, Bodies
  <2>3. Upgrades[n] \in Seq(Stmt)
    <3>1. <<Version(n)>> \in Seq(Stmt)
        BY <2>1
    <3> QED BY <2>2, <3>1, ConcatProperties DEF BodyOf
  <2>4. Trailer(n) \in Seq(Stmt)
    BY <2>1, Statements DEF Trailer
  <2> QED BY <2>3, <2>4
<1>2. ASSUME NEW n \in 1..8 PROVE upgradeTo(n, 1) \in Seq(Stmt)
  <2>1. <<maybeBackup>> \in Seq(Stmt) /\ <<RecordMigration(n), RotateBackups>> \in Seq(Stmt)
    BY Statements
  <2>2. BackedUp(n) \in Seq(Stmt)
    <3>1. Cat(<<maybeBackup>>, Upgrades[n]) \in Seq(Stmt)
        BY <1>1, <2>1, CatSeq
    <3>2. Cat(Cat(<<maybeBackup>>, Upgrades[n]), <<RecordMigration(n), RotateBackups>>) \in Seq(Stmt)
        BY <2>1, <3>1, CatSeq
    <3>3. BackedUp(n) = Cat(Cat(<<maybeBackup>>, Upgrades[n]), <<RecordMigration(n), RotateBackups>>)
        BY Zenon DEF BackedUp, Cat
    <3> QED BY <3>2, <3>3, Zenon
  <2>3. <<>> \in Seq(Stmt)
    OBVIOUS
  <2>4. Upgrades[n] \in Seq(Stmt)
    BY <1>1
  <2> QED BY <2>2, <2>3, <2>4, Zenon DEF upgradeTo
<1>3. /\ To8 \in Seq(Stmt) /\ To7 \in Seq(Stmt) /\ To6 \in Seq(Stmt) /\ To5 \in Seq(Stmt)
      /\ To4 \in Seq(Stmt) /\ To3 \in Seq(Stmt)
  <2>1. To8 \in Seq(Stmt)
    BY <1>2 DEF To8
  <2>2. To7 \in Seq(Stmt)
    BY <1>2, <2>1, ConcatProperties DEF To7
  <2>3. To6 \in Seq(Stmt)
    BY <1>2, <2>2, ConcatProperties DEF To6
  <2>4. To5 \in Seq(Stmt)
    BY <1>2, <2>3, ConcatProperties DEF To5
  <2>5. To4 \in Seq(Stmt)
    BY <1>2, <2>4, ConcatProperties DEF To4
  <2>6. To3 \in Seq(Stmt)
    BY <1>2, <2>5, ConcatProperties DEF To3
  <2> QED BY <2>1, <2>2, <2>3, <2>4, <2>5, <2>6
<1>4. /\ Later[1] = <<>> /\ Later[2] = To3 /\ Later[3] = To4 /\ Later[4] = To5
      /\ Later[5] = To6 /\ Later[6] = To7 /\ Later[7] = To8 /\ Later[8] = <<>>
    BY DEF Later
<1>5. \A n \in 1..8 : Later[n] \in Seq(Stmt)
  <2>1. <<>> \in Seq(Stmt)
    OBVIOUS
  <2>2. \A n \in 1..8 : n \in {1, 2, 3, 4, 5, 6, 7, 8}
    OBVIOUS
  <2> QED BY <1>3, <1>4, <2>1, <2>2
<1>6. \A n \in 1..8 : Rest(n) \in Seq(Stmt)
    BY <1>1, <1>5, ConcatProperties DEF Rest
<1>7. ASSUME NEW n \in 2..7 PROVE Later[n] = upgradeTo(n + 1, 1) \o Later[n + 1]
  <2>1. To8 = upgradeTo(8, 1) \o <<>>
    <3>1. To8 \in Seq(Stmt) /\ To8 = upgradeTo(8, 1)
        BY <1>3 DEF To8
    <3>2. To8 = To8 \o <<>>
        BY <3>1, ConcatEmptySeq, Zenon
    <3> QED BY <3>1, <3>2, Zenon
  <2>a. 2 + 1 = 3 /\ 3 + 1 = 4 /\ 4 + 1 = 5 /\ 5 + 1 = 6 /\ 6 + 1 = 7 /\ 7 + 1 = 8
    OBVIOUS
  <2>2. CASE n = 7
    BY <1>4, <2>1, <2>2, <2>a, Zenon
  <2>3. CASE n = 6
    BY <1>4, <2>3, <2>a, Zenon DEF To7
  <2>4. CASE n = 5
    BY <1>4, <2>4, <2>a, Zenon DEF To6
  <2>5. CASE n = 4
    BY <1>4, <2>5, <2>a, Zenon DEF To5
  <2>6. CASE n = 3
    BY <1>4, <2>6, <2>a, Zenon DEF To4
  <2>7. CASE n = 2
    BY <1>4, <2>7, <2>a, Zenon DEF To3
  <2>8. n \in {2, 3, 4, 5, 6, 7}
    OBVIOUS
  <2> QED BY <2>2, <2>3, <2>4, <2>5, <2>6, <2>7, <2>8
<1> QED BY <1>0, <1>1, <1>2, <1>4, <1>5, <1>6, <1>7

\* Read at version 1, the chain starts with the step to 2.
LEMMA ChainFromOne == migrateIfNeeded(1) = upgradeTo(2, 1) \o Later[2]
<1>1. PICK a, b, c, d, e, f, g :
        /\ a = upgradeTo(2, 1) /\ b = upgradeTo(3, 1) /\ c = upgradeTo(4, 1) /\ d = upgradeTo(5, 1)
        /\ e = upgradeTo(6, 1) /\ f = upgradeTo(7, 1) /\ g = upgradeTo(8, 1)
    OBVIOUS
<1>2. /\ a \in Seq(Stmt) /\ b \in Seq(Stmt) /\ c \in Seq(Stmt) /\ d \in Seq(Stmt)
      /\ e \in Seq(Stmt) /\ f \in Seq(Stmt) /\ g \in Seq(Stmt)
    BY <1>1, Chain DEF Latest
<1>3. /\ migrateIfNeeded(1) = Cat(Cat(Cat(Cat(Cat(Cat(a, b), c), d), e), f), g)
      /\ upgradeTo(2, 1) \o To3 = Cat(a, Cat(b, Cat(c, Cat(d, Cat(e, Cat(f, g))))))
    BY <1>1, Zenon DEF migrateIfNeeded, To3, To4, To5, To6, To7, To8, Cat
<1>4. Later[2] = To3
    BY DEF Later
<1>5. Cat(Cat(Cat(Cat(Cat(Cat(a, b), c), d), e), f), g)
      = Cat(a, Cat(b, Cat(c, Cat(d, Cat(e, Cat(f, g))))))
  <2>1. /\ Cat(a, b) \in Seq(Stmt) /\ Cat(Cat(a, b), c) \in Seq(Stmt)
        /\ Cat(Cat(Cat(a, b), c), d) \in Seq(Stmt)
        /\ Cat(Cat(Cat(Cat(a, b), c), d), e) \in Seq(Stmt)
    BY <1>2, CatSeq
  <2>2. /\ Cat(f, g) \in Seq(Stmt) /\ Cat(e, Cat(f, g)) \in Seq(Stmt)
        /\ Cat(d, Cat(e, Cat(f, g))) \in Seq(Stmt)
        /\ Cat(c, Cat(d, Cat(e, Cat(f, g)))) \in Seq(Stmt)
    BY <1>2, CatSeq
  <2> QED BY <1>2, <2>1, <2>2, CatAssociative
<1> QED BY <1>3, <1>4, <1>5, Zenon

\* The step to n, and what comes after it, begins with its backup or its statements.
LEMMA StepBegins ==
    ASSUME NEW n \in 2..Latest
    PROVE  upgradeTo(n, 1) \o Later[n]
           = IF n < 4 THEN Upgrades[n] \o Rest(n) ELSE <<maybeBackup>> \o (Upgrades[n] \o Rest(n))
<1>0. n \in 1..Latest /\ n \in Nat /\ n >= 2
    BY DEF Latest
<1>1. PICK u, t, l, m : u = Upgrades[n] /\ t = Trailer(n) /\ l = Later[n] /\ m = <<maybeBackup>>
    OBVIOUS
<1>2. /\ u \in Seq(Stmt) /\ t \in Seq(Stmt) /\ l \in Seq(Stmt) /\ m \in Seq(Stmt)
    BY <1>0, <1>1, Chain, Statements
<1>3. CASE n < 4
  <2>1. t = <<>> /\ upgradeTo(n, 1) = u
    BY <1>0, <1>1, <1>3 DEF Trailer, upgradeTo
  <2>2. t \o l = l
    BY <1>2, <2>1, ConcatEmptySeq
  <2> QED BY <1>1, <1>3, <2>1, <2>2 DEF Rest
<1>4. CASE ~(n < 4)
  <2>0. n # 1 /\ ~(1 >= n)
    BY <1>0
  <2>1. upgradeTo(n, 1) = (m \o u) \o t
    BY <1>1, <1>4, <2>0, Zenon DEF Trailer, upgradeTo, BackedUp
  <2>2. Cat(m, u) \in Seq(Stmt) /\ Cat(t, l) \in Seq(Stmt)
    BY <1>2, CatSeq
  <2>3. Cat(Cat(Cat(m, u), t), l) = Cat(m, Cat(u, Cat(t, l)))
    BY <1>2, <2>2, CatAssociative
  <2>4. ((m \o u) \o t) \o l = m \o (u \o (t \o l))
    BY <2>3, Zenon DEF Cat
  <2> QED BY <1>1, <1>4, <2>1, <2>4, Zenon DEF Rest
<1> QED BY <1>3, <1>4

\* The statements of a step from their first on.
LEMMA StepStatements ==
    ASSUME NEW n \in 1..Latest, NEW d, NEW copies, n = 1 \/ d.version = n - 1, Copied(n, copies)
    PROVE  AtBody(n, Upgrades[n] \o Rest(n), d, copies)
<1>1. PICK body : BodyOf(n, body)
    BY Bodies
<1>2. PICK v, r : v = <<Version(n)>> /\ r = Rest(n)
    OBVIOUS
<1>3. body \in Seq(Stmt) /\ Upgrades[n] = body \o v /\ v \in Seq(Stmt) /\ r \in Seq(Stmt)
  <2>1. n \in Nat
    BY DEF Latest
  <2> QED BY <1>1, <1>2, <2>1, Chain, Statements DEF BodyOf
<1>4. (body \o v) \o r = body \o (v \o r)
    BY <1>3, ConcatAssociative
<1>5. Prepares(n, body, d)
    BY <1>1, Prepared
<1> QED BY <1>2, <1>3, <1>4, <1>5 DEF AtBody

\* An Open that has come to version n - 1 goes on with the step to n.
LEMMA StepStarts ==
    ASSUME NEW n \in 2..Latest, NEW d, NEW copies, d.version = n - 1
    PROVE  Somewhere(upgradeTo(n, 1) \o Later[n], d, copies)
<1>0. n \in 1..Latest /\ n \in Nat
    BY DEF Latest
<1>1. CASE n < 4
  <2>1. Copied(n, copies)
    BY <1>0, <1>1 DEF Copied
  <2> QED BY <1>0, <1>1, <2>1, StepBegins, StepStatements DEF Somewhere
<1>2. CASE ~(n < 4)
  <2>1. n >= 4
    BY <1>0, <1>2
  <2>2. AtBackup(n, upgradeTo(n, 1) \o Later[n], d)
    BY <1>2, <2>1, StepBegins, Zenon DEF AtBackup
  <2> QED BY <1>0, <2>2 DEF Somewhere
<1> QED BY <1>1, <1>2

\* The statement an Open runs next, and what is left when it has.
Ahead(n, s, d, copies) ==
    \/ Head(s).do = "backup" /\ n >= 4 /\ d.version = n - 1 /\ Tail(s) = Upgrades[n] \o Rest(n)
    \/ \E body \in Seq(Stmt) :
        /\ body # <<>> /\ Head(s) = Head(body) /\ Prepares(n, body, d)
        /\ n = 1 \/ d.version = n - 1
        /\ Copied(n, copies) /\ Tail(s) = Tail(body) \o (<<Version(n)>> \o Rest(n))
    \/ /\ Head(s) = Version(n) /\ Prepares(n, <<>>, d)
       /\ n = 1 \/ d.version = n - 1
       /\ Copied(n, copies) /\ Tail(s) = Rest(n)
    \/ Head(s).do = "record" /\ n >= 4 /\ d.version = n /\ Tail(s) = <<RotateBackups>> \o Later[n]
    \/ Head(s).do = "rotate" /\ n >= 4 /\ d.version = n /\ Tail(s) = Later[n]
    \/ Head(s).do = "read" /\ d.version = 1

LEMMA NextStatement ==
    ASSUME NEW s, NEW d, NEW copies, Somewhere(s, d, copies)
    PROVE  \/ s = <<>> /\ d.version = Latest
           \/ s # <<>> /\ \E n \in 1..Latest : Ahead(n, s, d, copies)
<1>1. ASSUME NEW n \in 1..Latest, AtBackup(n, s, d)
      PROVE  s # <<>> /\ Ahead(n, s, d, copies)
  <2>1. PICK t : t = Upgrades[n] \o Rest(n)
    OBVIOUS
  <2>2. t \in Seq(Stmt)
    <3>1. Upgrades[n] \in Seq(Stmt) /\ Rest(n) \in Seq(Stmt)
        BY Chain
    <3>2. Cat(Upgrades[n], Rest(n)) \in Seq(Stmt)
        BY <3>1, CatSeq
    <3> QED BY <2>1, <3>2, Zenon DEF Cat
  <2>3. s = <<maybeBackup>> \o t /\ n >= 4 /\ d.version = n - 1
    BY <1>1, <2>1, Zenon DEF AtBackup
  <2>4. maybeBackup \in Stmt /\ maybeBackup.do = "backup"
    BY Statements
  <2>5. s # <<>> /\ Head(s) = maybeBackup /\ Tail(s) = t
    BY <2>2, <2>3, <2>4, Prefixed
  <2>6. Head(s).do = "backup" /\ Tail(s) = Upgrades[n] \o Rest(n)
    BY <2>1, <2>4, <2>5, Zenon
  <2> QED BY <2>3, <2>5, <2>6, Zenon DEF Ahead
<1>2. ASSUME NEW n \in 1..Latest, AtBody(n, s, d, copies)
      PROVE  s # <<>> /\ Ahead(n, s, d, copies)
  <2>0. n \in Nat
    BY DEF Latest
  <2>1. PICK r : r = Rest(n)
    OBVIOUS
  <2>2. r \in Seq(Stmt) /\ Version(n) \in Stmt
    BY <2>0, <2>1, Chain, Statements
  <2>3. PICK t : t = <<Version(n)>> \o r
    OBVIOUS
  <2>4. t \in Seq(Stmt) /\ t # <<>> /\ Head(t) = Version(n) /\ Tail(t) = r
    BY <2>2, <2>3, Prefixed
  <2>5. PICK body \in Seq(Stmt) : Prepares(n, body, d) /\ s = body \o (<<Version(n)>> \o Rest(n))
    BY <1>2, Zenon DEF AtBody
  <2>6. (n = 1 \/ d.version = n - 1) /\ Copied(n, copies)
    BY <1>2, Zenon DEF AtBody
  <2>7. s = body \o t
    BY <2>1, <2>3, <2>5, Zenon
  <2>8. CASE body = <<>>
    <3>1. s = t
        BY <2>4, <2>7, <2>8, ConcatEmptySeq
    <3>2. Head(s) = Version(n) /\ Tail(s) = Rest(n) /\ Prepares(n, <<>>, d)
        BY <2>1, <2>4, <2>5, <2>8, <3>1, Zenon
    <3> QED BY <2>4, <2>6, <3>1, <3>2, Zenon DEF Ahead
  <2>9. CASE body # <<>>
    <3>1. s # <<>> /\ Head(s) = Head(body) /\ Tail(s) = Tail(body) \o t
        BY <2>4, <2>5, <2>7, <2>9, Joined
    <3>2. Tail(s) = Tail(body) \o (<<Version(n)>> \o Rest(n))
        BY <2>1, <2>3, <3>1, Zenon
    <3> QED BY <2>5, <2>6, <2>9, <3>1, <3>2, Zenon DEF Ahead
  <2> QED BY <2>8, <2>9
<1>3. ASSUME NEW n \in 1..Latest, AtRecord(n, s, d, copies)
      PROVE  s # <<>> /\ Ahead(n, s, d, copies)
  <2>0. n \in Nat
    BY DEF Latest
  <2>1. PICK t : t = <<RotateBackups>> \o Later[n]
    OBVIOUS
  <2>2. t \in Seq(Stmt) /\ RecordMigration(n) \in Stmt /\ RecordMigration(n).do = "record"
    BY <2>0, <2>1, Chain, Statements, Prefixed
  <2>3. s = <<RecordMigration(n)>> \o t /\ n >= 4 /\ d.version = n
    BY <1>3, <2>1, Zenon DEF AtRecord
  <2>4. s # <<>> /\ Head(s) = RecordMigration(n) /\ Tail(s) = t
    BY <2>2, <2>3, Prefixed
  <2>5. Head(s).do = "record" /\ Tail(s) = <<RotateBackups>> \o Later[n]
    BY <2>1, <2>2, <2>4, Zenon
  <2> QED BY <2>3, <2>4, <2>5, Zenon DEF Ahead
<1>4. ASSUME NEW n \in 1..Latest, AtRotate(n, s, d)
      PROVE  s # <<>> /\ Ahead(n, s, d, copies)
  <2>1. PICK t : t = Later[n]
    OBVIOUS
  <2>2. t \in Seq(Stmt) /\ RotateBackups \in Stmt /\ RotateBackups.do = "rotate"
    BY <2>1, Chain, Statements
  <2>3. s = <<RotateBackups>> \o t /\ n >= 4 /\ d.version = n
    BY <1>4, <2>1, Zenon DEF AtRotate
  <2>4. s # <<>> /\ Head(s) = RotateBackups /\ Tail(s) = t
    BY <2>2, <2>3, Prefixed
  <2>5. Head(s).do = "rotate" /\ Tail(s) = Later[n]
    BY <2>1, <2>2, <2>4, Zenon
  <2> QED BY <2>3, <2>4, <2>5, Zenon DEF Ahead
<1>5. ASSUME AtRead(s, d)
      PROVE  s # <<>> /\ \E n \in 1..Latest : Ahead(n, s, d, copies)
  <2>1. s # <<>> /\ Head(s) = ReadVersion /\ d.version = 1
    BY <1>5 DEF AtRead
  <2>2. Head(s).do = "read"
    BY <2>1, Statements
  <2>3. Ahead(1, s, d, copies) /\ 1 \in 1..Latest
    <3>1. 1 \in 1..Latest
        BY DEF Latest
    <3> QED BY <2>1, <2>2, <3>1, Zenon DEF Ahead
  <2> QED BY <2>1, <2>3, Zenon
<1>6. ASSUME AtEnd(s, d) PROVE s = <<>> /\ d.version = Latest
    BY <1>6 DEF AtEnd
<1>7. \/ \E n \in 1..Latest : \/ AtBackup(n, s, d) \/ AtBody(n, s, d, copies)
                              \/ AtRecord(n, s, d, copies) \/ AtRotate(n, s, d)
      \/ AtRead(s, d) \/ AtEnd(s, d)
    BY DEF Somewhere
<1> QED BY <1>1, <1>2, <1>3, <1>4, <1>5, <1>6, <1>7, Zenon

\* What a statement other than user_version makes of the database.
Effect(x, d, e) ==
    /\ e.version = d.version
    /\ x.do = "make" =>
        /\ e.has = IF x.of = "messages_au" /\ "broken_au" \in d.has THEN d.has ELSE d.has \cup {x.of}
        /\ e.folded = d.folded
    /\ x.do = "remove" => e.has = d.has \ {"messages_au", "broken_au"} /\ e.folded = d.folded
    /\ x.do = "fold" => e.has = d.has /\ e.folded = TRUE

LEMMA BodyGoesOn ==
    ASSUME NEW n \in 1..Latest, NEW body \in Seq(Stmt), body # <<>>, NEW d, NEW e,
           Prepares(n, body, d), Effect(Head(body), d, e)
    PROVE  Prepares(n, Tail(body), e)
<1>0. Latest = 8 /\ "broken_au" \notin Names /\ Made(n) \subseteq Names
    BY NeverMade DEF Latest, Names
<1>1. PICK x, t : x = Head(body) /\ t = Tail(body)
    OBVIOUS
<1>2. /\ x = body[1] /\ 1 \in DOMAIN body /\ t \in Seq(Stmt)
      /\ \A i \in DOMAIN t : i + 1 \in DOMAIN body /\ t[i] = body[i + 1]
      /\ \A i \in DOMAIN body : i = 1 \/ (i - 1 \in DOMAIN t /\ body[i] = t[i - 1])
    BY <1>1
<1>3. /\ \A i \in DOMAIN body :
            /\ body[i].do \in {"make", "remove", "fold"}
            /\ body[i].do = "make" => body[i].of \in Names
            /\ body[i].do = "remove" => n = 7
      /\ \A y \in Made(n) \ {"messages_au"} : y \in d.has \/ \E i \in DOMAIN body : body[i] = Make(y)
    BY DEF Prepares
<1>4. \A i \in DOMAIN t : /\ t[i].do \in {"make", "remove", "fold"}
                          /\ t[i].do = "make" => t[i].of \in Names
                          /\ t[i].do = "remove" => n = 7
    BY <1>2, <1>3
<1>5. Effect(x, d, e)
    BY <1>1
<1>6. ASSUME NEW y \in Made(n) \ {"messages_au"}
      PROVE  y \in e.has \/ \E i \in DOMAIN t : t[i] = Make(y)
  <2>1. y \in Names /\ y # "broken_au" /\ y # "messages_au"
    BY <1>0
  <2>2. Make(y).do = "make" /\ Make(y).of = y
    BY <2>1, Statements
  <2>3. x.do \in {"make", "remove", "fold"}
    BY <1>2, <1>3
  <2>4. CASE y \in d.has
    BY <1>5, <2>1, <2>3, <2>4 DEF Effect
  <2>5. CASE x = Make(y)
    BY <1>5, <2>1, <2>2, <2>5 DEF Effect
  <2>6. CASE \E i \in DOMAIN t : t[i] = Make(y)
    BY <2>6
  <2>7. CASE \E i \in DOMAIN body : body[i] = Make(y)
    <3>1. PICK i \in DOMAIN body : body[i] = Make(y)
        BY <2>7
    <3>2. CASE i = 1
        <4>1. x = Make(y)
            BY <1>2, <3>1, <3>2
        <4> QED BY <2>5, <4>1
    <3>3. CASE i # 1
        <4>1. i - 1 \in DOMAIN t /\ t[i - 1] = Make(y)
            BY <1>2, <3>1, <3>3
        <4> QED BY <2>6, <4>1, Zenon
    <3> QED BY <3>2, <3>3
  <2>8. y \in d.has \/ \E i \in DOMAIN body : body[i] = Make(y)
    BY <1>3
  <2> QED BY <2>4, <2>7, <2>8
<1>7. ASSUME n = 7
      PROVE  \/ t = <<DropTrigger("messages_au")>> \o <<Make("messages_au")>>
             \/ t = <<Make("messages_au")>> /\ "broken_au" \notin e.has
             \/ t = <<>> /\ "broken_au" \notin e.has /\ "messages_au" \in e.has
  <2>0. /\ "messages_au" \in Names
    BY DEF Names
  <2>1. /\ Make("messages_au").do = "make" /\ Make("messages_au").of = "messages_au"
        /\ DropTrigger("messages_au").do = "remove"
    BY <2>0, Statements
  <2>2. \/ body = <<DropTrigger("messages_au")>> \o <<Make("messages_au")>>
        \/ body = <<Make("messages_au")>> /\ "broken_au" \notin d.has
    BY <1>7 DEF Prepares
  <2>3. CASE body = <<DropTrigger("messages_au")>> \o <<Make("messages_au")>>
    <3>1. body = <<DropTrigger("messages_au"), Make("messages_au")>>
        BY <2>3, TwoStatements
    <3>2. x = DropTrigger("messages_au") /\ t = <<Make("messages_au")>>
        BY <1>1, <3>1
    <3> QED BY <1>5, <2>1, <3>2 DEF Effect
  <2>4. CASE body = <<Make("messages_au")>> /\ "broken_au" \notin d.has
    <3>1. x = Make("messages_au") /\ t = <<>>
        BY <1>1, <2>4
    <3>2. e.has = d.has \cup {"messages_au"}
        BY <1>5, <2>1, <2>4, <3>1 DEF Effect
    <3> QED BY <2>4, <3>1, <3>2
  <2> QED BY <2>2, <2>3, <2>4
<1>8. ASSUME n = 8 PROVE e.folded \/ \E i \in DOMAIN t : t[i].do = "fold"
  <2>1. x.do \in {"make", "remove", "fold"}
    BY <1>2, <1>3
  <2>2. d.folded \/ \E i \in DOMAIN body : body[i].do = "fold"
    BY <1>8 DEF Prepares
  <2>3. CASE d.folded
    BY <1>5, <2>1, <2>3 DEF Effect
  <2>4. CASE x.do = "fold"
    BY <1>5, <2>4 DEF Effect
  <2> QED BY <1>2, <2>2, <2>3, <2>4
<1>9. Prepares(n, t, e)
    BY <1>4, <1>6, <1>7, <1>8 DEF Prepares
<1> QED BY <1>1, <1>9

LEMMA ClaimsKept ==
    ASSUME NEW n \in 1..Latest, NEW body \in Seq(Stmt), body # <<>>,
           NEW d \in Database, NEW e,
           Prepares(n, body, d), Effect(Head(body), d, e), Claims(d), n = 1 \/ d.version = n - 1
    PROVE  Claims(e)
<1>0. Latest = 8 /\ "broken_au" \notin Names /\ \A m \in 1..8 : Made(m) \subseteq Names
    BY NeverMade DEF Latest, Names
<1>1. PICK x : x = Head(body)
    OBVIOUS
<1>2. Effect(x, d, e) /\ x = body[1] /\ 1 \in DOMAIN body
    BY <1>1
<1>3. /\ x.do \in {"make", "remove", "fold"}
      /\ x.do = "make" => x.of # "broken_au"
      /\ x.do = "remove" => n = 7
    BY <1>0, <1>2 DEF Prepares
<1>4. d.version \in 0..8 /\ e.version = d.version
    BY <1>0, <1>2 DEF Database, Effect
<1>5. ASSUME NEW m \in 1..d.version PROVE Made(m) \ {"messages_au"} \subseteq e.has
  <2>1. Made(m) \ {"messages_au"} \subseteq d.has /\ Made(m) \subseteq Names
    BY <1>0, <1>4 DEF Claims
  <2> QED BY <1>0, <1>2, <1>3, <2>1 DEF Effect
<1>6. ASSUME d.version >= 7 PROVE "messages_au" \in e.has /\ "broken_au" \notin e.has
  <2>1. "messages_au" \in d.has /\ "broken_au" \notin d.has
    BY <1>6 DEF Claims
  <2>2. x.do # "remove"
    BY <1>3, <1>4, <1>6
  <2> QED BY <1>2, <1>3, <2>1, <2>2 DEF Effect
<1>7. ASSUME d.version >= 8 PROVE e.folded
  <2>1. d.folded
    BY <1>7 DEF Claims
  <2> QED BY <1>2, <1>3, <2>1 DEF Effect
<1> QED BY <1>4, <1>5, <1>6, <1>7 DEF Claims

\* user_version n, when all that lies before it has been run.
LEMMA ClaimsVersion ==
    ASSUME NEW n \in 1..Latest, NEW d \in Database, NEW e,
           Prepares(n, <<>>, d), Claims(d), n = 1 \/ d.version = n - 1,
           e.version = n, e.has = d.has, e.folded = d.folded
    PROVE  Claims(e)
<1>0. Latest = 8
    BY DEF Latest
<1>1. d.version \in 0..8
    BY <1>0 DEF Database
<1>2. ASSUME NEW m \in 1..n PROVE Made(m) \ {"messages_au"} \subseteq e.has
  <2>1. CASE m = n
    BY <2>1 DEF Prepares
  <2>2. CASE m # n
    <3>1. m \in 1..d.version
        BY <1>0, <1>1, <2>2
    <3> QED BY <3>1 DEF Claims
  <2> QED BY <2>1, <2>2
<1>3. ASSUME n = 7 PROVE "broken_au" \notin d.has /\ "messages_au" \in d.has
  <2>1. <<DropTrigger("messages_au")>> \o <<Make("messages_au")>> # <<>>
    <3>1. <<DropTrigger("messages_au"), Make("messages_au")>> # <<>>
        OBVIOUS
    <3> QED BY <3>1, TwoStatements, Zenon
  <2>2. <<Make("messages_au")>> # <<>>
    OBVIOUS
  <2> QED BY <1>3, <2>1, <2>2, Zenon DEF Prepares
<1>4. ASSUME n >= 7 PROVE "messages_au" \in e.has /\ "broken_au" \notin e.has
  <2>1. CASE n = 7
    BY <1>3, <2>1
  <2>2. CASE n = 8
    BY <1>1, <2>2 DEF Claims
  <2> QED BY <1>0, <1>4, <2>1, <2>2
<1>5. ASSUME n >= 8 PROVE e.folded
  <2>1. n = 8
    BY <1>0, <1>5
  <2> QED BY <2>1 DEF Prepares
<1> QED BY <1>2, <1>4, <1>5 DEF Claims

\* Where an Open is when user_version is set.
LEMMA VersionGoesOn ==
    ASSUME NEW n \in 1..Latest, NEW d, NEW copies, d.version = n, Copied(n, copies)
    PROVE  Somewhere(Rest(n), d, copies)
<1>0. Latest = 8 /\ n \in Nat
    BY DEF Latest
<1>1. PICK t, l : t = Trailer(n) /\ l = Later[n]
    OBVIOUS
<1>2. l \in Seq(Stmt) /\ t \in Seq(Stmt) /\ Rest(n) = t \o l
    BY <1>1, Chain DEF Rest
<1>3. CASE n = 1
  <2>1. t = <<ReadVersion>> /\ l = <<>>
    BY <1>1, <1>3, Chain DEF Trailer
  <2>2. t \o l = t
    BY <1>2, <2>1, ConcatEmptySeq
  <2>3. Rest(n) = <<ReadVersion>>
    BY <1>2, <2>1, <2>2, Zenon
  <2> QED BY <1>3, <2>3, Zenon DEF Somewhere, AtRead
<1>4. CASE n \in 2..3
  <2>1. t = <<>>
    BY <1>1, <1>4 DEF Trailer
  <2>2. t \o l = l
    BY <1>2, <2>1, ConcatEmptySeq
  <2>3. n \in 2..7 /\ n + 1 \in 2..Latest /\ d.version = (n + 1) - 1
    BY <1>0, <1>4
  <2>4. Later[n] = upgradeTo(n + 1, 1) \o Later[n + 1]
    BY <2>3, Chain
  <2>5. Somewhere(upgradeTo(n + 1, 1) \o Later[n + 1], d, copies)
    BY <2>3, StepStarts
  <2>6. Rest(n) = upgradeTo(n + 1, 1) \o Later[n + 1]
    BY <1>1, <1>2, <2>2, <2>4, Zenon
  <2> QED BY <2>5, <2>6, Zenon
<1>5. CASE n >= 4
  <2>1. PICK a, b : a = RecordMigration(n) /\ b = RotateBackups
    OBVIOUS
  <2>2. a \in Stmt /\ b \in Stmt
    BY <1>0, <2>1, Statements
  <2>3. t = <<a, b>>
    BY <1>0, <1>1, <1>5, <2>1 DEF Trailer
  <2>4. t = Cat(<<a>>, <<b>>)
    BY <2>3, TwoStatements, Zenon DEF Cat
  <2>5. <<a>> \in Seq(Stmt) /\ <<b>> \in Seq(Stmt)
    BY <2>2
  <2>6. Cat(t, l) = Cat(<<a>>, Cat(<<b>>, l))
    BY <1>2, <2>4, <2>5, CatAssociative
  <2>7. Rest(n) = <<RecordMigration(n)>> \o (<<RotateBackups>> \o Later[n])
    BY <1>1, <1>2, <2>1, <2>6, Zenon DEF Cat
  <2> QED BY <1>5, <2>7, Zenon DEF Somewhere, AtRecord
<1> QED BY <1>0, <1>3, <1>4, <1>5

LEMMA RotateGoesOn ==
    ASSUME NEW n \in 4..Latest, NEW d, NEW copies, d.version = n
    PROVE  Somewhere(Later[n], d, copies)
<1>0. Latest = 8
    BY DEF Latest
<1>1. CASE n = 8
  <2>1. Later[n] = <<>>
    BY <1>1, Chain
  <2> QED BY <1>0, <1>1, <2>1, Zenon DEF Somewhere, AtEnd
<1>2. CASE n # 8
  <2>1. n \in 2..7 /\ n + 1 \in 2..Latest /\ d.version = (n + 1) - 1
    BY <1>0, <1>2
  <2>2. Later[n] = upgradeTo(n + 1, 1) \o Later[n + 1]
    BY <2>1, Chain
  <2>3. Somewhere(upgradeTo(n + 1, 1) \o Later[n + 1], d, copies)
    BY <2>1, StepStarts
  <2> QED BY <2>2, <2>3, Zenon
<1> QED BY <1>1, <1>2

\* An Open that is under way: what it runs next, over rigid copies of the state.
LEMMA OpenRuns ==
    ASSUME UpgradeInv, NEW do, Reads(do)
    PROVE  \E n \in 1..Latest : Ahead(n, script, db, backups)
<1>1. Somewhere(script, db, backups) /\ script # <<>>
    BY DEF UpgradeInv, Reads
<1>2. PICK s, d, c : s = script /\ d = db /\ c = backups
    OBVIOUS
<1>3. Somewhere(s, d, c) /\ s # <<>>
    BY <1>1, <1>2
<1>4. \E n \in 1..Latest : Ahead(n, s, d, c)
    BY <1>3, NextStatement
<1> QED BY <1>2, <1>4

\* The head of a step's statements.
LEMMA BodyHead ==
    ASSUME NEW n, NEW d, NEW body \in Seq(Stmt), body # <<>>, Prepares(n, body, d)
    PROVE  /\ Head(body).do \in {"make", "remove", "fold"} /\ Tail(body) \in Seq(Stmt)
           /\ Head(body).do = "make" => Head(body).of \in Names
<1>1. Head(body) = body[1] /\ 1 \in DOMAIN body /\ Tail(body) \in Seq(Stmt)
    OBVIOUS
<1> QED BY <1>1 DEF Prepares

\* A statement of a step, whatever it does.
LEMMA StatementRuns ==
    ASSUME NEW d \in Database, NEW s, NEW c, NEW e \in Database, Claims(d),
           NEW n \in 1..Latest, Ahead(n, s, d, c), Head(s).do \in {"make", "remove", "fold"},
           Effect(Head(s), d, e)
    PROVE  Claims(e) /\ Somewhere(Tail(s), e, c)
<1>0. Version(n).do = "version"
    BY Statements DEF Latest
<1>1. PICK body \in Seq(Stmt) :
        /\ body # <<>> /\ Head(s) = Head(body) /\ Prepares(n, body, d)
        /\ n = 1 \/ d.version = n - 1
        /\ Copied(n, c) /\ Tail(s) = Tail(body) \o (<<Version(n)>> \o Rest(n))
    BY <1>0, Zenon DEF Ahead
<1>2. Effect(Head(body), d, e) /\ e.version = d.version
    BY <1>1 DEF Effect
<1>3. Claims(e)
    BY <1>1, <1>2, ClaimsKept
<1>4. Prepares(n, Tail(body), e) /\ Tail(body) \in Seq(Stmt)
    BY <1>1, <1>2, BodyGoesOn, BodyHead
<1>5. AtBody(n, Tail(s), e, c)
    BY <1>1, <1>2, <1>4, Zenon DEF AtBody
<1> QED BY <1>3, <1>5, Zenon DEF Somewhere

LEMMA StatementStep ==
    ASSUME UpgradeInv, Reads("make") \/ Reads("remove") \/ Reads("fold"),
           db' \in Database, Effect(Head(script), db, db'), script' = Tail(script),
           held' = held, backups' = backups
    PROVE  UpgradeInv'
<1>1. /\ db \in Database /\ backups \in Seq(Copy) /\ Claims(db) /\ held = "opening"
      /\ Head(script).do \in {"make", "remove", "fold"}
    BY DEF UpgradeInv, Reads
<1>2. PICK n \in 1..Latest : Ahead(n, script, db, backups)
    BY OpenRuns
<1>3. PICK s, d, c, e : s = script /\ d = db /\ c = backups /\ e = db'
    OBVIOUS
<1>4. Claims(e) /\ Somewhere(Tail(s), e, c)
  <2>1. d \in Database /\ e \in Database /\ Claims(d) /\ Ahead(n, s, d, c) /\ Effect(Head(s), d, e)
        /\ Head(s).do \in {"make", "remove", "fold"}
    BY <1>1, <1>2, <1>3
  <2> QED BY <2>1, StatementRuns
<1>5. Claims(db') /\ Somewhere(script', db', backups')
    BY <1>3, <1>4
<1> QED BY <1>1, <1>5 DEF UpgradeInv

\* The other actions, over rigid copies of the state.
LEMMA VersionRuns ==
    ASSUME NEW d \in Database, NEW s, NEW c, NEW e, Claims(d),
           NEW n \in 1..Latest, Ahead(n, s, d, c), Head(s).do = "version",
           e = [d EXCEPT !.version = Head(s).of]
    PROVE  e \in Database /\ Claims(e) /\ Somewhere(Tail(s), e, c)
<1>0. Version(n).do = "version" /\ Version(n).of = n
    BY Statements DEF Latest
<1>1. /\ Head(s) = Version(n) /\ Prepares(n, <<>>, d)
      /\ n = 1 \/ d.version = n - 1
      /\ Copied(n, c) /\ Tail(s) = Rest(n)
  <2>1. \A body \in Seq(Stmt) :
            body # <<>> /\ Prepares(n, body, d) => Head(body).do # "version"
    BY BodyHead
  <2> QED BY <2>1, Zenon DEF Ahead
<1>2. Head(s).of = n
    BY <1>0, <1>1
<1>3. e \in Database /\ e.version = n /\ e.has = d.has /\ e.folded = d.folded
    BY <1>2 DEF Database, Latest
<1>4. Claims(e)
    BY <1>1, <1>3, ClaimsVersion
<1>5. Somewhere(Rest(n), e, c)
    BY <1>1, <1>3, VersionGoesOn
<1> QED BY <1>1, <1>3, <1>4, <1>5, Zenon

LEMMA BackupRuns ==
    ASSUME NEW d \in Database, NEW s, NEW c \in Seq(Copy), NEW c2,
           NEW n \in 1..Latest, Ahead(n, s, d, c), Head(s).do = "backup",
           c2 = Append(c, [of |-> d, whole |-> TRUE])
    PROVE  c2 \in Seq(Copy) /\ Somewhere(Tail(s), d, c2)
<1>0. Version(n).do = "version"
    BY Statements DEF Latest
<1>1. n >= 4 /\ d.version = n - 1 /\ Tail(s) = Upgrades[n] \o Rest(n)
  <2>1. \A body \in Seq(Stmt) :
            body # <<>> /\ Prepares(n, body, d) => Head(body).do # "backup"
    BY BodyHead
  <2> QED BY <1>0, <2>1, Zenon DEF Ahead
<1>2. [of |-> d, whole |-> TRUE] \in Copy
    BY DEF Copy
<1>3. /\ c2 \in Seq(Copy) /\ Len(c2) \in DOMAIN c2
      /\ c2[Len(c2)] = [of |-> d, whole |-> TRUE]
    BY <1>2
<1>4. Copied(n, c2)
  <2>1. c2[Len(c2)].whole /\ c2[Len(c2)].of.version = n - 1
    BY <1>1, <1>3
  <2> QED BY <1>3, <2>1 DEF Copied
<1>5. AtBody(n, Upgrades[n] \o Rest(n), d, c2)
    BY <1>1, <1>4, StepStatements
<1> QED BY <1>1, <1>3, <1>5, Zenon DEF Somewhere

LEMMA RecordRuns ==
    ASSUME NEW d, NEW s, NEW c, NEW n \in 1..Latest, Ahead(n, s, d, c), Head(s).do = "record"
    PROVE  Somewhere(Tail(s), d, c)
<1>0. Version(n).do = "version"
    BY Statements DEF Latest
<1>1. n >= 4 /\ d.version = n /\ Tail(s) = <<RotateBackups>> \o Later[n]
  <2>1. \A body \in Seq(Stmt) :
            body # <<>> /\ Prepares(n, body, d) => Head(body).do # "record"
    BY BodyHead
  <2> QED BY <1>0, <2>1, Zenon DEF Ahead
<1> QED BY <1>1, Zenon DEF Somewhere, AtRotate

LEMMA RotateRuns ==
    ASSUME NEW d, NEW s, NEW c, NEW c2, NEW n \in 1..Latest, Ahead(n, s, d, c), Head(s).do = "rotate"
    PROVE  Somewhere(Tail(s), d, c2)
<1>0. Version(n).do = "version"
    BY Statements DEF Latest
<1>1. n >= 4 /\ d.version = n /\ Tail(s) = Later[n]
  <2>1. \A body \in Seq(Stmt) :
            body # <<>> /\ Prepares(n, body, d) => Head(body).do # "rotate"
    BY BodyHead
  <2> QED BY <1>0, <2>1, Zenon DEF Ahead
<1>2. n \in 4..Latest
    BY <1>1 DEF Latest
<1>3. Somewhere(Later[n], d, c2)
    BY <1>1, <1>2, RotateGoesOn
<1> QED BY <1>1, <1>3, Zenon

LEMMA ReadRuns ==
    ASSUME NEW d, NEW s, NEW c, NEW n \in 1..Latest, Ahead(n, s, d, c), Head(s).do = "read"
    PROVE  Somewhere(migrateIfNeeded(d.version), d, c)
<1>0. Version(n).do = "version"
    BY Statements DEF Latest
<1>1. d.version = 1
  <2>1. \A body \in Seq(Stmt) :
            body # <<>> /\ Prepares(n, body, d) => Head(body).do # "read"
    BY BodyHead
  <2> QED BY <1>0, <2>1, Zenon DEF Ahead
<1>2. 2 \in 2..Latest /\ d.version = 2 - 1
    BY <1>1 DEF Latest
<1>3. Somewhere(upgradeTo(2, 1) \o Later[2], d, c)
    BY <1>2, StepStarts
<1> QED BY <1>1, <1>3, ChainFromOne, Zenon

LEMMA NewestSeq == ASSUME NEW c \in Seq(Copy) PROVE Newest(c) \in Seq(Copy)
<1>0. KeptBackups \in Nat \ {0} /\ Len(c) \in Nat
    BY SchemaBounds
<1>1. PICK k : k = IF Len(c) > KeptBackups THEN Len(c) - KeptBackups + 1 ELSE 1
    OBVIOUS
<1>2. k \in 1..(Len(c) + 1)
    BY <1>0, <1>1
<1>3. SubSeq(c, k, Len(c)) \in Seq(Copy)
    BY <1>0, <1>2, SubSeqProperties
<1> QED BY <1>1, <1>3 DEF Newest

LEMMA UpgradeStarts == SchemaInit => UpgradeInv
<1> SUFFICES ASSUME SchemaInit PROVE UpgradeInv
    OBVIOUS
<1>0. Latest = 8 /\ "broken_au" \notin Names /\ "messages_au" \in Names
    BY DEF Latest, Names
<1>1. PICK n \in 0..8 : db = Left(n)
    BY <1>0 DEF SchemaInit
<1>2. PICK all : all = UNION {Made(m) : m \in 1..n}
    OBVIOUS
<1>3. \A m \in 1..8 : Made(m) \subseteq Names /\ "broken_au" \notin Made(m)
    BY <1>0, NeverMade
<1>4. all \subseteq Names /\ "broken_au" \notin all /\ \A m \in 1..n : Made(m) \subseteq all
    BY <1>0, <1>2, <1>3
<1>5. /\ db.version = n /\ db.folded = (n \in {0, 8})
      /\ db.has = IF n \in 1..6 THEN (all \ {"messages_au"}) \cup {"broken_au"} ELSE all
      /\ db = [version |-> db.version, has |-> db.has, folded |-> db.folded]
    BY <1>0, <1>1, <1>2 DEF Left
<1>6. db \in Database
  <2>1. db.has \in SUBSET (Names \cup {"broken_au"})
    BY <1>4, <1>5
  <2>2. db.version \in 0..Latest /\ db.folded \in BOOLEAN
    BY <1>0, <1>5
  <2> QED BY <1>5, <2>1, <2>2 DEF Database
<1>7. "messages_au" \in Made(1)
  <2>1. PICK i \in DOMAIN schemaSQL : schemaSQL[i] = Make("messages_au")
    <3>1. PICK a, v : /\ a = MakeAll(<<"messages", "idx_messages_chat_ts", "messages_fts",
                                       "messages_ai", "messages_ad", "messages_au">>)
                      /\ v = <<Version(1)>>
        OBVIOUS
    <3>2. a \in Seq(Stmt) /\ v \in Seq(Stmt) /\ Len(a) = 6 /\ a[6] = Make("messages_au")
      <4>1. <<"messages", "idx_messages_chat_ts", "messages_fts",
              "messages_ai", "messages_ad", "messages_au">> \in Seq(Names)
        BY DEF Names
      <4>2. v \in Seq(Stmt)
        BY <3>1, Statements
      <4>3. a \in Seq(Stmt)
        BY <3>1, <4>1, MakeAlls
      <4>4. DOMAIN a = 1..6 /\ a[6] = Make("messages_au")
        BY <3>1 DEF MakeAll
      <4> QED BY <4>2, <4>3, <4>4
    <3>3. schemaSQL = a \o v
        BY <3>1 DEF schemaSQL
    <3>4. PICK u : u = a \o v
        OBVIOUS
    <3>5. /\ u \in Seq(Stmt) /\ Len(u) = Len(a) + Len(v) /\ Len(v) \in Nat
          /\ \A i \in 1..Len(u) : u[i] = IF i <= Len(a) THEN a[i] ELSE v[i - Len(a)]
      <4>1. a \in Seq(Stmt) /\ v \in Seq(Stmt)
        BY <3>2
      <4> QED BY <3>4, <4>1, ConcatProperties
    <3>6. 6 \in DOMAIN u /\ u[6] = Make("messages_au")
        BY <3>2, <3>5
    <3> QED BY <3>3, <3>4, <3>6
  <2>2. Upgrades[1] = schemaSQL
    BY DEF Upgrades
  <2>3. Make("messages_au").do = "make" /\ Make("messages_au").of = "messages_au"
    BY <1>0, Statements
  <2> QED BY <2>1, <2>2, <2>3 DEF Made, Range
<1>8. Claims(db)
  <2>1. \A m \in 1..n : Made(m) \ {"messages_au"} \subseteq db.has
    BY <1>4, <1>5
  <2>2. n >= 7 => "messages_au" \in db.has /\ "broken_au" \notin db.has
    BY <1>4, <1>5, <1>7
  <2>3. n >= 8 => db.folded
    <3>1. n >= 8 => n = 8
        OBVIOUS
    <3> QED BY <1>5, <3>1, Zenon
  <2> QED BY <1>5, <2>1, <2>2, <2>3 DEF Claims
<1>9. backups \in Seq(Copy) /\ held = "shut"
    BY DEF SchemaInit
<1> QED BY <1>6, <1>8, <1>9 DEF UpgradeInv

LEMMA UpgradeStep == UpgradeInv /\ [SchemaNext]_schemaVars => UpgradeInv'
<1> SUFFICES ASSUME UpgradeInv, [SchemaNext]_schemaVars PROVE UpgradeInv'
    OBVIOUS
<1>0. /\ db \in Database /\ backups \in Seq(Copy) /\ Claims(db)
      /\ held \in {"shut", "opening", "open"}
      /\ held = "opening" => Somewhere(script, db, backups)
      /\ held = "open" => db.version = Latest
    BY DEF UpgradeInv
<1>1. CASE OpenWithBackups
  <2>1. Somewhere(script', db', backups')
    <3>1. PICK d, c : d = db /\ c = backups
        OBVIOUS
    <3>2. 1 \in 1..Latest /\ Copied(1, c)
        BY DEF Latest, Copied
    <3>3. AtBody(1, Upgrades[1] \o Rest(1), d, c)
        BY <3>2, StepStatements
    <3>4. Rest(1) = <<ReadVersion>> \o <<>>
        BY Chain DEF Rest, Trailer
    <3>5. <<ReadVersion>> \o <<>> = <<ReadVersion>>
      <4>1. <<ReadVersion>> \in Seq(Stmt)
        BY Statements
      <4> QED BY <4>1, ConcatEmptySeq
    <3>6. Upgrades[1] = schemaSQL
        BY DEF Upgrades
    <3>7. AtBody(1, schemaSQL \o <<ReadVersion>>, d, c)
        BY <3>3, <3>4, <3>5, <3>6, Zenon
    <3>8. Somewhere(schemaSQL \o <<ReadVersion>>, d, c)
        BY <3>2, <3>7, Zenon DEF Somewhere
    <3> QED BY <1>1, <3>1, <3>8, Zenon DEF OpenWithBackups
  <2>2. db' = db /\ backups' = backups /\ held' = "opening"
    BY <1>1 DEF OpenWithBackups
  <2> QED BY <1>0, <2>1, <2>2 DEF UpgradeInv
<1>2. CASE MakeObject
  <2>1. /\ Reads("make") /\ script' = Tail(script) /\ held' = held /\ backups' = backups
        /\ db' = [db EXCEPT !.has = IF Head(script).of = "messages_au" /\ "broken_au" \in @
                                    THEN @ ELSE @ \cup {Head(script).of}]
    BY <1>2 DEF MakeObject, Done
  <2>2. Head(script).do = "make" /\ Head(script).of \in Names
    <3>1. PICK n \in 1..Latest : Ahead(n, script, db, backups)
        BY <2>1, OpenRuns
    <3>2. Head(script).do = "make"
        BY <2>1 DEF Reads
    <3>3. Version(n).do = "version"
        BY Statements DEF Latest
    <3>4. PICK s, d, c : s = script /\ d = db /\ c = backups
        OBVIOUS
    <3>5. Ahead(n, s, d, c) /\ Head(s).do = "make"
        BY <3>1, <3>2, <3>4
    <3>6. PICK body \in Seq(Stmt) : body # <<>> /\ Head(s) = Head(body) /\ Prepares(n, body, d)
        BY <3>3, <3>5, Zenon DEF Ahead
    <3>7. Head(s).of \in Names
        BY <3>5, <3>6, BodyHead
    <3> QED BY <3>2, <3>4, <3>7
  <2>3. db' \in Database /\ Effect(Head(script), db, db')
    BY <1>0, <2>1, <2>2 DEF Database, Effect
  <2> QED BY <2>1, <2>3, StatementStep
<1>3. CASE RemoveTrigger
  <2>1. /\ Reads("remove") /\ script' = Tail(script) /\ held' = held /\ backups' = backups
        /\ db' = [db EXCEPT !.has = @ \ {"messages_au", "broken_au"}]
    BY <1>3 DEF RemoveTrigger, Done
  <2>2. Head(script).do = "remove"
    BY <2>1 DEF Reads
  <2>3. db' \in Database /\ Effect(Head(script), db, db')
    BY <1>0, <2>1, <2>2 DEF Database, Effect
  <2> QED BY <2>1, <2>3, StatementStep
<1>4. CASE FoldCaptions
  <2>1. /\ Reads("fold") /\ script' = Tail(script) /\ held' = held /\ backups' = backups
        /\ db' = [db EXCEPT !.folded = TRUE]
    BY <1>4 DEF FoldCaptions, Done
  <2>2. Head(script).do = "fold"
    BY <2>1 DEF Reads
  <2>3. db' \in Database /\ Effect(Head(script), db, db')
    BY <1>0, <2>1, <2>2 DEF Database, Effect
  <2> QED BY <2>1, <2>3, StatementStep
<1>5. CASE SetVersion
  <2>1. /\ Reads("version") /\ script' = Tail(script) /\ held' = held /\ backups' = backups
        /\ db' = [db EXCEPT !.version = Head(script).of]
    BY <1>5 DEF SetVersion, Done
  <2>2. Head(script).do = "version" /\ held = "opening"
    BY <2>1 DEF Reads
  <2>3. PICK n \in 1..Latest : Ahead(n, script, db, backups)
    BY <2>1, OpenRuns
  <2>4. PICK s, d, c, e : s = script /\ d = db /\ c = backups /\ e = db'
    OBVIOUS
  <2>5. /\ d \in Database /\ Claims(d) /\ Ahead(n, s, d, c) /\ Head(s).do = "version"
        /\ e = [d EXCEPT !.version = Head(s).of]
    BY <1>0, <2>1, <2>2, <2>3, <2>4
  <2>6. e \in Database /\ Claims(e) /\ Somewhere(Tail(s), e, c)
    BY <2>5, VersionRuns
  <2> QED BY <1>0, <2>1, <2>2, <2>4, <2>6 DEF UpgradeInv
<1>6. CASE ReadUserVersion
  <2>1. /\ Reads("read") /\ script' = migrateIfNeeded(db.version)
        /\ db' = db /\ held' = held /\ backups' = backups
    BY <1>6 DEF ReadUserVersion
  <2>2. Head(script).do = "read" /\ held = "opening"
    BY <2>1 DEF Reads
  <2>3. PICK n \in 1..Latest : Ahead(n, script, db, backups)
    BY <2>1, OpenRuns
  <2>4. PICK s, d, c : s = script /\ d = db /\ c = backups
    OBVIOUS
  <2>5. Ahead(n, s, d, c) /\ Head(s).do = "read"
    BY <2>2, <2>3, <2>4
  <2>6. Somewhere(migrateIfNeeded(d.version), d, c)
    BY <2>5, ReadRuns
  <2> QED BY <1>0, <2>1, <2>2, <2>4, <2>6 DEF UpgradeInv
<1>7. CASE BackupBeforeMigrate
  <2>1. /\ Reads("backup") /\ script' = Tail(script) /\ db' = db /\ held' = held
        /\ backups' = Append(backups, [of |-> db, whole |-> TRUE])
    BY <1>7 DEF BackupBeforeMigrate, Done
  <2>2. Head(script).do = "backup" /\ held = "opening"
    BY <2>1 DEF Reads
  <2>3. PICK n \in 1..Latest : Ahead(n, script, db, backups)
    BY <2>1, OpenRuns
  <2>4. PICK s, d, c, c2 : s = script /\ d = db /\ c = backups /\ c2 = backups'
    OBVIOUS
  <2>5. /\ d \in Database /\ c \in Seq(Copy) /\ Ahead(n, s, d, c) /\ Head(s).do = "backup"
        /\ c2 = Append(c, [of |-> d, whole |-> TRUE])
    BY <1>0, <2>1, <2>2, <2>3, <2>4
  <2>6. c2 \in Seq(Copy) /\ Somewhere(Tail(s), d, c2)
    BY <2>5, BackupRuns
  <2> QED BY <1>0, <2>1, <2>2, <2>4, <2>6 DEF UpgradeInv
<1>8. CASE WriteHistoryRow
  <2>1. /\ Reads("record") /\ script' = Tail(script) /\ db' = db /\ held' = held
        /\ backups' = backups
    BY <1>8 DEF WriteHistoryRow, Done
  <2>2. Head(script).do = "record" /\ held = "opening"
    BY <2>1 DEF Reads
  <2>3. PICK n \in 1..Latest : Ahead(n, script, db, backups)
    BY <2>1, OpenRuns
  <2>4. PICK s, d, c : s = script /\ d = db /\ c = backups
    OBVIOUS
  <2>5. Ahead(n, s, d, c) /\ Head(s).do = "record"
    BY <2>2, <2>3, <2>4
  <2>6. Somewhere(Tail(s), d, c)
    BY <2>5, RecordRuns
  <2> QED BY <1>0, <2>1, <2>2, <2>4, <2>6 DEF UpgradeInv
<1>9. CASE pruneBackups
  <2>1. /\ Reads("rotate") /\ script' = Tail(script) /\ db' = db /\ held' = held
        /\ backups' = Newest(backups)
    BY <1>9 DEF pruneBackups, Done
  <2>2. Head(script).do = "rotate" /\ held = "opening"
    BY <2>1 DEF Reads
  <2>3. PICK n \in 1..Latest : Ahead(n, script, db, backups)
    BY <2>1, OpenRuns
  <2>4. PICK s, d, c, c2 : s = script /\ d = db /\ c = backups /\ c2 = backups'
    OBVIOUS
  <2>5. Ahead(n, s, d, c) /\ Head(s).do = "rotate"
    BY <2>2, <2>3, <2>4
  <2>6. Somewhere(Tail(s), d, c2)
    BY <2>5, RotateRuns
  <2>7. backups' \in Seq(Copy)
    BY <1>0, <2>1, NewestSeq
  <2> QED BY <1>0, <2>1, <2>2, <2>4, <2>6, <2>7 DEF UpgradeInv
<1>10. CASE Opened
  <2>1. /\ held = "opening" /\ script = <<>> /\ held' = "open" /\ db' = db
        /\ backups' \in {backups, Newest(backups)}
    BY <1>10 DEF Opened
  <2>2. PICK s, d, c : s = script /\ d = db /\ c = backups
    OBVIOUS
  <2>3. Somewhere(s, d, c) /\ s = <<>>
    BY <1>0, <2>1, <2>2
  <2>4. d.version = Latest
    BY <2>3, NextStatement
  <2>5. backups' \in Seq(Copy)
    BY <1>0, <2>1, NewestSeq
  <2> QED BY <1>0, <2>1, <2>2, <2>4, <2>5 DEF UpgradeInv
<1>11. CASE Interrupted
  <2>1. held' = "shut" /\ db' = db
    BY <1>11 DEF Interrupted, HalfCopied
  <2>2. backups' \in Seq(Copy)
    <3>1. [of |-> db, whole |-> FALSE] \in Copy
        BY <1>0 DEF Copy
    <3>2. backups' = backups \/ backups' = Append(backups, [of |-> db, whole |-> FALSE])
        BY <1>11 DEF Interrupted, HalfCopied
    <3> QED BY <1>0, <3>1, <3>2
  <2> QED BY <1>0, <2>1, <2>2 DEF UpgradeInv
<1>12. CASE CloseDatabase
  <2>1. held' = "shut" /\ db' = db /\ backups' = backups
    BY <1>12 DEF CloseDatabase
  <2> QED BY <1>0, <2>1 DEF UpgradeInv
<1>13. CASE UNCHANGED schemaVars
    BY <1>0, <1>13 DEF UpgradeInv, schemaVars
<1> QED BY <1>1, <1>2, <1>3, <1>4, <1>5, <1>6, <1>7, <1>8, <1>9, <1>10, <1>11, <1>12, <1>13
        DEF SchemaNext

\* A record with no backup before it is the one of step n, which is backed up.
Mine(n, s) ==
    \A i \in DOMAIN s :
        s[i].do = "record" /\ (\A j \in 1..i : s[j].do # "backup") => s[i].of = n /\ n >= 4

LEMMA MineJoined ==
    ASSUME NEW n, NEW a \in Seq(Stmt), NEW b \in Seq(Stmt), Mine(n, a), Mine(n, b)
    PROVE  Mine(n, a \o b)
<1>1. PICK u : u = a \o b
    OBVIOUS
<1>2. /\ u \in Seq(Stmt) /\ Len(u) = Len(a) + Len(b) /\ Len(a) \in Nat /\ Len(b) \in Nat
      /\ \A i \in 1..Len(u) : u[i] = IF i <= Len(a) THEN a[i] ELSE b[i - Len(a)]
    BY <1>1, ConcatProperties
<1>3. ASSUME NEW i \in DOMAIN u, u[i].do = "record", \A j \in 1..i : u[j].do # "backup"
      PROVE  u[i].of = n /\ n >= 4
  <2>1. CASE i <= Len(a)
    <3>1. i \in DOMAIN a /\ a[i] = u[i] /\ \A j \in 1..i : a[j] = u[j]
        BY <1>2, <2>1
    <3> QED BY <1>3, <3>1 DEF Mine
  <2>2. CASE ~(i <= Len(a))
    <3>1. PICK k : k = i - Len(a)
        OBVIOUS
    <3>2. /\ k \in DOMAIN b /\ b[k] = u[i]
          /\ \A j \in 1..k : j + Len(a) \in 1..i /\ b[j] = u[j + Len(a)]
        BY <1>2, <2>2, <3>1
    <3>3. \A j \in 1..k : b[j].do # "backup"
        BY <1>3, <3>2
    <3> QED BY <1>3, <3>2, <3>3 DEF Mine
  <2> QED BY <2>1, <2>2
<1>4. Mine(n, u)
    BY <1>3 DEF Mine
<1> QED BY <1>1, <1>4

LEMMA MineBacked ==
    ASSUME NEW n, NEW t \in Seq(Stmt) PROVE Mine(n, <<maybeBackup>> \o t)
<1>1. PICK u : u = <<maybeBackup>> \o t
    OBVIOUS
<1>2. maybeBackup \in Stmt /\ maybeBackup.do = "backup"
    BY Statements
<1>3. u \in Seq(Stmt) /\ u # <<>> /\ Head(u) = maybeBackup
    BY <1>1, <1>2, Prefixed
<1>4. u[1].do = "backup"
    BY <1>2, <1>3
<1>5. \A i \in DOMAIN u : 1 \in 1..i
    BY <1>3
<1>6. Mine(n, u)
    BY <1>4, <1>5 DEF Mine
<1> QED BY <1>1, <1>6

LEMMA MineBody ==
    ASSUME NEW n, NEW m, NEW d, NEW body \in Seq(Stmt), Prepares(m, body, d) PROVE Mine(n, body)
BY DEF Mine, Prepares

LEMMA MineVersion == ASSUME NEW n, NEW m \in Nat PROVE Mine(n, <<Version(m)>>)
<1>1. Version(m).do = "version"
    BY Statements
<1> QED BY <1>1 DEF Mine

\* What comes after a step has its own backups.
LEMMA MineLater == ASSUME NEW n, NEW m \in 1..Latest PROVE Mine(n, Later[m])
<1>0. Latest = 8 /\ Mine(n, <<>>)
    BY DEF Latest, Mine
<1>1. CASE m = 1 \/ m = 8
    BY <1>0, <1>1, Chain
<1>2. ASSUME NEW k \in 3..7 PROVE Mine(n, Later[k])
  <2>1. k \in 2..7 /\ k + 1 \in 2..Latest /\ k + 1 \in 1..Latest /\ ~(k + 1 < 4)
    BY <1>0
  <2>2. PICK q : q = k + 1
    OBVIOUS
  <2>3. q \in 2..Latest /\ q \in 1..Latest /\ ~(q < 4)
    BY <2>1, <2>2
  <2>4. Later[k] = upgradeTo(k + 1, 1) \o Later[k + 1]
    BY <2>1, Chain
  <2>5. Later[k] = <<maybeBackup>> \o (Upgrades[q] \o Rest(q))
    BY <2>2, <2>3, <2>4, StepBegins, Zenon
  <2>6. PICK t : t = Upgrades[q] \o Rest(q)
    OBVIOUS
  <2>7. t \in Seq(Stmt)
    <3>1. Upgrades[q] \in Seq(Stmt) /\ Rest(q) \in Seq(Stmt)
        BY <2>3, Chain
    <3>2. Cat(Upgrades[q], Rest(q)) \in Seq(Stmt)
        BY <3>1, CatSeq
    <3> QED BY <2>6, <3>2, Zenon DEF Cat
  <2>8. Mine(n, <<maybeBackup>> \o t)
    BY <2>7, MineBacked
  <2> QED BY <2>5, <2>6, <2>8, Zenon
<1>3. CASE m = 2
  <2>1. 3 \in 2..Latest /\ 3 \in 1..Latest /\ 3 < 4 /\ 2 \in 2..7 /\ 2 + 1 = 3 /\ 3 \in 3..7
    BY <1>0
  <2>2. Later[2] = upgradeTo(3, 1) \o Later[3]
    BY <2>1, Chain
  <2>3. upgradeTo(3, 1) = Upgrades[3]
    BY DEF upgradeTo
  <2>4. PICK body : BodyOf(3, body)
    BY <2>1, Bodies
  <2>5. Mine(n, body) /\ body \in Seq(Stmt) /\ Upgrades[3] = body \o <<Version(3)>>
    <3>1. body \in Seq(Stmt) /\ Upgrades[3] = body \o <<Version(3)>>
        BY <2>4 DEF BodyOf
    <3>2. Prepares(3, body, 0)
        BY <2>1, <2>4, Prepared
    <3> QED BY <3>1, <3>2, MineBody
  <2>6. <<Version(3)>> \in Seq(Stmt) /\ Mine(n, <<Version(3)>>)
    BY Statements, MineVersion
  <2>7. PICK u, l, v : u = Upgrades[3] /\ l = Later[3] /\ v = <<Version(3)>>
    OBVIOUS
  <2>8. Mine(n, u)
    <3>1. Mine(n, body \o v)
        BY <2>5, <2>6, <2>7, MineJoined
    <3> QED BY <2>5, <2>7, <3>1, Zenon
  <2>9. u \in Seq(Stmt) /\ l \in Seq(Stmt) /\ Mine(n, l)
    BY <1>2, <2>1, <2>7, Chain
  <2>10. Mine(n, u \o l)
    BY <2>8, <2>9, MineJoined
  <2> QED BY <1>3, <2>2, <2>3, <2>7, <2>10, Zenon
<1> QED BY <1>0, <1>1, <1>2, <1>3

LEMMA MineRest == ASSUME NEW n \in 1..Latest PROVE Mine(n, Rest(n))
<1>0. n \in Nat
    BY DEF Latest
<1>1. PICK t, l : t = Trailer(n) /\ l = Later[n]
    OBVIOUS
<1>2. t \in Seq(Stmt) /\ l \in Seq(Stmt) /\ Mine(n, l)
    BY <1>1, Chain, MineLater
<1>3. Mine(n, t)
  <2>1. /\ ReadVersion.do = "read" /\ RotateBackups.do = "rotate"
        /\ RecordMigration(n).of = n
    BY <1>0, Statements
  <2> QED BY <1>0, <1>1, <2>1 DEF Mine, Trailer
<1>4. Mine(n, t \o l)
    BY <1>2, <1>3, MineJoined
<1> QED BY <1>1, <1>4, Zenon DEF Rest

\* The step whose row is still to be written has its copy.
LEMMA CopiedInStep ==
    ASSUME NEW s, NEW d, NEW c, Somewhere(s, d, c), NEW m \in 4..Latest,
           NEW i \in DOMAIN s, s[i] = RecordMigration(m), \A j \in 1..i : s[j].do # "backup"
    PROVE  Copied(m, c)
<1>0. /\ s[i].do = "record" /\ s[i].of = m /\ m >= 4 /\ m \in Nat
    BY Statements DEF Latest
<1>1. ASSUME NEW n, Mine(n, s) PROVE n = m
    BY <1>0, <1>1 DEF Mine
<1>2. ASSUME Mine(0, s) PROVE FALSE
    BY <1>0, <1>2 DEF Mine
<1>3. ASSUME NEW n \in 1..Latest, AtBackup(n, s, d) PROVE FALSE
  <2>1. PICK t : t = Upgrades[n] \o Rest(n)
    OBVIOUS
  <2>2. t \in Seq(Stmt)
    <3>1. Upgrades[n] \in Seq(Stmt) /\ Rest(n) \in Seq(Stmt)
        BY Chain
    <3>2. Cat(Upgrades[n], Rest(n)) \in Seq(Stmt)
        BY <3>1, CatSeq
    <3> QED BY <2>1, <3>2, Zenon DEF Cat
  <2>3. s = <<maybeBackup>> \o t
    BY <1>3, <2>1, Zenon DEF AtBackup
  <2>4. Mine(0, <<maybeBackup>> \o t)
    BY <2>2, MineBacked
  <2> QED BY <1>2, <2>3, <2>4, Zenon
<1>4. ASSUME NEW n \in 1..Latest, AtBody(n, s, d, c) PROVE Copied(m, c)
  <2>1. PICK body \in Seq(Stmt) : Prepares(n, body, d) /\ s = body \o (<<Version(n)>> \o Rest(n))
    BY <1>4, Zenon DEF AtBody
  <2>2. PICK v, r : v = <<Version(n)>> /\ r = Rest(n)
    OBVIOUS
  <2>3. v \in Seq(Stmt) /\ r \in Seq(Stmt) /\ Mine(n, v) /\ Mine(n, r) /\ Mine(n, body)
    <3>1. n \in Nat
        BY DEF Latest
    <3>2. v \in Seq(Stmt) /\ r \in Seq(Stmt)
        BY <2>2, <3>1, Statements, Chain
    <3>3. Mine(n, v) /\ Mine(n, r)
        BY <2>2, <3>1, MineVersion, MineRest, Zenon
    <3>4. Mine(n, body)
        BY <2>1, MineBody
    <3> QED BY <3>2, <3>3, <3>4
  <2>4. PICK t : t = v \o r
    OBVIOUS
  <2>5. t \in Seq(Stmt) /\ Mine(n, t)
    BY <2>3, <2>4, MineJoined
  <2>6. Mine(n, body \o t)
    BY <2>3, <2>5, MineJoined
  <2>7. Mine(n, s)
    BY <2>1, <2>2, <2>4, <2>6, Zenon
  <2>8. n = m /\ Copied(n, c)
    BY <1>1, <1>4, <2>7, Zenon DEF AtBody
  <2> QED BY <2>8
<1>5. ASSUME NEW n \in 1..Latest PROVE Mine(0, <<RotateBackups>> \o Later[n])
  <2>1. PICK a, l : a = <<RotateBackups>> /\ l = Later[n]
    OBVIOUS
  <2>2. a \in Seq(Stmt) /\ l \in Seq(Stmt) /\ Mine(0, a) /\ Mine(0, l)
    <3>1. RotateBackups.do = "rotate"
        BY Statements
    <3>2. Mine(0, a)
        BY <2>1, <3>1 DEF Mine
    <3>3. Mine(0, l)
        BY <2>1, MineLater, Zenon
    <3>4. a \in Seq(Stmt) /\ l \in Seq(Stmt)
        BY <2>1, Statements, Chain
    <3> QED BY <3>2, <3>3, <3>4
  <2>3. Mine(0, a \o l)
    BY <2>2, MineJoined
  <2> QED BY <2>1, <2>3, Zenon
<1>6. ASSUME NEW n \in 1..Latest, AtRotate(n, s, d) PROVE FALSE
    BY <1>2, <1>5, <1>6, Zenon DEF AtRotate
<1>7. ASSUME NEW n \in 1..Latest, AtRecord(n, s, d, c) PROVE Copied(m, c)
  <2>0. n \in Nat
    BY DEF Latest
  <2>1. PICK a, b, l : a = <<RecordMigration(n)>> /\ b = <<RotateBackups>> /\ l = Later[n]
    OBVIOUS
  <2>2. /\ a \in Seq(Stmt) /\ b \in Seq(Stmt) /\ l \in Seq(Stmt)
    BY <2>0, <2>1, Statements, Chain
  <2>3. n >= 4 /\ Copied(n, c) /\ s = a \o (b \o l)
    BY <1>7, <2>1, Zenon DEF AtRecord
  <2>4. Mine(n, a)
    <3>1. RecordMigration(n).of = n
        BY <2>0, Statements
    <3> QED BY <2>1, <2>3, <3>1 DEF Mine
  <2>5. Mine(n, b) /\ Mine(n, l)
    <3>1. RotateBackups.do = "rotate"
        BY Statements
    <3>2. Mine(n, b)
        BY <2>1, <3>1 DEF Mine
    <3> QED BY <2>1, <3>2, MineLater
  <2>6. PICK t : t = b \o l
    OBVIOUS
  <2>7. t \in Seq(Stmt) /\ Mine(n, t)
    BY <2>2, <2>5, <2>6, MineJoined
  <2>8. Mine(n, a \o t)
    BY <2>2, <2>4, <2>7, MineJoined
  <2>9. n = m
    BY <1>1, <2>3, <2>6, <2>8, Zenon
  <2> QED BY <2>3, <2>9
<1>8. ASSUME AtRead(s, d) PROVE FALSE
  <2>1. ReadVersion.do = "read"
    BY Statements
  <2> QED BY <1>0, <1>8, <2>1 DEF AtRead
<1>9. ASSUME AtEnd(s, d) PROVE FALSE
    BY <1>9 DEF AtEnd
<1> QED BY <1>3, <1>4, <1>6, <1>7, <1>8, <1>9, Zenon DEF Somewhere

LEMMA UpgradeInvSafe == UpgradeInv => UpgradeIsSafe
<1> SUFFICES ASSUME UpgradeInv PROVE UpgradeIsSafe
    OBVIOUS
<1>1. ASSUME NEW n \in 4..Latest, InStep(n)
      PROVE  \E i \in DOMAIN backups : backups[i].whole /\ backups[i].of.version = n - 1
  <2>1. PICK i \in DOMAIN script : script[i] = RecordMigration(n)
                                   /\ \A j \in 1..i : script[j].do # "backup"
    BY <1>1 DEF InStep
  <2>2. Somewhere(script, db, backups)
    BY <1>1 DEF InStep, UpgradeInv
  <2>3. PICK s, d, c : s = script /\ d = db /\ c = backups
    OBVIOUS
  <2>4. /\ Somewhere(s, d, c) /\ i \in DOMAIN s /\ s[i] = RecordMigration(n)
        /\ \A j \in 1..i : s[j].do # "backup"
    BY <2>1, <2>2, <2>3
  <2>5. Copied(n, c)
    BY <2>4, CopiedInStep
  <2>6. n >= 4
    OBVIOUS
  <2> QED BY <2>3, <2>5, <2>6 DEF Copied
<1>2. Claims(db) /\ (held = "open" => db.version = Latest)
    BY DEF UpgradeInv
<1> QED BY <1>1, <1>2 DEF UpgradeIsSafe, Claims

-----------------------------------------------------------------------------
(* The daemon *)

\* A step of the daemon is, for each component, one of its steps or a stutter.
LEMMA Projection ==
  [Next]_daemonVars => /\ [InboxNext]_inboxVars /\ [RepairNext]_repairVars
                       /\ [WatchNext]_watchVars /\ [SchemaNext]_schemaVars
  BY Zenon DEF Next, daemonVars, LifeStep, InboxStep, SchemaStep, RepairStep, WatchStep

\* No message that the daemon has acknowledged, or reported as backfilled, is
\* missing from the history without an audit line or a deletion to account for
\* it, however the handler, the history worker, Adapter.Close and the end of
\* the process interleave.
THEOREM ReportedIsStoredHolds == Spec => []ReportedIsStored
<1>1. Init => InboxInv
  BY InboxInitOK DEF Init
<1>2. InboxInv /\ [Next]_daemonVars => InboxInv'
  BY InboxKept, Projection
<1>3. InboxInv => ReportedIsStored
  BY DEF InboxInv
<1> QED
  BY <1>1, <1>2, <1>3, PTL DEF Spec

\* A revoked message stays revoked, whatever a later history blob brings of it.
THEOREM StampsStayHolds == Spec => []StampsStay
<1>1. Init => InboxInv
  BY InboxInitOK DEF Init
<1>2. InboxInv /\ [Next]_daemonVars => InboxInv'
  BY InboxKept, Projection
<1>3. InboxInv => StampsStay
  BY DEF InboxInv
<1> QED
  BY <1>1, <1>2, <1>3, PTL DEF Spec

\* At most one call of ResyncAppState works on the collection, a worker whose
\* caller was cut short included, its worker's channel is the one a completion
\* finds in recoveryPending, and Adapter.Close leaves none under way.
THEOREM RepairsAreAloneHolds == Spec => []RepairsAreAlone
<1>1. Init => AloneInv
  BY AloneInit DEF Init
<1>2. AloneInv /\ [Next]_daemonVars => AloneInv'
  BY AloneKept, Projection
<1>3. AloneInv => RepairsAreAlone
  BY DEF AloneInv, RepairTypeOK, HolderInv, WorkerInv, JoinedInv, Inside,
         RepairsAreAlone, Repairing
<1> QED
  BY <1>1, <1>2, <1>3, PTL DEF Spec

\* While a stale line stays stale, the watchdog's next forced reconnect is at
\* most the cap away, and at most the cooldown when there was traffic since the
\* last one, for every threshold, cooldown and cap that the parsers can yield.
THEOREM HealsInTimeHolds == Spec => []HealsInTime
<1>1. Init => WatchInv
  BY WatchInitOK DEF Init
<1>2. WatchInv /\ [Next]_daemonVars => WatchInv'
  BY WatchKept, Projection
<1>3. WatchInv => HealsInTime
  BY TickFits, WatchdogBounds
  DEF WatchdogBounds, WatchInv, WatchTypes, StreakInv, GapInv, HealsInTime, Never, Waited
<1> QED
  BY <1>1, <1>2, <1>3, PTL DEF Spec

\* However often an upgrade of messages.db is killed or fails between two of its
\* statements and is begun again: user_version claims no step whose columns,
\* tables, trigger or folded captions are not all there, Open returns only a
\* store at the latest version, and from version 4 on a whole copy from before
\* a step lies among the backups while the step is at work, however few are kept.
THEOREM UpgradeIsSafeHolds == Spec => []UpgradeIsSafe
<1>1. Init => UpgradeInv
  BY UpgradeStarts DEF Init
<1>2. UpgradeInv /\ [Next]_daemonVars => UpgradeInv'
  BY UpgradeStep, Projection
<1>3. UpgradeInv => UpgradeIsSafe
  BY UpgradeInvSafe
<1> QED
  BY <1>1, <1>2, <1>3, PTL DEF Spec
=============================================================================
