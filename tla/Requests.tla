------------------------------ MODULE Requests ------------------------------
(***************************************************************************)
(* The daemon at work on requests: calls in flight run the programs of     *)
(* Commands one step at a time, over the state they share: the daily       *)
(* quotas of the group administration, the book of pinned chats, and the   *)
(* device that a logout retires for the rest of the process.               *)
(*                                                                         *)
(* used, slack and unseen are not the program's: they record what really   *)
(* happened at WhatsApp.                                                   *)
(***************************************************************************)
EXTENDS Admin, FiniteSets

CONSTANTS
    Slots,       \* calls in flight
    Chats,       \* chats that are pinned
    MaxPins,     \* chatstate.go maxPinnedChats (3)
    Cap,         \* groupadmin.go: uses of a quota in one day (5 groups, 50 participants)
    LastDay,     \* bound on the days
    MostAdded,   \* bound on the participants of one call
    MostUsed     \* bound on the uses of a quota in one day

ASSUME RequestsAssumption ==
    /\ IsFiniteSet(Slots) /\ Slots # {} /\ IsFiniteSet(Chats)
    /\ MaxPins \in Nat /\ LastDay \in Nat /\ MostAdded \in Nat \ {0} /\ MostUsed \in Nat
    /\ DOMAIN Cap = {"create", "add"} /\ \A q \in DOMAIN Cap : Cap[q] \in Nat

Quotas == DOMAIN Cap

VARIABLES
    focus,     \* which calls this behaviour is about, chosen once
    call,      \* the call in each slot
    day,       \* the UTC day
    count,     \* reserved uses of each quota and the day they are counted for
    pinned,    \* the book of pinned chats
    retired,   \* the device was logged out
    used,      \* groups created and participants added today
    slack,     \* uses of today the quotas do not know of
    pins,      \* the chats pinned at WhatsApp
    unseen     \* those of them the book may miss
vars == <<focus, call, day, count, pinned, retired, used, slack, pins, unseen>>

Scopes == {"local", "read", "send", "admin"}

-----------------------------------------------------------------------------
(* Scopes *)

ReadMethods ==
    {"status", "health", "messages", "history", "thread.get", "messages.search", "messages.list",
     "groups", "groups.get", "contacts.lookup", "contacts.search", "contacts.list",
     "contacts.profilePhoto", "contact.resolve", "contact.blocklist", "media.resolve",
     "media.download", "media.fetchBytes", "media.list", "draft.list", "draft.get",
     "webhook.list", "webhook.deliveries", "schedule.list", "labels.list", "embeddings.status",
     "privacy.get", "export", "chat.list", "sync.status", "search", "config.features"}
SendMethods ==
    {"send", "sendMedia", "react", "markRead", "sendSeen", "send.reply", "send.buttonResponse",
     "send.listResponse", "chat.composing", "presence.composing.start",
     "presence.composing.stop", "presence.recording.start", "presence.recording.stop",
     "draft.approve", "draft.create", "draft.reject", "webhook.replay", "message.forward",
     "message.star", "message.setDisappearing", "contacts.annotate", "contacts.sync",
     "contacts.resolve.confirm", "wait", "media.gc", "poll.create", "poll.vote", "sync.force",
     "media.upload", "message.revoke/self"}
AdminMethods ==
    {"pair", "panic", "allow", "contact.block", "contact.unblock", "chat.archive", "chat.mute",
     "chat.pin", "chat.markUnread", "privacy.set", "session.logout", "session.logoutAll",
     "profile.setName", "profile.setStatus", "group.create", "group.leave",
     "group.addParticipants", "group.removeParticipants", "group.promote", "group.demote",
     "group.edit", "group.inviteGet", "group.inviteRevoke", "group.inviteJoin",
     "message.revoke", "message.edit", "schedule.send", "schedule.cancel", "schedule.update",
     "labels.create", "labels.delete", "labels.assign", "labels.unassign", "embeddings.purge",
     "admin.reload", "appstate.resync", "webhook.add", "webhook.remove", "admin.audit.rotate",
     "purge", "debug.pprof.profile"}
\* Mutant: the wrong way round, granted <= required.
ScopeReversed(method, granted) ==
    CASE granted = "admin" -> method \in AdminMethods
      [] granted = "send" -> method \in SendMethods \cup AdminMethods
      [] granted = "read" -> method \in ReadMethods \cup SendMethods \cup AdminMethods
\* A method in no list is refused, whatever the token.
AllowedScope(method, granted) ==
    CASE granted = "read" -> method \in ReadMethods
      [] granted = "send" -> method \in ReadMethods \cup SendMethods
      [] granted = "admin" -> method \in ReadMethods \cup SendMethods \cup AdminMethods

-----------------------------------------------------------------------------
(* What is called *)

\* Two calls at once only where they meet, at the quotas and at the pins, and
\* there from the moment their handlers have let them through.
AtPort(m, gates, p) == [method |-> m, gates |-> gates, todo |-> p]
Together ==
    [groups |-> {AtPort("group.create", {"group.add"}, GroupAdmin_Create),
                 AtPort("group.addParticipants", {"group.add"}, AddParticipants)},
     pins |-> {AtPort("chat.pin", {"chat_state"}, Pin("pin")),
               AtPort("chat.pin", {"chat_state"}, Pin("unpin"))}]
Programs(scope) ==
    IF scope = "local"
    THEN waCommands \cup wadCommands
    ELSE UNION {UNION {handleRPC(via, m) : m \in DOMAIN Methods}
                \cup UNION {handleMediaUpload(via), handleMediaFetch(via), handleMCP(via, scope),
                            handleVersion, sendMediaCmd(via), mediaFetchCmd(via), pairCmd(via)} :
                    via \in {"scoped"} \cup (IF scope = "admin" THEN {"env"} ELSE {})}

\* gates: the actions the safety pipeline let through; did: changes at WhatsApp;
\* wrote: changes of local stores; logged: audit rows handed over; amount, chat:
\* participants to add, chat to pin; on: the day of the reservation; lost: an
\* answer of WhatsApp or of the daemon did not arrive; unrecorded: the idempotency
\* sidecar did not take the answer.
Idle == [phase |-> "idle", scope |-> "local", method |-> "", todo |-> <<>>, gates |-> {},
         did |-> {}, wrote |-> {}, logged |-> FALSE, amount |-> 0, chat |-> "", on |-> 0,
         lost |-> FALSE, unrecorded |-> FALSE]

Init ==
    /\ focus \in {"methods", "groups", "pins"}
    /\ call = [s \in Slots |-> Idle]
    /\ day = 0
    /\ count = [q \in Quotas |-> [n |-> 0, day |-> 0]]
    /\ pinned = {}
    /\ retired = FALSE
    /\ used = [q \in Quotas |-> 0]
    /\ slack = [q \in Quotas |-> 0]
    /\ pins = {}
    /\ unseen = {}

Shared == <<day, count, pinned, retired, used, slack, pins, unseen>>

\* Outside Together one call at a time, on quotas and pins as they were at boot.
Start(s) ==
    /\ focus = "methods"
    /\ \A t \in Slots : call[t].phase = "idle"
    /\ pins = {} /\ \A q \in Quotas : used[q] = 0 /\ count[q].n = 0
    /\ \E scope \in Scopes : \E p \in Programs(scope) :
        call' = [call EXCEPT ![s] = [Idle EXCEPT !.phase = "running", !.scope = scope, !.todo = p,
                                                 !.amount = 1, !.chat = CHOOSE c \in Chats : TRUE]]
    /\ UNCHANGED <<focus, Shared>>

StartTogether(s) ==
    /\ focus # "methods"
    /\ call[s].phase = "idle"
    /\ \A q \in Quotas : used[q] < MostUsed
    /\ \E r \in Together[focus], n \in 1..MostAdded, c \in Chats :
        /\ focus = "pins" => n = 1
        /\ focus = "groups" => c = CHOOSE d \in Chats : TRUE
        /\ call' = [call EXCEPT ![s] = [Idle EXCEPT !.phase = "running", !.method = r.method,
                                                    !.gates = r.gates, !.todo = r.todo,
                                                    !.amount = n, !.chat = c]]
    /\ UNCHANGED <<focus, Shared>>

\* The answer was read; the slot is free.
Finish(s) ==
    /\ call[s].phase \in {"ok", "error"}
    /\ call' = [call EXCEPT ![s] = Idle]
    /\ UNCHANGED <<focus, Shared>>

-----------------------------------------------------------------------------
(* One step of a call.  On moves past the step, Abort ends the call there  *)

Next1(s) == Head(call[s].todo)
At(s, kinds) == call[s].phase = "running" /\ call[s].todo # <<>> /\ Next1(s).kind \in kinds

\* The call c, past its first step.
Past(c) == [c EXCEPT !.todo = Tail(@), !.phase = IF Len(c.todo) = 1 THEN "ok" ELSE "running"]
On(s, c) == call' = [call EXCEPT ![s] = Past(c)]
Failed(c) ==
    [c EXCEPT !.todo = <<>>, !.phase = "error", !.logged = @ \/ Head(c.todo).logs,
              !.unrecorded = Head(c.todo).on = "sidecar"]
Abort(s, c) == call' = [call EXCEPT ![s] = Failed(c)]

\* What follows the first step of one of these kinds.
After(todo, kinds) ==
    LET i == CHOOSE i \in 1..Len(todo) : /\ todo[i].kind \in kinds
                                         /\ \A j \in 1..(i-1) : todo[j].kind \notin kinds
    IN SubSeq(todo, i, Len(todo))

Quiet == UNCHANGED <<focus, Shared>>

\* Steps that change nothing shared.
Proceed(s) ==
    /\ At(s, {"check", "alive", "end", "enough", "hit", "log", "open", "reply"})
    /\ Next1(s).kind = "alive" => ~retired
    /\ LET c == call[s] IN
        \/ On(s, [c EXCEPT !.logged = @ \/ Next1(s).kind = "log",
                           !.method = IF Next1(s).kind = "open" THEN Next1(s).on ELSE @])
        \/ /\ Next1(s).kind = "enough"
           /\ call' = [call EXCEPT ![s].todo = After(@, {"end"})]
        \/ /\ Next1(s).kind = "hit"
           /\ call' = [call EXCEPT ![s].todo = After(@, {"reply"})]
    /\ Quiet

Admitted(s) ==
    /\ At(s, {"admit"})
    /\ LET m == IF Next1(s).on = "message.revoke/self" THEN "message.revoke" ELSE Next1(s).on
           c == [call[s] EXCEPT !.method = m]
       IN
        IF AllowedScope(Next1(s).on, c.scope) THEN On(s, c) ELSE Abort(s, c)
    /\ Quiet

\* refundCreateSlot, refundAddSlots: back to the counter of whatever day it counts.
Refunded(q, c) ==
    LET back == IF count[q].n < c.amount THEN count[q].n ELSE c.amount
    IN [n |-> count[q].n - back, day |-> count[q].day]
\* The uses of today that a refund of c makes the counter forget: what was done
\* all the same, and what the counter holds for calls of today if c is not one.
Forgotten(q, c, done) ==
    IF count[q].day = day THEN (IF c.on = day THEN done ELSE count[q].n - Refunded(q, c).n) ELSE 0

\* The step fails, and done uses of its quota were used all the same.
Fails(s, done) ==
    LET c == call[s]
        q == Next1(s).quota
    IN /\ Abort(s, c)
       /\ IF q = NoQuota THEN UNCHANGED <<count, slack>>
          ELSE /\ count' = [count EXCEPT ![q] = Refunded(q, c)]
               /\ slack' = [slack EXCEPT ![q] = @ + Forgotten(q, c, done)]

\* A condition does not hold, a store or the server does not answer.
Refuse(s) ==
    /\ At(s, {"check", "never", "alive", "put"})
    /\ Next1(s).kind = "alive" => retired
    /\ Fails(s, IF "newgroup" \in call[s].did THEN call[s].amount ELSE 0)
    /\ UNCHANGED <<focus, day, pinned, retired, used, pins, unseen>>

PassGate(s) ==
    /\ At(s, {"gate"})
    /\ \/ On(s, [call[s] EXCEPT !.gates = @ \cup {Next1(s).on}])
       \/ Abort(s, [call[s] EXCEPT !.logged = TRUE])
    /\ Quiet

Store(s) ==
    /\ At(s, {"put", "keep"})
    /\ \/ On(s, [call[s] EXCEPT !.wrote = @ \cup {Next1(s).on}])
       \/ Next1(s).kind = "keep" /\ On(s, call[s])
    /\ Quiet

\* Mutant: the counter is looked at without the uses asked for.
ReserveUpToCap(s) ==
    /\ At(s, {"reserve"})
    /\ LET q == Next1(s).on
           c == [call[s] EXCEPT !.on = day, !.amount = IF q = "create" THEN 1 ELSE @]
           n == IF count[q].day = day THEN count[q].n ELSE 0
       IN /\ count' = [count EXCEPT ![q] = [n |-> IF n < Cap[q] THEN n + c.amount ELSE n, day |-> day]]
          /\ IF n < Cap[q] THEN On(s, c) ELSE Abort(s, c)
    /\ UNCHANGED <<focus, day, pinned, retired, used, slack, pins, unseen>>
\* reserveCreateSlot, reserveAddSlots: a new day empties the counter first.
ReserveSlots(s) ==
    /\ At(s, {"reserve"})
    /\ LET q == Next1(s).on
           c == [call[s] EXCEPT !.on = day, !.amount = IF q = "create" THEN 1 ELSE @]
           n == IF count[q].day = day THEN count[q].n ELSE 0
       IN IF n + c.amount > Cap[q]
          THEN /\ count' = [count EXCEPT ![q] = [n |-> n, day |-> day]]
               /\ Abort(s, c)
          ELSE /\ count' = [count EXCEPT ![q] = [n |-> n + c.amount, day |-> day]]
               /\ On(s, c)
    /\ UNCHANGED <<focus, day, pinned, retired, used, slack, pins, unseen>>

-----------------------------------------------------------------------------
(* A change at WhatsApp *)

QuotaOf(effect) == CASE effect = "newgroup" -> "create" [] effect = "members" -> "add" [] OTHER -> NoQuota

\* n uses of today; a reservation of another day does not cover them.
Use(s, effect, n) ==
    LET q == QuotaOf(effect)
    IN used' = IF q = NoQuota THEN used ELSE [used EXCEPT ![q] = @ + n]
Uncovered(s, effect, n) ==
    LET q == QuotaOf(effect)
    IN IF q # NoQuota /\ call[s].on # day THEN [slack EXCEPT ![q] = @ + n] ELSE slack

Change(s, effect) ==
    /\ pins' = CASE effect = "pin" -> pins \cup {call[s].chat}
                 [] effect = "unpin" -> pins \ {call[s].chat}
                 [] OTHER -> pins
    /\ retired' = (retired \/ effect = "logout")

Done(s) ==
    /\ At(s, {"do", "try"})
    /\ LET effect == Next1(s).on IN
        /\ On(s, [call[s] EXCEPT !.did = @ \cup {effect}])
        /\ Use(s, effect, call[s].amount)
        /\ slack' = Uncovered(s, effect, call[s].amount)
        /\ Change(s, effect)
    /\ UNCHANGED <<focus, day, count, pinned, unseen>>

NotDone(s) ==
    /\ At(s, {"do", "try"})
    /\ IF Next1(s).kind = "try" THEN On(s, call[s]) /\ UNCHANGED <<count, slack>> ELSE Fails(s, 0)
    /\ UNCHANGED <<focus, day, pinned, retired, used, pins, unseen>>

\* Done, wholly or for some of the participants, and answered with an error or
\* not at all.
DoneAndFailed(s) ==
    /\ At(s, {"do"})
    /\ LET effect == Next1(s).on
           q == QuotaOf(effect)
           c == [call[s] EXCEPT !.did = @ \cup {effect}, !.lost = TRUE]
       IN \E n \in IF effect = "members" THEN 1..call[s].amount ELSE {call[s].amount} :
            /\ Abort(s, c)
            /\ Use(s, effect, n)
            /\ IF q = NoQuota THEN UNCHANGED <<count, slack>>
               ELSE /\ count' = [count EXCEPT ![q] = Refunded(q, c)]
                    /\ slack' = [slack EXCEPT ![q] =
                                    @ + Forgotten(q, c, n) + IF c.on # day THEN n ELSE 0]
            /\ Change(s, effect)
            /\ unseen' = IF effect = "pin" THEN unseen \cup {call[s].chat} ELSE unseen
    /\ UNCHANGED <<focus, day, pinned>>

-----------------------------------------------------------------------------
(* The book of pinned chats *)

\* Mutant: one more than there is room for.
LookForRoomAndOne(s) ==
    /\ At(s, {"room"})
    /\ IF Cardinality(pinned) <= MaxPins THEN On(s, call[s]) ELSE Abort(s, call[s])
    /\ Quiet
LookForRoom(s) ==
    /\ At(s, {"room"})
    /\ IF call[s].chat \in pinned \/ Cardinality(pinned) < MaxPins THEN On(s, call[s]) ELSE Abort(s, call[s])
    /\ Quiet

\* An unpin noted after a later pin of the same chat strikes that one out.
NotePin(s) ==
    /\ At(s, {"pinned"})
    /\ pinned' = IF Next1(s).on = "pin" THEN pinned \cup {call[s].chat} ELSE pinned \ {call[s].chat}
    /\ unseen' = IF Next1(s).on = "unpin" /\ call[s].chat \in pins
                 THEN unseen \cup {call[s].chat} ELSE unseen \ {call[s].chat}
    /\ On(s, call[s])
    /\ UNCHANGED <<focus, day, count, retired, used, slack, pins>>

-----------------------------------------------------------------------------
(* Around the calls *)

\* The connection breaks, or the client stops waiting: the call runs on, or is
\* over already, and the client has an error.
LoseReply(s) ==
    /\ At(s, {"reply"})
    /\ call' = [call EXCEPT ![s] = [@ EXCEPT !.todo = <<>>, !.phase = "error", !.lost = TRUE]]
    /\ Quiet

Midnight ==
    /\ focus = "groups"
    /\ day < LastDay
    /\ day' = day + 1
    /\ used' = [q \in Quotas |-> 0]
    /\ slack' = [q \in Quotas |-> 0]
    /\ UNCHANGED <<focus, call, count, pinned, retired, pins, unseen>>

\* The process ends, the counters and the book with it; nobody has an answer.
Restart ==
    /\ call' = [s \in Slots |->
                    IF call[s].phase = "running"
                    THEN [call[s] EXCEPT !.todo = <<>>, !.phase = "error", !.lost = TRUE] ELSE call[s]]
    /\ count' = [q \in Quotas |-> [n |-> 0, day |-> 0]]
    /\ pinned' = {}
    /\ retired' = FALSE
    /\ slack' = used
    /\ unseen' = pins
    /\ UNCHANGED <<focus, day, used, pins>>

StepOf(s) ==
    \/ Proceed(s) \/ Admitted(s) \/ Refuse(s) \/ PassGate(s) \/ Store(s) \/ ReserveSlots(s)
    \/ Done(s) \/ NotDone(s) \/ DoneAndFailed(s) \/ LookForRoom(s) \/ NotePin(s) \/ LoseReply(s)

Next ==
    \/ \E s \in Slots : Start(s) \/ StartTogether(s) \/ StepOf(s) \/ Finish(s)
    \/ Midnight
    \/ Restart

Spec == Init /\ [][Next]_vars

-----------------------------------------------------------------------------
(* Properties *)

Effects == {"message", "receipt", "presence", "appstate", "pin", "unpin", "newgroup", "members",
            "group", "blocklist", "settings", "logout", "link", "peer"}
Stores == {"history", "avatars", "media", "files", "file", "contacts", "drafts", "schedule",
           "webhooks", "deliveries", "transcripts", "allowlist", "audit",
           "rotation", "sidecar", "tokens", "last_used", "profiles", "units"}

\* Type invariant: the calls in flight, the counters and the book of pins.
TypeOK ==
    /\ focus \in {"methods", "groups", "pins"}
    /\ \A s \in Slots :
        /\ call[s].phase \in {"idle", "running", "ok", "error"}
        /\ call[s].scope \in Scopes
        /\ call[s].did \subseteq Effects /\ call[s].wrote \subseteq Stores
        /\ call[s].phase = "running" => call[s].todo # <<>>
    /\ \A q \in Quotas : count[q].n \in 0..Cap[q] /\ count[q].day \in 0..LastDay
    /\ pinned \subseteq Chats /\ pins \subseteq Chats /\ unseen \subseteq Chats
    /\ retired \in BOOLEAN

\* What a token can cause, by its scope.  A read token fills caches and nothing
\* else.  A send token sends, files drafts and edits the local address book; it
\* touches no group, no setting, no session, no grant, no endpoint; it reaches the
\* schedule, an admin matter over /rpc, through the MCP tools only.
Reach ==
    [read |-> {"media", "avatars", "transcripts", "file", "last_used"},
     send |-> {"media", "avatars", "transcripts", "file", "message", "receipt", "presence",
               "appstate", "peer", "history", "drafts", "contacts", "deliveries", "sidecar",
               "schedule", "last_used"}]
ScopeBounds ==
    \A s \in Slots : call[s].scope \in DOMAIN Reach =>
        call[s].did \cup call[s].wrote \subseteq Reach[call[s].scope]

\* allowlist_middleware.go methodActions: the action each method is gated on.
methodActions ==
    [m \in {"send", "sendMedia", "send.reply", "react", "poll.create", "poll.vote",
            "message.forward", "message.star"} |-> "send"]
    @@ ("markRead" :> "read") @@ ("message.revoke" :> "revoke") @@ ("message.edit" :> "edit")
    @@ [m \in {"message.setDisappearing", "chat.archive", "chat.mute", "chat.pin",
               "chat.markUnread"} |-> "chat_state"]
    @@ [m \in {"chat.composing", "presence.composing.start", "presence.composing.stop",
               "presence.recording.start", "presence.recording.stop"} |-> "presence"]
    @@ [m \in {"contact.block", "contact.unblock"} |-> "block"]
    @@ ("group.create" :> "group.create") @@ ("group.leave" :> "group.leave")
    @@ ("group.addParticipants" :> "group.add") @@ ("group.removeParticipants" :> "group.remove")
    @@ ("group.promote" :> "group.promote") @@ ("group.demote" :> "group.demote")
    @@ ("group.edit" :> "group.edit")
    @@ [m \in {"group.inviteRevoke", "group.inviteJoin"} |-> "group.invite"]
    @@ ("privacy.set" :> "privacy.set")
    @@ [m \in {"profile.setName", "profile.setStatus"} |-> "profile.edit"]
    @@ ("session.logoutAll" :> "logout_all") @@ ("session.logout" :> "logout")

\* Every method of the table changes something at WhatsApp only after the safety
\* pipeline let its action through.  The comment over the table says the allowlist
\* middleware consults it; no code does.
ActionIsGated ==
    \A s \in Slots : call[s].did # {} /\ call[s].method \in DOMAIN methodActions =>
        methodActions[call[s].method] \in call[s].gates

\* The methods of the table whose handlers ask for no action at all, and the one
\* that asks for another (group.create asks for group.add of each participant).
Ungated ==
    {"poll.create", "contact.block", "contact.unblock", "group.create", "group.leave",
     "group.removeParticipants", "group.promote", "group.demote", "group.edit",
     "group.inviteRevoke", "group.inviteJoin", "privacy.set", "profile.setName",
     "profile.setStatus", "session.logout"}
\* What the handlers do promise: outside that list nothing is sent, read, revoked,
\* edited, typed or changed in a chat before its action was let through, on any
\* surface and on any path through the handler.
GatedUnlessListed ==
    \A s \in Slots :
        call[s].did # {} /\ call[s].method \in DOMAIN methodActions \ Ungated =>
            methodActions[call[s].method] \in call[s].gates

\* Sending leaves a trace: whoever gets the answer ok for a message, a receipt or a
\* revocation, the handler handed a row to the audit log.  Polls, labels and chat
\* state are the exceptions.
OkIsLogged ==
    \A s \in Slots :
        call[s].phase = "ok" /\ call[s].did \cap {"message", "receipt", "link"} # {} =>
            call[s].logged \/ call[s].method \in {"poll.create"}

\* An error after the change was made: the answer of WhatsApp or of the daemon was
\* lost, the idempotency record could not be written, or it is one of the calls that
\* go on after the change (the stamp of a revocation or an edit, the fields of a
\* group after the first, the translation of a group, wa pair --reset after the
\* logout).  A retry of any other call that failed cannot repeat what it did.
HalfDone ==
    {"message.revoke", "message.edit", "group.edit", "group.create", "group.inviteJoin",
     "session.logout", "pair"}
ErrorMeansUndone ==
    \A s \in Slots :
        call[s].phase = "error" /\ call[s].did \ {"presence", "peer"} # {} =>
            call[s].lost \/ call[s].unrecorded \/ call[s].method \in HalfDone

\* The daily caps on new groups and added participants hold, up to the uses that
\* the counters lose: refunds of what was done all the same, reservations carried
\* over midnight, and a restart.
QuotaHolds == \A q \in Quotas : used[q] <= Cap[q] + slack[q]

\* The pin limit is looked at and noted in two critical sections with the patch
\* between them: calls in flight can pass it, each by one, and no more than that.
PinBound == Cardinality(pins \ unseen) <= MaxPins + Cardinality(Slots) - 1
=============================================================================
