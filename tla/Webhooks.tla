------------------------------ MODULE Webhooks ------------------------------
(***************************************************************************)
(* Outbound webhooks: the WebhookWorker's fan-out and delivery loops, the  *)
(* webhook.* handlers and webhooks.db, over several lives of the daemon.   *)
(*                                                                         *)
(* Each SQL statement is one step: MarkDelivered, MarkFailed and           *)
(* RemoveEndpoint run two statements without a transaction. Time is kept   *)
(* relative, as how late each delivery is.                                 *)
(***************************************************************************)
EXTENDS Integers, FiniteSets, Sequences

CONSTANTS
    Endpoints,    \* endpoint ids (random, never reused)
    Ids,          \* delivery ids (random, never reused)
    Types,        \* event types
    Topics,       \* Topics[e]: the event types endpoint e subscribes to
    Backoff,      \* webhookBackoffSec: the wait after the n-th attempt
    DeadStreak,   \* disableAfterDeadStreak
    Limit,        \* deliveries taken by one scan
    BufSize,      \* the worker's subscription buffer
    Crashes,      \* the daemon may stop or die
    MaxLate,      \* bound: lateness is not told apart beyond this
    MaxReplays,   \* bound on webhook.replay calls
    MaxLives,     \* bound on boots
    MaxErrors,    \* bound on I/O errors of the worker's store calls
    NoId          \* null value

MaxAttempts == Len(Backoff)
Lateness == Int

ASSUME WebhookAssumption ==
    /\ Backoff \in Seq(Nat) /\ Backoff # <<>>
    /\ Topics \in [Endpoints -> SUBSET Types]
    /\ {DeadStreak, Limit, BufSize, MaxLives} \subseteq Nat \ {0}
    /\ {MaxLate, MaxReplays, MaxErrors} \subseteq Nat
    /\ Crashes \in BOOLEAN
    /\ NoId \notin Ids \cup Endpoints

VARIABLES
    proc,      \* the daemon: "up", "draining" (context cancelled), "down"
    ep,        \* webhook_endpoints
    del,       \* webhook_deliveries
    chan,      \* events in the worker's subscription buffer
    fan,       \* endpoints that fanOut has listed and not enqueued for yet
    batch,     \* deliveries that deliverDue has read and not attempted yet
    work,      \* the attempt in progress
    removing,  \* webhook.remove calls between their two statements
    life, errors,
    posts,     \* observation: POSTs of a delivery
    accepted,  \* observation: deliveries a receiver has taken
    marks,     \* observation: times a delivery was stored as delivered
    replays,   \* observation: webhook.replay calls answered, per delivery
    armed,     \* observation: replayed deliveries not picked up since
    deadRun    \* observation: deliveries stored dead since one was delivered

obs == <<posts, accepted, marks, replays, armed, deadRun>>
memVars == <<chan, fan, batch, work, removing>>
vars == <<proc, ep, del, memVars, life, errors, obs>>

-----------------------------------------------------------------------------
(* Types *)

Live == {"pending", "delivered", "dead"}
Delivery == [state : {"free", "deleted"} \cup Live, ep : Endpoints \cup {NoId},
             attempts : Nat, late : Lateness]
Endpoint == [state : {"free", "enabled", "disabled", "removing", "removed"},
             streak : Nat]
Due == [id : Ids, ep : Endpoints, attempts : Nat, late : Lateness]
NoWork == [pc |-> "idle", id |-> NoId, ep |-> NoId, attempts |-> 0]
Work == {NoWork} \cup
        [pc : {"post", "ok", "reset", "failed", "bump"}, id : Ids,
         ep : Endpoints, attempts : Nat]

TypeOK ==
    /\ proc \in {"up", "draining", "down"}
    /\ ep \in [Endpoints -> Endpoint]
    /\ del \in [Ids -> Delivery]
    /\ chan \in Seq(Types) /\ Len(chan) <= BufSize
    /\ fan \subseteq Endpoints
    /\ batch \subseteq Due /\ Cardinality(batch) <= Limit
    /\ work \in Work
    /\ removing \subseteq Endpoints
    /\ life \in 1..MaxLives
    /\ errors \in 0..MaxErrors
    /\ posts \in [Ids -> Nat]
    /\ accepted \subseteq Ids
    /\ marks \in [Ids -> Nat]
    /\ replays \in [Ids -> Nat]
    /\ armed \subseteq Ids
    /\ deadRun \in [Endpoints -> Nat]

ctxDone == proc = "draining"

\* Rows that statements of the given ids still find.
Stored(d) == del[d].state \in Live
Registered(e) == ep[e].state \in {"enabled", "disabled"}

-----------------------------------------------------------------------------
(* Fan-out *)

\* The bridge offers an event to the worker; a full buffer drops it.
Publish(t) ==
    /\ proc = "up"
    /\ chan' = IF Len(chan) < BufSize THEN Append(chan, t) ELSE chan
    /\ UNCHANGED <<proc, ep, del, fan, batch, work, removing, life, errors, obs>>

\* consume takes the next event; fanOut lists the enabled endpoints whose
\* topics cover it. A cancelled context or an I/O error loses the event.
FanOut ==
    /\ proc # "down"
    /\ fan = {}
    /\ chan # <<>>
    /\ chan' = Tail(chan)
    /\ \/ /\ ~ctxDone
          /\ fan' = {e \in Endpoints : /\ ep[e].state = "enabled"
                                       /\ Head(chan) \in Topics[e]}
          /\ UNCHANGED errors
       \/ ctxDone /\ UNCHANGED <<fan, errors>>
       \/ errors < MaxErrors /\ errors' = errors + 1 /\ UNCHANGED fan
    /\ UNCHANGED <<proc, ep, del, batch, work, removing, life, obs>>

\* store.Enqueue for one of the listed endpoints, whatever has become of it;
\* a failed insert is only logged.
Enqueue(e) ==
    /\ e \in fan
    /\ fan' = fan \ {e}
    /\ \/ /\ ~ctxDone
          /\ \E d \in Ids :
               /\ del[d].state = "free"
               /\ del' = [del EXCEPT ![d] = [state |-> "pending", ep |-> e,
                                             attempts |-> 0, late |-> 0]]
          /\ UNCHANGED errors
       \/ ctxDone /\ UNCHANGED <<del, errors>>
       \/ errors < MaxErrors /\ errors' = errors + 1 /\ UNCHANGED del
    /\ UNCHANGED <<proc, ep, chan, batch, work, removing, life, obs>>

-----------------------------------------------------------------------------
(* The delivery loop *)

\* The rows Store.Due selects.
FirstAttemptOnly(d) == del[d].state = "pending" /\ del[d].late >= 0
                         /\ del[d].attempts = 0
AnyState(d) == Stored(d) /\ del[d].late >= 0
IsDue(d) == del[d].state = "pending" /\ del[d].late >= 0

Selected == {d \in Ids : IsDue(d) /\ ep[del[d].ep].state = "enabled"}

\* The LIMIT of the query: the Limit earliest of the selected rows.
Earliest(S) ==
    /\ Cardinality(S) <= Limit
    /\ S # Selected => Cardinality(S) = Limit
    /\ \A d \in S, x \in Selected \ S : del[d].late >= del[x].late

\* deliverDue copies them. A cancelled context or an I/O error ends the scan
\* with nothing.
Scan ==
    /\ proc = "up"
    /\ batch = {} /\ work = NoWork
    /\ \E S \in SUBSET Selected :
         /\ S # {}
         /\ Earliest(S)
         /\ batch' = {[id |-> d, ep |-> del[d].ep, attempts |-> del[d].attempts,
                       late |-> del[d].late] : d \in S}
         /\ armed' = armed \ S
    /\ UNCHANGED <<proc, ep, del, chan, fan, work, removing, life, errors,
                   posts, accepted, marks, replays, deadRun>>

\* The loop goes on to the next delivery of the batch, earliest first.
NextDue(d) ==
    /\ proc # "down"
    /\ work = NoWork
    /\ d \in batch
    /\ \A x \in batch : d.late >= x.late
    /\ batch' = batch \ {d}
    /\ work' = [pc |-> "post", id |-> d.id, ep |-> d.ep, attempts |-> d.attempts]
    /\ UNCHANGED <<proc, ep, del, chan, fan, removing, life, errors, obs>>

WorkAt(pc) == [pc |-> pc, id |-> work.id, ep |-> work.ep,
               attempts |-> work.attempts]

\* What the receiver makes of a POST: it answers 2xx, it answers something
\* else, it takes the delivery but the answer is lost, or it is not reached.
Replies == {"2xx", "non2xx", "lost", "unreachable"}
AnyReply(r) == r \in {"2xx", "non2xx"}
Succeeded(r) == r = "2xx"

\* w.post. With a cancelled context the client reports an error, although the
\* receiver may have taken the delivery.
Post(r) ==
    /\ work.pc = "post"
    /\ r \in Replies
    /\ ctxDone => r \in {"lost", "unreachable"}
    /\ posts' = [posts EXCEPT ![work.id] = @ + 1]
    /\ accepted' = IF r \in {"2xx", "lost"} THEN accepted \cup {work.id}
                                            ELSE accepted
    /\ work' = WorkAt(IF Succeeded(r) THEN "ok" ELSE "failed")
    /\ UNCHANGED <<proc, ep, del, chan, fan, batch, removing, life, errors,
                   marks, replays, armed, deadRun>>

\* A store call of the attempt fails: it is logged and the attempt is over.
StoreFails ==
    /\ work.pc \in {"ok", "reset", "failed", "bump"}
    /\ \/ ctxDone /\ UNCHANGED errors
       \/ errors < MaxErrors /\ errors' = errors + 1
    /\ work' = NoWork
    /\ UNCHANGED <<proc, ep, del, chan, fan, batch, removing, life, obs>>

\* MarkDelivered, first statement: no condition on the row's state.
MarkDelivered ==
    /\ work.pc = "ok"
    /\ ~ctxDone
    /\ IF Stored(work.id)
         THEN /\ del' = [del EXCEPT ![work.id] =
                           [state |-> "delivered", ep |-> work.ep,
                            attempts |-> del[work.id].attempts,
                            late |-> del[work.id].late]]
              /\ marks' = [marks EXCEPT ![work.id] = @ + 1]
              /\ deadRun' = [deadRun EXCEPT ![work.ep] = 0]
         ELSE UNCHANGED <<del, marks, deadRun>>
    /\ work' = WorkAt("reset")
    /\ UNCHANGED <<proc, ep, chan, fan, batch, removing, life, errors,
                   posts, accepted, replays, armed>>

\* Second statement.
StreakKept(e) == ep[e].streak
StreakAfterSuccess(e) == 0

ResetStreak ==
    /\ work.pc = "reset"
    /\ ~ctxDone
    /\ ep' = IF Registered(work.ep)
               THEN [ep EXCEPT ![work.ep] =
                       [state |-> ep[work.ep].state,
                        streak |-> StreakAfterSuccess(work.ep)]]
               ELSE ep
    /\ work' = NoWork
    /\ UNCHANGED <<proc, del, chan, fan, batch, removing, life, errors, obs>>

\* dead := attempts >= len(webhookBackoffSec).
OneTooFew(n) == n + 1 >= MaxAttempts
Exhausted(n) == n >= MaxAttempts

\* MarkFailed, first statement: reschedule or tombstone.
MarkFailed ==
    /\ work.pc = "failed"
    /\ ~ctxDone
    /\ LET n == work.attempts + 1
       IN IF Stored(work.id)
            THEN /\ del' = [del EXCEPT ![work.id] =
                      [state |-> IF Exhausted(n) THEN "dead" ELSE "pending",
                       ep |-> work.ep, attempts |-> n,
                       late |-> IF Exhausted(n) THEN MaxLate
                                                ELSE 0 - Backoff[n]]]
                 /\ deadRun' = IF Exhausted(n)
                                 THEN [deadRun EXCEPT ![work.ep] = @ + 1]
                                 ELSE deadRun
            ELSE UNCHANGED <<del, deadRun>>
    /\ work' = IF Exhausted(work.attempts + 1) THEN WorkAt("bump") ELSE NoWork
    /\ UNCHANGED <<proc, ep, chan, fan, batch, removing, life, errors,
                   posts, accepted, marks, replays, armed>>

\* Second statement of a dead delivery: bump the streak, maybe disable.
BumpStreak ==
    /\ work.pc = "bump"
    /\ ~ctxDone
    /\ ep' = IF Registered(work.ep)
               THEN [ep EXCEPT ![work.ep] =
                       [state |-> IF ep[work.ep].streak + 1 >= DeadStreak
                                    THEN "disabled" ELSE ep[work.ep].state,
                        streak |-> ep[work.ep].streak + 1]]
               ELSE ep
    /\ work' = NoWork
    /\ UNCHANGED <<proc, del, chan, fan, batch, removing, life, errors, obs>>

-----------------------------------------------------------------------------
(* The webhook.* handlers *)

\* webhook.add.
Add(e) ==
    /\ proc = "up"
    /\ ep[e].state = "free"
    /\ ep' = [ep EXCEPT ![e] = [state |-> "enabled", streak |-> 0]]
    /\ UNCHANGED <<proc, del, memVars, life, errors, obs>>

\* webhook.remove, first statement; an unknown endpoint is an error.
RemoveEndpoint(e) ==
    /\ proc = "up"
    /\ Registered(e)
    /\ ep' = [ep EXCEPT ![e] = [state |-> "removing", streak |-> 0]]
    /\ removing' = removing \cup {e}
    /\ UNCHANGED <<proc, del, chan, fan, batch, work, life, errors, obs>>

\* Second statement, and the answer.
RemoveDeliveries(e) ==
    /\ e \in removing
    /\ removing' = removing \ {e}
    /\ ep' = [ep EXCEPT ![e] = [state |-> "removed", streak |-> 0]]
    /\ del' = [d \in Ids |-> IF Stored(d) /\ del[d].ep = e
                               THEN [state |-> "deleted", ep |-> e,
                                     attempts |-> 0, late |-> 0]
                               ELSE del[d]]
    /\ armed' = {d \in armed : del[d].ep # e}
    /\ UNCHANGED <<proc, chan, fan, batch, work, life, errors, posts, accepted,
                   marks, replays, deadRun>>

\* webhook.replay: one UPDATE, whatever the row's state; attempts are kept.
Replay(d) ==
    /\ proc = "up"
    /\ Stored(d)
    /\ replays[d] < MaxReplays
    /\ del' = [del EXCEPT ![d] = [state |-> "pending", ep |-> del[d].ep,
                                  attempts |-> del[d].attempts, late |-> 0]]
    /\ replays' = [replays EXCEPT ![d] = @ + 1]
    /\ armed' = armed \cup {d}
    /\ UNCHANGED <<proc, ep, memVars, life, errors, posts, accepted, marks,
                   deadRun>>

-----------------------------------------------------------------------------
(* Time and the daemon's life *)

Tick ==
    /\ \E d \in Ids : del[d].state = "pending" /\ del[d].late < MaxLate
    /\ del' = [d \in Ids |->
                 IF del[d].state = "pending" /\ del[d].late < MaxLate
                   THEN [state |-> "pending", ep |-> del[d].ep,
                         attempts |-> del[d].attempts, late |-> del[d].late + 1]
                   ELSE del[d]]
    /\ UNCHANGED <<proc, ep, memVars, life, errors, obs>>

\* SIGTERM cancels the context of both loops.
Signal ==
    /\ Crashes /\ proc = "up" /\ life < MaxLives
    /\ proc' = "draining"
    /\ UNCHANGED <<ep, del, memVars, life, errors, obs>>

\* The process exits, without joining the loops, or dies.
Exit ==
    /\ Crashes /\ proc # "down" /\ life < MaxLives
    /\ proc' = "down"
    /\ chan' = <<>> /\ fan' = {} /\ batch' = {} /\ work' = NoWork
    /\ removing' = {}
    /\ UNCHANGED <<ep, del, life, errors, obs>>

Boot ==
    /\ proc = "down"
    /\ proc' = "up"
    /\ life' = life + 1
    /\ UNCHANGED <<ep, del, memVars, errors, obs>>

-----------------------------------------------------------------------------
Init ==
    /\ proc = "up"
    /\ ep = [e \in Endpoints |-> [state |-> "free", streak |-> 0]]
    /\ del = [d \in Ids |-> [state |-> "free", ep |-> NoId, attempts |-> 0,
                             late |-> 0]]
    /\ chan = <<>> /\ fan = {} /\ batch = {} /\ work = NoWork /\ removing = {}
    /\ life = 1 /\ errors = 0
    /\ posts = [d \in Ids |-> 0] /\ accepted = {}
    /\ marks = [d \in Ids |-> 0] /\ replays = [d \in Ids |-> 0]
    /\ armed = {} /\ deadRun = [e \in Endpoints |-> 0]

Settle == StoreFails \/ MarkDelivered \/ ResetStreak \/ MarkFailed \/ BumpStreak

Deliver ==
    \/ Scan
    \/ \E d \in batch : NextDue(d)
    \/ \E r \in Replies : Post(r)
    \/ Settle

Next ==
    \/ \E t \in Types : Publish(t)
    \/ FanOut
    \/ \E e \in Endpoints : Enqueue(e) \/ Add(e) \/ RemoveEndpoint(e)
                              \/ RemoveDeliveries(e)
    \/ Deliver
    \/ \E d \in Ids : Replay(d)
    \/ Tick \/ Signal \/ Exit \/ Boot

Spec == Init /\ [][Next]_vars

\* Both loops run, time passes, a call that has begun goes on, and a daemon
\* that went down is started again; nothing is assumed of the receivers.
Fairness ==
    /\ WF_vars(FanOut) /\ WF_vars(\E e \in Endpoints : Enqueue(e))
    /\ WF_vars(Deliver)
    /\ WF_vars(\E e \in Endpoints : RemoveDeliveries(e))
    /\ WF_vars(Tick) /\ WF_vars(Boot) /\ WF_vars(proc = "draining" /\ Exit)

FairSpec == Spec /\ Fairness

-----------------------------------------------------------------------------
(* Properties *)

\* A delivery stored as delivered was taken by its receiver, whatever replies
\* were lost and wherever the daemon was restarted.
DeliveredWasAccepted == \A d \in Ids : del[d].state = "delivered" => d \in accepted

\* A delivery goes to the dead-letter state only after all attempts of the
\* backoff schedule were made, replays and restarts included.
DeadAfterAllAttempts ==
    \A d \in Ids : del[d].state = "dead" => posts[d] >= MaxAttempts

\* A delivery is settled as delivered once, and once more per webhook.replay:
\* the loop never picks up a delivery it has already settled.
DeliveredOncePerReplay == \A d \in Ids : marks[d] <= 1 + replays[d]

\* An endpoint becomes disabled only after DeadStreak "consecutive dead
\* deliveries" (MarkFailed's disable_reason): a delivered one in between starts
\* the count again. Holds as long as both statements of MarkDelivered are
\* executed; the rest of a batch may still be delivered after that.
DisabledAfterStreak ==
    [][\A e \in Endpoints :
        ep[e].state # "disabled" /\ ep'[e].state = "disabled" => deadRun[e] >= DeadStreak]_vars

\* webhooks.go: "restarts never lose queued deliveries". Every pending delivery
\* of an enabled endpoint is delivered, goes dead or is removed, unless its
\* endpoint is disabled meanwhile, whatever the receiver answers.
PendingDrains ==
    \A d \in Ids :
        (del[d].state = "pending")
          ~> \/ del[d].state # "pending"
             \/ ep[del[d].ep].state # "enabled"

\* disableAfterDeadStreak: "`wa webhook add` the endpoint again (or replay after
\* fixing it) to resume". A replay to a disabled endpoint is picked up.
ReplayResumes ==
    \A d \in Ids :
        (/\ d \in armed /\ del[d].state = "pending"
         /\ ep[del[d].ep].state = "disabled")
        ~> (d \notin armed \/ ep[del[d].ep].state # "disabled")
=============================================================================
