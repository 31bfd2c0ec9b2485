------------------------------ MODULE Schedule ------------------------------
(***************************************************************************)
(* Scheduled sends: the ScheduleRunner's timers, the ScheduleFirer, the    *)
(* schedule.send / schedule.cancel / schedule.update handlers and the      *)
(* scheduled_sends table they share, over several lives of the daemon.     *)
(*                                                                         *)
(* Every handler and every fire is split where the code lets another       *)
(* goroutine in: each call on the store is one step (the store keeps one   *)
(* connection, so calls are serialized), each critical section on          *)
(* ScheduleRunner.mu is one step.                                          *)
(***************************************************************************)
EXTENDS Integers, FiniteSets

CONSTANTS
    Ids,          \* schedule ids of the daemon's profile
    Kind,         \* Kind[id]: "send" (send_text, send_media) or "draft"
    Slots,        \* bound: timers and fires alive at once, one slot each
    Callers,      \* bound: JSON-RPC calls in progress at once
    Ops,          \* the schedule.* methods that clients call
    RestEnabled,  \* the REST listener is up before Start and through Stop
    Crashes,      \* the process may die without a graceful shutdown
    NoId, NoSlot, \* null values
    MaxTime,      \* bound on the clock
    MaxLives,     \* bound on the boots of the daemon
    MaxErrors     \* bound on I/O errors that are not a cancelled context

Times == 0..MaxTime
Methods == {"send", "cancel", "update"}

ASSUME BoundsAssumption ==
    /\ MaxTime \in Nat \ {0}
    /\ MaxLives \in Nat \ {0}
    /\ MaxErrors \in Nat
    /\ RestEnabled \in BOOLEAN
    /\ Crashes \in BOOLEAN
    /\ Ops \subseteq Methods
    /\ Kind \in [Ids -> {"send", "draft"}]
    /\ NoId \notin Ids \cup Times
    /\ NoSlot \notin Slots

VARIABLES
    now,      \* wall clock
    row,      \* the scheduled_sends table
    proc,     \* phase of the daemon's life
    startq,   \* rows listed by Start and not armed yet: their fireAt
    timers,   \* ScheduleRunner.timers
    slot,     \* timers armed, callbacks and fires in progress
    call,     \* handlers in progress
    life,     \* boots so far
    errors,   \* I/O errors so far
    effects,  \* observation: messages sent or drafts put, per id and life
    acked     \* observation: ids whose schedule.cancel was answered "cancelled"

runnerVars == <<timers, slot>>
envVars == <<now, life, errors>>
vars == <<now, row, proc, startq, timers, slot, call, life, errors, effects,
          acked>>

-----------------------------------------------------------------------------
(* Types *)

Terminal == {"fired", "cancelled", "failed"}
Row == [state : {"absent", "pending"} \cup Terminal, fireAt : Times]

\* A slot is a time.AfterFunc from its creation to the return of its callback:
\* "armed" in the timer heap, "expired" once the callback goroutine exists and
\* waits for mu, then the position inside Fire.
\* "at" is the expiry of an armed timer and, from FireGet on, the fireAt of
\* the copy of the row that Fire works with.
InFlight == {"get", "check", "act", "persist"}
IdleSlot == [pc |-> "idle", id |-> NoId, at |-> 0, out |-> "none"]
BusySlot == [pc : {"armed", "expired", "get", "check", "act"}, id : Ids,
             at : Times, out : {"none"}]
              \cup [pc : {"persist"}, id : Ids, at : Times,
                    out : {"fired", "failed"}]
Slot == BusySlot \cup {IdleSlot}

IdleCall == [pc |-> "idle", id |-> NoId, fireAt |-> 0]
BusyCall == [pc : {"cancelPut", "cancelTimer", "updatePut", "arm"}, id : Ids,
             fireAt : Times]
Call == BusyCall \cup {IdleCall}

\* "starting" is ScheduleRunner.Start, "draining" the time from the signal
\* that cancels the daemon context to Stop, "stopping" Stop's fireWg.Wait,
\* "closed" the time after Stop has returned and the stores are closed.
Phases == {"down", "starting", "up", "draining", "stopping", "closed"}

TypeOK ==
    /\ now \in Times
    /\ row \in [Ids -> Row]
    /\ proc \in Phases
    /\ startq \in [Ids -> Times \cup {NoId}]
    /\ timers \in [Ids -> Slots \cup {NoSlot}]
    /\ slot \in [Slots -> Slot]
    /\ call \in [Callers -> Call]
    /\ life \in 0..MaxLives
    /\ errors \in 0..MaxErrors
    /\ effects \in [Ids -> [1..MaxLives -> Nat]]
    /\ acked \subseteq Ids

-----------------------------------------------------------------------------
(* The runner *)

stopped == proc \in {"stopping", "closed"}
ctxDone == proc \in {"draining", "stopping", "closed"}

\* The timer or fire in slot s moves on.
Become(s, pc, at, out) ==
    slot' = [slot EXCEPT ![s] = [pc |-> pc, id |-> slot[s].id, at |-> at,
                                 out |-> out]]

\* time.Timer.Stop on the timer the map holds for id: it takes an armed timer
\* out of the heap and cannot call back one whose callback has started.
StopTimer(id) ==
    [s \in Slots |-> IF s = timers[id] /\ slot[s].pc = "armed" THEN IdleSlot
                                                              ELSE slot[s]]

\* The instant a timer for fireAt expires: at once when fireAt has passed.
ArmedForNow(fireAt) == now
ExpiryOf(fireAt) == IF fireAt > now THEN fireAt ELSE now

\* ScheduleRunner.arm for a pending row; a stopped runner arms nothing.
Arm(id, fireAt) ==
    \/ /\ stopped
       /\ UNCHANGED runnerVars
    \/ /\ ~stopped
       /\ \E s \in Slots :
            /\ slot[s].pc = "idle"
            /\ timers' = [timers EXCEPT ![id] = s]
            /\ slot' = [StopTimer(id) EXCEPT
                          ![s] = [pc |-> "armed", id |-> id,
                                  at |-> ExpiryOf(fireAt), out |-> "none"]]

\* ScheduleRunner.Cancel.
CancelTimer(id) ==
    /\ slot' = StopTimer(id)
    /\ timers' = [timers EXCEPT ![id] = NoSlot]

\* The clock reaches the timer: the Go runtime starts its callback.
Expire(s) ==
    /\ slot[s].pc = "armed"
    /\ slot[s].at <= now
    /\ Become(s, "expired", 0, "none")
    /\ UNCHANGED <<row, proc, startq, timers, call, effects, acked, envVars>>

\* delete(r.timers, key).
DropEntry(id) == [timers EXCEPT ![id] = NoSlot]

\* The callback's critical section: give up if Stop has run, else register in
\* fireWg and drop whatever timer the map holds for the key.
Callback(s) ==
    /\ slot[s].pc = "expired"
    /\ IF stopped
         THEN /\ slot' = [slot EXCEPT ![s] = IdleSlot]
              /\ UNCHANGED timers
         ELSE /\ Become(s, "get", 0, "none")
              /\ timers' = DropEntry(slot[s].id)
    /\ UNCHANGED <<row, proc, startq, call, effects, acked, envVars>>

-----------------------------------------------------------------------------
(* ScheduleFirer.Fire, one step per call it makes *)

\* An error that is not the cancelled context: disk full, I/O error.
IOError == errors < MaxErrors /\ errors' = errors + 1
Finish(s) == slot' = [slot EXCEPT ![s] = IdleSlot]

\* store.Get and the pending short-circuit.
FireGet(s) ==
    /\ slot[s].pc = "get"
    /\ \/ /\ ~ctxDone
          /\ row[slot[s].id].state = "pending"
          /\ Become(s, "check", row[slot[s].id].fireAt, "none")
          /\ UNCHANGED errors
       \/ /\ ctxDone \/ row[slot[s].id].state # "pending"
          /\ Finish(s)
          /\ UNCHANGED errors
       \/ IOError /\ Finish(s)
    /\ UNCHANGED <<now, row, proc, startq, timers, call, life, effects, acked>>

\* safety.Check: a denial by the allowlist or the rate limiter is terminal.
FireCheck(s) ==
    /\ slot[s].pc = "check"
    /\ \/ Become(s, "act", slot[s].at, "none")
       \/ Become(s, "persist", slot[s].at, "failed")
    /\ UNCHANGED <<row, proc, startq, timers, call, effects, acked, envVars>>

\* One more message or draft of id, in this life.
Counted(id) ==
    [effects EXCEPT ![id] = [effects[id] EXCEPT ![life] = effects[id][life] + 1]]

\* sender.Send or drafts.Put. A send may report an error although the server
\* took the message; the draft store refuses a cancelled context.
FireAct(s) ==
    LET id == slot[s].id
    IN /\ slot[s].pc = "act"
       /\ \E done, ok \in BOOLEAN :
            /\ (ok => done)
            /\ Kind[id] = "draft" => (done <=> ok) /\ (ok => ~ctxDone)
            /\ effects' = IF done THEN Counted(id) ELSE effects
            /\ Become(s, "persist", slot[s].at, IF ok THEN "fired"
                                                      ELSE "failed")
       /\ UNCHANGED <<row, proc, startq, timers, call, acked, envVars>>

\* The state Fire stores for what happened to the send.
FailedStaysPending(out) == IF out = "failed" THEN "pending" ELSE out
StateFor(out) == out

\* store.Update with the copy loaded by FireGet, whatever the row is by now;
\* an error is only logged.
FirePersist(s) ==
    /\ slot[s].pc = "persist"
    /\ \/ /\ ~ctxDone
          /\ row' = [row EXCEPT ![slot[s].id] =
                       [state |-> StateFor(slot[s].out), fireAt |-> slot[s].at]]
          /\ UNCHANGED errors
       \/ ctxDone /\ UNCHANGED <<row, errors>>
       \/ IOError /\ UNCHANGED row
    /\ Finish(s)
    /\ UNCHANGED <<now, proc, startq, timers, call, life, effects, acked>>

-----------------------------------------------------------------------------
(* The schedule.* handlers *)

\* REST serves calls while the runner starts and while the daemon stops; the
\* socket server only between the two.
Serving(method) ==
    /\ method \in Ops
    /\ proc = "up" \/ (RestEnabled /\ proc \in {"starting", "draining",
                                                "stopping"})

\* Handlers that already run go on until the stores are closed.
storeOpen == proc \notin {"down", "closed"}

\* store.Put is an INSERT: it fails when the key exists.
Upsertable(id) == TRUE
Insertable(id) == row[id].state = "absent"

\* schedule.send: NewScheduledSend and store.Put.
SendPut(c, id, fireAt) ==
    /\ Serving("send")
    /\ call[c].pc = "idle"
    /\ fireAt > now
    /\ Insertable(id)
    /\ row' = [row EXCEPT ![id] = [state |-> "pending", fireAt |-> fireAt]]
    /\ call' = [call EXCEPT ![c] = [pc |-> "arm", id |-> id,
                                    fireAt |-> fireAt]]
    /\ UNCHANGED <<proc, startq, timers, slot, effects, acked, envVars>>

\* schedule.send refused: fireAt not in the future, or the id is taken.
SendRefused(c, id, fireAt) ==
    /\ Serving("send")
    /\ call[c].pc = "idle"
    /\ fireAt <= now \/ ~Insertable(id)
    /\ UNCHANGED vars

\* The tail of schedule.send and schedule.update: runner.Schedule and return.
CallArm(c) ==
    /\ call[c].pc = "arm"
    /\ Arm(call[c].id, call[c].fireAt)
    /\ call' = [call EXCEPT ![c] = IdleCall]
    /\ UNCHANGED <<row, proc, startq, effects, acked, envVars>>

\* schedule.cancel: store.Get; a terminal row is answered as it is.
CancelGet(c, id) ==
    /\ Serving("cancel")
    /\ call[c].pc = "idle"
    /\ row[id].state # "absent"
    /\ call' = IF row[id].state \in Terminal
                 THEN call
                 ELSE [call EXCEPT ![c] = [pc |-> "cancelPut", id |-> id,
                                           fireAt |-> row[id].fireAt]]
    /\ UNCHANGED <<row, proc, startq, timers, slot, effects, acked, envVars>>

\* MarkCancelled of the copy and store.Update.
CancelPut(c) ==
    /\ call[c].pc = "cancelPut"
    /\ storeOpen
    /\ row' = [row EXCEPT ![call[c].id] =
                 [state |-> "cancelled", fireAt |-> call[c].fireAt]]
    /\ call' = [call EXCEPT ![c] = [pc |-> "cancelTimer", id |-> call[c].id,
                                    fireAt |-> 0]]
    /\ UNCHANGED <<proc, startq, timers, slot, effects, acked, envVars>>

\* runner.Cancel and the answer.
CancelDone(c) ==
    /\ call[c].pc = "cancelTimer"
    /\ CancelTimer(call[c].id)
    /\ acked' = acked \cup {call[c].id}
    /\ call' = [call EXCEPT ![c] = IdleCall]
    /\ UNCHANGED <<row, proc, startq, effects, envVars>>

\* schedule.update: store.Get and Reschedule, which refuses a terminal row and
\* a fireAt that is not in the future.
UpdateGet(c, id, fireAt) ==
    /\ Serving("update")
    /\ call[c].pc = "idle"
    /\ row[id].state = "pending"
    /\ fireAt > now
    /\ call' = [call EXCEPT ![c] = [pc |-> "updatePut", id |-> id,
                                    fireAt |-> fireAt]]
    /\ UNCHANGED <<row, proc, startq, timers, slot, effects, acked, envVars>>

\* store.Update with the rescheduled copy, still pending.
UpdatePut(c) ==
    /\ call[c].pc = "updatePut"
    /\ storeOpen
    /\ row' = [row EXCEPT ![call[c].id] =
                 [state |-> "pending", fireAt |-> call[c].fireAt]]
    /\ call' = [call EXCEPT ![c] = [pc |-> "arm", id |-> call[c].id,
                                    fireAt |-> call[c].fireAt]]
    /\ UNCHANGED <<proc, startq, timers, slot, effects, acked, envVars>>

\* store.Update fails (closed store, cancelled request): the call answers an
\* error.
PutFails(c) ==
    /\ call[c].pc \in {"cancelPut", "updatePut"}
    /\ call' = [call EXCEPT ![c] = IdleCall]
    /\ UNCHANGED <<row, proc, startq, timers, slot, effects, acked, envVars>>

-----------------------------------------------------------------------------
(* The daemon's life *)

\* The rows store.ListPending returns.
FutureOnly(id) == row[id].state = "pending" /\ row[id].fireAt > now
Listed(id) == row[id].state = "pending"

\* ScheduleRunner.Start: store.ListPending.
StartList ==
    /\ proc = "down"
    /\ life < MaxLives
    /\ life' = life + 1
    /\ proc' = "starting"
    /\ startq' = [id \in Ids |-> IF Listed(id) THEN row[id].fireAt
                                              ELSE NoId]
    /\ UNCHANGED <<now, row, timers, slot, call, errors, effects, acked>>

\* The loop of Start, which arms the rows as they were listed.
StartArm(id) ==
    /\ proc = "starting"
    /\ startq[id] # NoId
    /\ Arm(id, startq[id])
    /\ startq' = [startq EXCEPT ![id] = NoId]
    /\ UNCHANGED <<row, proc, call, effects, acked, envVars>>

StartReturns ==
    /\ proc = "starting"
    /\ \A id \in Ids : startq[id] = NoId
    /\ proc' = "up"
    /\ UNCHANGED <<row, startq, timers, slot, call, effects, acked, envVars>>

\* SIGINT or SIGTERM cancels the context that Start was given.
Signal ==
    /\ proc = "up"
    /\ life < MaxLives
    /\ proc' = "draining"
    /\ UNCHANGED <<row, startq, timers, slot, call, effects, acked, envVars>>

\* ScheduleRunner.Stop up to the release of mu.
Stop ==
    /\ proc = "draining"
    /\ proc' = "stopping"
    /\ slot' = [s \in Slots |->
                  IF slot[s].pc = "armed" /\ \E id \in Ids : timers[id] = s
                    THEN IdleSlot ELSE slot[s]]
    /\ timers' = [id \in Ids |-> NoSlot]
    /\ UNCHANGED <<row, startq, call, effects, acked, envVars>>

\* Every registered fire has called fireWg.Done.
NoJoin == TRUE
FiresJoined == \A s \in Slots : slot[s].pc \notin InFlight

\* fireWg.Wait returns; gracefulShutdown goes on to close the stores.
StopReturns ==
    /\ proc = "stopping"
    /\ FiresJoined
    /\ proc' = "closed"
    /\ UNCHANGED <<row, startq, timers, slot, call, effects, acked, envVars>>

\* Only the table survives the end of the process.
LoseMemory ==
    /\ life < MaxLives
    /\ proc' = "down"
    /\ startq' = [id \in Ids |-> NoId]
    /\ timers' = [id \in Ids |-> NoSlot]
    /\ slot' = [s \in Slots |-> IdleSlot]
    /\ call' = [c \in Callers |-> IdleCall]
    /\ UNCHANGED <<row, effects, acked, envVars>>

Exit == proc = "closed" /\ LoseMemory

Crash == Crashes /\ proc \notin {"down", "closed"} /\ LoseMemory

Tick ==
    /\ now < MaxTime
    /\ now' = now + 1
    /\ UNCHANGED <<row, proc, startq, timers, slot, call, life, errors,
                   effects, acked>>

-----------------------------------------------------------------------------
Init ==
    /\ now = 0
    /\ row = [id \in Ids |-> [state |-> "absent", fireAt |-> 0]]
    /\ proc = "down"
    /\ startq = [id \in Ids |-> NoId]
    /\ timers = [id \in Ids |-> NoSlot]
    /\ slot = [s \in Slots |-> IdleSlot]
    /\ call = [c \in Callers |-> IdleCall]
    /\ life = 0
    /\ errors = 0
    /\ effects = [id \in Ids |-> [l \in 1..MaxLives |-> 0]]
    /\ acked = {}

Fire(s) == FireGet(s) \/ FireCheck(s) \/ FireAct(s) \/ FirePersist(s)

Handler(c) ==
    \/ \E id \in Ids, fireAt \in Times :
         \/ SendPut(c, id, fireAt)
         \/ SendRefused(c, id, fireAt)
         \/ UpdateGet(c, id, fireAt)
    \/ \E id \in Ids : CancelGet(c, id)
    \/ CancelPut(c)
    \/ CancelDone(c)
    \/ UpdatePut(c)
    \/ PutFails(c)
    \/ CallArm(c)

Lifecycle ==
    \/ StartList
    \/ \E id \in Ids : StartArm(id)
    \/ StartReturns
    \/ Signal
    \/ Stop
    \/ StopReturns
    \/ Exit
    \/ Crash

Next ==
    \/ Tick
    \/ \E s \in Slots : Expire(s) \/ Callback(s) \/ Fire(s)
    \/ \E c \in Callers : Handler(c)
    \/ Lifecycle

Spec == Init /\ [][Next]_vars

\* The Go scheduler runs every runnable goroutine and every due timer, time
\* passes, and a daemon that starts or stops goes on doing so.
Fairness ==
    /\ WF_vars(Tick)
    /\ WF_vars(StartList) /\ WF_vars(StartReturns)
    /\ WF_vars(\E id \in Ids : StartArm(id))
    /\ WF_vars(Stop) /\ WF_vars(StopReturns) /\ WF_vars(Exit)
    /\ \A s \in Slots :
         WF_vars(Expire(s)) /\ WF_vars(Callback(s)) /\ WF_vars(Fire(s))
    /\ \A c \in Callers : WF_vars(CancelPut(c) \/ CancelDone(c) \/ CallArm(c)
                                    \/ UpdatePut(c) \/ PutFails(c))

FairSpec == Spec /\ Fairness

-----------------------------------------------------------------------------
(* Properties *)

\* Stop's join (CON-05): once Stop has returned and the stores are closed, no
\* fire is between its store.Get and its store.Update, so none touches a
\* closed store or sends after shutdown.
ClosedStoreUntouched ==
    proc = "closed" => \A s \in Slots : slot[s].pc \notin InFlight

\* The runner's map only names timers that can still fire, each under its own
\* key: what Cancel and Stop reach through the map is never a finished fire
\* or the timer of another schedule.
MapNamesLiveTimers ==
    \A id \in Ids : timers[id] # NoSlot =>
        /\ slot[timers[id]].id = id
        /\ slot[timers[id]].pc \in {"armed", "expired"}

\* One life of the daemon sends a scheduled message, or puts its draft, at
\* most once (schedule_fire.go: "ErrScheduleTerminal short-circuits any
\* duplicate fire"). Holds as long as clients call neither schedule.update
\* nor the REST listener.
AtMostOncePerLife ==
    \A id \in Ids, l \in 1..MaxLives : effects[id][l] <= 1

\* A schedule.cancel answered "cancelled" is durable: the row is never pending
\* again, so no later timer and no later boot can fire it, although a fire
\* that was in flight may still overwrite the row with its own outcome.
CancelIsDurable == \A id \in acked : row[id].state \in Terminal

\* A message or draft never goes out before the fire_at its row holds.
NeverEarly ==
    [][\A id \in Ids : effects'[id] # effects[id] => row[id].fireAt <= now]_vars

\* schedule_runner.go: "Schedule/Cancel keep the timer set consistent with
\* subsequent mutations from the socket layer". While the daemon is up, a
\* pending row that no call is working on has a timer or a fire, else nothing
\* will send it before the next boot.
NoStrandedRow ==
    \A id \in Ids :
        (/\ proc = "up"
         /\ errors = 0
         /\ row[id].state = "pending"
         /\ \A c \in Callers : call[c].id # id)
        => \E s \in Slots : slot[s].id = id

\* schedule_fire.go: the outcome is persisted "so a subsequent daemon restart
\* does not retry the row". A message goes out in one life only.
NoRetryAfterRestart ==
    \A id \in Ids : Cardinality({l \in 1..MaxLives : effects[id][l] > 0}) <= 1

\* Every pending schedule is eventually fired, failed or cancelled, whatever
\* restarts and shutdowns fall in between, once the daemon stays up.
PendingSettles ==
    \A id \in Ids : (row[id].state = "pending") ~> (row[id].state \in Terminal)
=============================================================================
