# TLA+ models of wa

`wa` is a WhatsApp automation daemon (`wad`) with a command-line client (`wa`).
The daemon holds one linked session per profile and serves JSON-RPC over a unix
socket, REST with server-sent events, and MCP. It schedules messages, pushes
events to webhooks and to subscribers, and refuses sends that its policy does
not allow.

This directory models what the daemon does with its state and with WhatsApp,
and above all what depends on order: what happens between two statements,
between two goroutines, or between a kill and the next boot. Paths below are
relative to the repository root.

| Module | Models | Checked by | Proved in |
|---|---|---|---|
| `Schedule` | scheduled sends: runner, firer, handlers, table | `schedule_*` | `ScheduleProofs` |
| `Webhooks` | outbound webhooks: fan-out, delivery loop, handlers, tables | `webhook_*` | `WebhooksProofs` |
| `EventStream` | event numbering, events ring, socket subscriptions, SSE | `event_*` | `EventStreamProofs` |
| `Migration` | the move to the per-profile layout and its recovery | `migration_*` | `MigrationProofs` |
| `SendPath` | idempotency, allowlist, rate limiter, block list, audit row | `send_path` | `SendPathProofs` |
| `Steps` | the steps that requests are made of | `requests` | |
| `Stores`, `Ports`, `Handlers` | functions of the local stores, of the whatsmeow adapter, and the RPC methods, as programs of steps | `requests` | |
| `Commands`, `Admin` | socket server, REST, MCP, the client's commands; the commands that work on files of their own | `requests` | |
| `Requests` | runs the programs over the state they share: quotas, pins, the device | `requests` | `RequestsProofs` |
| `AuditLog` | the hash-chained log: record, rotate, verify, cut writes | `control` | `ControlProofs` |
| `Allowlist` | the policy in memory and on disk, its calls, reloads and editor | `control` | `ControlProofs` |
| `Drafts`, `Review` | the drafts table; the review it promises | `control` | `ControlProofs` |
| `Lifecycle` | startup, failed startup, shutdown | `daemon` | |
| `Inbox` | messages and history blobs on their way into the history | `daemon` | `DaemonProofs` |
| `Schema` | upgrades of `messages.db`, statement by statement | `daemon` | `DaemonProofs` |
| `Recovery` | repairs of an app-state collection | `daemon` | `DaemonProofs` |
| `Watchdog` | the soft-stale watchdog and its backoff | `daemon` | `DaemonProofs` |

`Control` and `Daemon` put components without common state into one
specification, one component per behaviour. `MC<Module>` instantiates a
module for TLC; each run is an `MC` module with one `.cfg`. `PROJECT.json` lists
the runs, the lines every definition models, a plausible bug per property (a
mutant that makes the property fail), the hazards and the theorems.

## 1. The system

The daemon is a hexagon: `internal/domain` (values and their transitions),
`internal/app` (use cases and ports), `internal/adapters` (SQLite, whatsmeow,
socket, REST), `cmd/wad` (composition root), `cmd/wa` (client).

| Component | State | Operations | Hard behaviour | What makes it correct |
|---|---|---|---|---|
| Schedule runner, firer (`schedule_runner.go`, `schedule_fire.go`) | a timer per pending row; fires in progress | Start, arm, Cancel, Stop, Fire | a timer that expires while it is cancelled or stopped; a kill between send and store | sent once, never early, never after shutdown, never stranded |
| schedule.* handlers, store (`method_schedule.go`, `sqliteschedule`) | `scheduled_sends` | send, cancel, update, list | read, then write the stale copy | an answered cancel stays |
| Webhooks (`webhooks.go`, `sqlitewebhooks`) | endpoints, deliveries, the batch in memory | fan-out, due scan, attempt, settle, add, remove, replay | two statements without a transaction; replay during an attempt; restart | queued deliveries are settled, dead only after all attempts, disabled only after a streak |
| Event bridge, ring (`eventbridge.go`, `events_pump.go`, `sqliteevents`) | next number, bounded channels, the ring | dispatch, pump, append and evict, seed | lossy pushes; two goroutines numbering | numbers do not collide, nothing is lost silently |
| Socket subscriptions (`socket/replay.go`, `server_fanout.go`, …) | mailbox, cursor, pong time | subscribe, replay, fan-out, reap | replay racing live events; a full mailbox | every gap is named by a `stream.drop` |
| SSE (`rest/sse.go`) | cursor per client | attach, poll on hint, settle, heartbeat | a lost hint; eviction during a read | rows reach the client or are named as dropped |
| Layout migration (`cmd/wad/migrate.go`) | two trees, marker, schema version, pointer | plan, apply, abort, recover, roll back | a kill between any two system calls | no data lost, half-done work is marked and finished |
| Send path (`method_send.go`, `safety.go`, `ratelimiter.go`, `method_idempotency.go`, …) | two buckets, lists, idempotency rows, audit log | look-up, gates, send, audit, record | concurrent calls with one key; a client that hangs up | only cleared recipients, within the rate, once per key, audited |
| RPC methods (`dispatcher.go`, `method_*.go`, `cmd/wad/*_methods.go`) | none of their own | more than eighty methods | a gate, an audit row or an order that one method forgets | gated, audited, not done twice by a retry |
| Transports (`socket/`, `rest/`, `mcpbridge`, `cmd/wa`) | connections, tokens | hello, authenticate, route, dispatch | four ways to one method | a token reaches no more than its scope |
| Group administration, chat state (`groupadmin.go`, `chatstate.go`) | daily counters, the book of pins | reserve, act, refund; look, act, note | calls in flight at the limit, midnight | the caps hold |
| Drafts (`method_drafts.go`, `draft_sweeper.go`, `sqlitedrafts`) | drafts and their review state | put, approve, reject, expire | approval racing expiry | a decided draft stays decided |
| Audit log (`slogaudit`) | file, last hash, last time | record, rotate, verify | a cut last line; rows out of time order | the verifier tells the truth, acknowledged rows are kept |
| Allowlist (`cmd/wad/allowlist.go`, `methods.go`) | the policy, `allowlist.toml` | add, remove, save, reload | calls, saves, reloads and an editor at once | memory and file agree |
| History (`sqlitehistory`, `adapter_inbound.go`, `history_sync.go`) | `messages.db`, channels | insert, stamp, retention, upgrade, backup | redelivery, Close, kill between statements | acknowledged is stored, a stamp stays, upgrades can be interrupted |
| App-state repair (`appstate_recovery.go`) | in-flight entry, waiter, wait group | resync, request, complete, cut short | detached workers, late completions, Close | one at a time, none after Close |
| Watchdog (`cmd/wad/watchdog.go`) | link state, streak, last recovery | tick, recover | backoff across episodes | a stale link is recovered, not hammered |
| Composition root (`cmd/wad/main.go`, `cleanup.go`) | goroutines and open stores | boot, shutdown, error exit | order of joins and closes | no store is used after it is closed, shutdown ends |

How they meet:

* The server's events reach the bridge, which numbers them and pushes them to
  three places that each may drop: the socket fan-out, the pump that fills the
  ring, and the hints that wake waiters, SSE clients and the webhook worker.
* A request comes over the socket, over REST (with a scoped token or the token
  of the environment), or from an MCP tool over stdio or HTTP; all end in
  `Dispatcher.Handle`, and from there in a port or a local store.
* Every method that sends goes through the same gates. The firer passes the
  allowlist and the rate limiter; the handlers also ask about deliverability
  and the block list.
* A draft job of the scheduler puts a row into the drafts queue instead of
  sending.
* A signal cancels one context that almost everything shares; the stores are
  closed afterwards. What a goroutine does between the two is the source of
  several hazards.
* The migration runs before any store is opened, and decides which tree the
  stores are opened in.

`PROJECT.json` lists the hazards at their lines, each with the properties that
would catch it, or with the reason why none does.

## 2. Schedule

State: the table (`row`), the runner's map (`timers`), the timers and fires
(`slot`: armed, expired, then the position in `Fire`), the calls in progress
(`call`), the phase of the daemon (`proc`), the rows `Start` has listed and not
yet armed (`startq`), the clock and the number of boots. Observed only:
messages per job and life (`effects`), answered cancels (`acked`).

Each call on the store is a step (one connection serializes them), and so is
each critical section under `ScheduleRunner.mu`. `Expire` is the Go runtime
starting a timer's callback; `Callback` its critical section. `FireGet`,
`FireCheck`, `FireAct`, `FirePersist` are `Fire`. The handlers are read steps
followed by write steps of the copy they read. `Signal` cancels the context,
`Stop` empties the map, `StopReturns` is the `fireWg` join, and `Crash` may
happen at any time. A step that uses a cancelled context does what the code
does: a draft is refused, `store.Update` fails, a message goes out.

| Run | Instance | Shows |
|---|---|---|
| `schedule_socket` | 2 jobs (a message, a draft), 2 calls at once, 2 lives, crash; 140,000 states | `AtMostOncePerLife`, `CancelIsDurable`, `NoStrandedRow`, `NeverEarly`, `PendingSettles` |
| `schedule_all` | 1 job, also `schedule.update`, REST, an I/O error; 2.9 million states | `ClosedStoreUntouched` (no fire touches a closed store), whatever clients do |

The first run leaves out REST and `schedule.update` because several of
its properties are not true with them, see section 9. Two slots allow a timer and a
fire of one job, or of two jobs, at once. Two lives allow every kind of
restart once; a third life would repeat the second, since only the table
survives. One tick separates "in the future" from "due".

## 3. Webhooks

State: the two tables (`ep`, `del`), the subscription buffer (`chan`), the
endpoints a fan-out still has to enqueue for (`fan`), the deliveries read by a
scan (`batch`), the attempt in progress (`work`) and `webhook.remove` calls
between their two statements. Time is kept as how late each delivery is, so no
clock grows. Every SQL statement is a step: `MarkDelivered` and `ResetStreak`,
`MarkFailed` and `BumpStreak`, `RemoveEndpoint` and `RemoveDeliveries` are
pairs the code runs without a transaction. The receiver answers 2xx, another
code, or nothing, and may have taken the POST in the last case.

| Run | Instance | Shows |
|---|---|---|
| `webhook_queue` | 2 endpoints with different topics, 2 deliveries, a replay, removals; 5.3 million states | `DeliveredOncePerReplay`, `DeadAfterAllAttempts`, `DisabledAfterStreak` |
| `webhook_crash` | 1 endpoint, 2 deliveries, 2 lives, a failing statement; 93,000 states | `DeliveredWasAccepted`, and `PendingDrains`: every queued delivery is settled |

Two attempts stand for eight: the first, which is retried, and the last, which
is not. A buffer of one place is always at its limit, and so is a batch of one in
`webhook_crash`; the batch of two in `webhook_queue` lets a delivery go dead while
the next one is already copied. `DisabledAfterStreak` is an action property, about
the step that disables: the rest of a batch may still be delivered after it. It is
not claimed across restarts: a stop between the two statements of `MarkDelivered`
keeps an old streak.

## 4. EventStream

An event is its number within a life: a restart gives numbers that never reached the
ring to other events, so `Stamp` takes from the observations what they say of an
earlier event with the number (`Renewed`) and notes it as `reused` for a client that
has read up to it. `dispatch` is four steps: `Stamp`, then a push to the
fan-out (`out`), to the pump (`pumpq`), to the hints; each push drops when its
channel is full. `PumpAppend` appends and evicts. A socket client subscribes in
the code's five steps (`HandleSubscribe`, `EmitEvictionGap`, `PollRing`,
`PushReplayRecord`, `Register`); `FanTake`, `FanBuild`, `FanPush` are the
fan-out with its gap detection, and `ReapRead`, `ReapPush`, `ReapDelete` the
pong reaper. The SSE loop polls on a hint, on the settle timer and on the
heartbeat. `Restart` seeds the numbers from the ring, or from zero when that
read fails. `client`, `holes`, `excused`, `read` and `told` only observe.

| Run | Instance | Shows |
|---|---|---|
| `event_socket` | 1 emitter, 3 events of 2 types, ring of 1, a failing ring call, 2 lives; 4.1 million states | `NoSilentLoss`: a resuming client has every wanted event or a `stream.drop` that names it, unless a restart reused the event's number |
| `event_sse` | 1 emitter, 3 events, ring of 2, 2 lives; 214,000 states | `SseNoSilentLoss`, `NumbersAboveRing`, and `RingReachesTail`: heartbeat polls alone deliver every row |

Channels of one or two places make every overflow happen within three events;
a ring smaller than the number of events makes eviction happen. The properties
except numbers that never reached the ring (the pump documents that hole), and
rows evicted between the two reads of a replay (section 9). `NoSilentLoss` also
excepts an event that was given a number the client had read up to: the client
loses it silently, which is against the manual (section 9). An SSE cursor comes from
rows of the ring alone, so `SseNoSilentLoss` needs no such exception. One emitter is assumed: with two,
`NoSilentLoss` does not hold (section 9).

## 5. Migration and SendPath

`Migration`: the state is the disk: the files of the two trees, each with the
set of the user's pieces it holds, whether `default/` exists, the marker, the
schema version and the pointer. Every system call is a step that may fail, and
a kill may fall between any two. A checkpoint moves the pieces of a write-ahead
log into its database and removes the log. The initial states are a fresh
install and every 007 tree that contains `session.db`.

`migration_crash` (84,665 states; two databases, a write-ahead log, a plain
file; two kills, three failing calls) shows `NoDataLost`,
`HalfMigratedIsMarked` (version 2 without a marker has nothing left behind),
`LogFollowsDatabase` and `RecoveryFinishes`. Two kills reach a kill during the
recovery from a kill, three failures a rename, its undo and the recovery
failing in turn.
`migration_retry`, with no fault at all, is the finding `NextBootRetries`.

`SendPath`: a call is a record that moves through the sidecar's look-up
(`Lookup`), the allowlist and both buckets (`Safety`), the deliverability
question (`Probe`, which lets a call through when it fails) with at most one
`Follow` of a moved recipient, the block list (`NotBlocked`, which refuses when
it fails), the pause (`Humanize`), `Send`, the audit row and `Record`. `Send`
may fail after the message has left. The audit log refuses a row that is not
later than the last one, so `RecordAudit` finds its place in `stamped`, the
events made and not yet written. The client may hang up at any moment.

`send_path` (3 calls, 2 at once, one trouble, 3 million states) shows
`SentWasCleared` (the JID that gets the message passed both gates in this very
call, followed or not), `RateHolds` (over every span of time the messages stay
within both buckets), `RetrySendsOnce` (one message per key within the row's
life, unless calls with the key overlapped or one was cut off) and
`SentIsAudited`. Three calls exceed the minute bucket of two; a TTL of one tick
makes a row expire; the trouble is one change of a list, one hang-up or one
failing call.

## 6. Requests

Most of the daemon's code is handlers and adapter functions that keep no state
of their own: they check, pass gates, act at WhatsApp, write a row, audit and
answer. What matters in them is which of these steps there are, in which order,
and what a failure of each leaves behind. So each function is a *program*, the
sequence of its steps, translated one by one from the source:

* `Steps` has the kinds of steps (a check, a gate, a change at WhatsApp that may
  be done with its answer lost, a write whose error ends the call or is
  swallowed, an audit row, a reservation, …);
* `Stores` has the functions of the local stores, `Ports` those of the
  whatsmeow adapter, `Handlers` every method of `dispatcher.go` and of
  `cmd/wad`, each as the set of programs its conditions allow;
* `Commands` has the ways in: the client's commands, the socket server (peer
  check, hello, receive, dispatch with its recovered panics), REST (both
  authentications, admission by scope, the routes) and the MCP tools and
  resources over stdio and HTTP; `Admin` has the commands that work on files of
  their own (tokens, profiles, services, `wa doctor`, `wa pair --remote`).

`Requests` runs them. A call is a slot with the rest of its program, what it
did, wrote and logged, and which gates let it through. Shared between calls are
the daily counters of the group administration (`count`), the book of pinned
chats (`pinned`) and whether the device was logged out (`retired`); `Midnight`,
`Restart` and `LoseReply` are the environment. `used`, `slack`, `pins` and
`unseen` only observe what really happened at WhatsApp.

`requests` (412,000 states) has three kinds of behaviour: one call at a time of
any program under any scope, with each outcome of each step; two calls at once
at the group quotas, over two days and restarts; two calls at once at the pin
limit. More calls at once cannot matter elsewhere, since nothing else is shared.
The caps (1 group, 2 participants, 1 pin) are small so that two calls exceed
them; three chats let the pins go past the limit and come back. The slots are
symmetric.

* `ScopeBounds`: what a token can change, at WhatsApp and in the stores, on
  every transport, depends on its scope as `Reach` says. The scope table names
  methods; this is about what they do.
* `GatedUnlessListed`: outside a list of fifteen methods, nothing changes at
  WhatsApp before the action of the method was let through.
* `OkIsLogged`: an answered message, receipt or link has its audit row.
* `ErrorMeansUndone`: after an error nothing was done, except when an answer or
  the idempotency record was lost and in seven methods that go on after the
  change.
* `QuotaHolds`, `PinBound`: the caps hold, up to what the counters lose (a refund
  of something done, a reservation carried over midnight, a restart) and up to
  the number of calls in flight.

The exceptions are listed in the properties by name. A new method that
is not gated, or that fails after its change, breaks them.

## 7. Control

The operator's means of control. They share no state, so a behaviour is about
one of them; `control` has 1.65 million states.

`AuditLog`: a line is the sequence of the writes it is made of, all but the
last of which were cut, by a full disk or by a kill; a hash is what it is
computed from. `Record` takes its time before the lock; `Rotate` is close,
rename, open, each of which may fail; `tailLastHMAC` seeds the chain from the
last complete line. `HandlePanic` (the RPC, which then makes its own row) and
`LoggedOut` remove `audit.log` from its path while the log has it open: from then on
writes go to a file that is in no directory (`linked`), until a rotation, whose
rename finds nothing, begins another file and goes on with the old chain
(`RenameFindsNone`), or until the next boot. With two writers, four rows, two
seconds, a failing call and two boots, `VerifyTells` says that verification accepts
exactly the undamaged files and notices any line taken out of one; a file begun in
mid-chain after a panic counts as damaged. `AckedIsKept` says that a row whose
`Record` succeeded stays in the log or a rotated file, unless a rotation in the same
second replaced that file (`replaced`) or a panic removed it (`wiped`). Both
exceptions are losses the code has (section 9); the property is that it has no other.

`Allowlist`: `allow add` and `allow remove` are grant, audit, entries, create,
write, rename, with their reverts; files are inodes, so that two saves may write
into one `allowlist.toml.tmp`. A reload clears and grants under one lock; the
watcher notices, waits and reloads. With two calls on two recipients, one
trouble (an edit, a reload asked for or a failing call) and one boot, `Agrees`
says that memory and file are the same policy once everything is quiet, except
after a reverted call, overlapping reloads, or an edit before the watch began.

`Drafts`: the rows, the calls that chose their time and wait for the connection,
and the sweep that did. `Review` is the abstract specification: a draft is
submitted once, decided once, and expires only when overdue. `ImplementsReview`
(2 drafts, 2 calls, a window of 1, a clock up to 3) maps `verdict` to the rows'
state and `overdue` to the rows whose window has passed; section 10 has the
proof for all instances.

Deadlock is not checked here, since the bounded counters run out.

## 8. Daemon

The daemon's housekeeping, again one component per behaviour; `daemon` has
557,000 states. Deadlock is not checked, since a daemon ends.

`Lifecycle`: `run`, `cleanup.run` and `gracefulShutdown` are programs of moves:
open, launch, tell, join, join for at most the shutdown timeout, close, close
beside main. Startup may fail at every move. `Uses` says which stores each
goroutine works on. In each behaviour one goroutine may be at work, any of
them. `NoUseAfterClose` says that no goroutine the daemon waits for works on a
closed store; the goroutines nobody waits for (the websocket's handlers, the
webhook worker, the watchdog) and waits that ran into their timeout are
excepted. It is about these two orders only. A panic (`panic.go:98-116`) closes history
and session while the daemon goes on serving, so requests under way do meet closed
stores; that close is not a step of `Lifecycle`. `Exits`: a daemon told to stop, or whose start failed, ends.

`Inbox`: a message is handled, inserted, queued, acknowledged; the server sends
it again until it is. History blobs go through the worker. Two messages, a
channel of one, one blob and one mishap (a dropped websocket, a failing insert, a
restart, a kill) suffice for a redelivery on both ways. `ReportedIsStored`: what
was acknowledged to the server, or reported by `sync.force`, is stored, unless
the insert failed. `StampsStay`: neither way takes a revocation off a row.

`Schema`: the statements of `schema.sql` and of the eight versions, each
committed by itself; opening starts from any of nine versions, is interrupted at
any statement, and happens three times. `UpgradeIsSafe`: `user_version` claims
nothing that is not there, an opened store is at version 8, and every step from 4 on
works beside a whole copy of what it changes.

`Recovery`: calls of `ResyncAppState`, their workers, the phone, `Close`.
A call gives the collection back (`JoinWorker`) before its deferred calls take its
channel out of `recoveryPending` (`Deregister`), so that the next call may have
registered its own in between. `RepairsAreAlone`, with two callers and three calls:
one repair at a time, a completion reaches the worker that waits for it, none is under
way after `Close`; section 10 has the proof.

`Watchdog`: timestamps are ages that count up to what the code can tell apart,
so time has no bound. A threshold of 3 s, a tick of 1 s, a cooldown of 4 s, at most three doublings and four
requested caps (none, one below the threshold, one between, one above the
maximum). `HealsInTime`: while the line stays stale the next forced reconnect is
at most the cap away, or the cooldown after traffic.

## 9. What the models found

`migration_retry` is a run that TLC refutes; `PROJECT.json` quotes the text it
contradicts. An undone migration leaves `default/` behind, so the next boot
skips the migration and comes up on an empty profile. It needs no fault: the
checkpoint removes the log that the plan goes on to rename.

Stated in the modules, and refuted by TLC on the instance described:

* `NoRetryAfterRestart` (`Schedule`, one job, a graceful restart). `Fire` stores
  its outcome with the context that a signal cancels (`schedule_fire.go:182`). A
  message sent just before stays pending and is sent again by the next boot,
  against `schedule_fire.go:18-19`.
* `ReplayResumes` (`Webhooks`, one endpoint that its first dead delivery
  disables). A replay to a disabled endpoint is stored as pending and never
  attempted, since nothing enables an endpoint again
  (`sqlitewebhooks/webhooks.go:187`, against lines 13-14).
* `NoSilentLoss` with two emitters. `dispatch` numbers and pushes without a lock
  (`eventbridge.go:199`) on several goroutines. The later number can reach the
  ring first, and a cursor recorded at it loses the earlier one
  (`docs/manual.md:1007`).
* `PicksUpWhereItStopped` (`EventStream`, the instance of `event_socket`). Numbers are
  seeded from the ring (`cmd/wad/main.go:521`). An event that was numbered and
  delivered, but not filed when the daemon stopped, leaves its number to another one of
  the next life; a client that read the first and resumes from it has the second
  dropped by `matchesSub` (`socket/match.go:11`) without a `stream.drop`. This
  contradicts "you pick up where you stopped" (`docs/manual.md:1007`), and
  `NoSilentLoss` holds only because it excepts these events.
* `PanicLeavesLogIntact` (`AuditLog`, the instance of `control`). A panic unlinks
  `audit.log` (`cmd/wad/main.go:356-362`, `whatsmeow/panic.go:134-135`) under the open
  log. The rows before it are gone, and so are those acknowledged after it until the
  next rotation or boot, `handlePanic`'s own among them (`cmd/wad/methods.go:221-230`,
  "the slogaudit file is the durable record"), against `docs/manual.md:1344` ("`wa panic`
  leaves the audit log intact"). `AckedIsKept` excepts them.
* `ActionIsGated` (`Requests`). `methodActions` is never consulted
  (`allowlist_middleware.go:7-8`, `docs/manual.md:636`): fifteen of its methods
  ask for no action or for another one.
* `AppliedOnce` (`Schema`). `schema.sql` ends with `PRAGMA user_version = 1` and
  every open runs it (`sqlitehistory/store.go:162`, against `schema.sql:1-2`), so
  every boot runs versions 2 to 8 again, takes five backups and rotates the
  snapshot from before the upgrade away.

Seen while modelling, without a property:

* Schedule. A cancel answered between `Fire`'s read and its send does not stop
  the send (`CancelIsDurable` is about the row). A cancel that interleaves with
  an update leaves a pending row without a timer; a stale update makes a fired
  row pending again, so it is sent twice. This is why `schedule_socket` excludes
  updates.
* Webhooks. A replay during an attempt is overwritten by that attempt's
  `MarkDelivered`. A fan-out that listed an endpoint before its removal leaves a
  delivery without an endpoint. `webhookBackoffSec` adds up to about 10.7 hours,
  its comment says about 23.
* Events. A row evicted between a replay's `OldestSeq` and `Range` is neither
  delivered nor named. Filtered live events do not move a subscription's cursor,
  so a spurious `stream.drop` follows.
* Migration. `wad migrate --rollback` is not protected: with
  `RollbackFaults = TRUE`, a kill in the middle breaks `NoDataLost` and
  `HalfMigratedIsMarked`. The command takes no lock.
* Send. Two overlapping calls with one idempotency key both send. A client that
  hangs up after its message left leaves no row, so its retry sends again. Two
  concurrent sends may take their audit times in one order and the log's lock in
  the other; the earlier row is then refused, against `docs/manual.md:1335`.
* Commands. `wa subscribe`, `wad reload` and `wad audit rotate` never send
  `system.hello`, so the socket server refuses them (`accept.go:91`,
  `hello.go:98`; `cmd/wa/rpc.go:18`). `message.forward`, `message.star`,
  `message.setDisappearing`, `send.reply` and `messages.search` always answer
  that the method is not found (`docs/manual.md:571-573,609-611`);
  `embeddings.purge` is always disabled. `wa search` selects 13 columns and scans
  14 (`sqlitehistory/query.go:82-90`). The accept loop returns for good on any
  accept error (`accept.go:22-32`). A failed open of the lock is reported as
  another daemon running (`lock.go:33-36`).
* Scopes. The MCP tools let a send token reach `schedule.send`, an admin method
  over `/rpc`, also in draft mode (`docs/manual.md:1072`).
* Groups and pins. A failed call refunds the slot of whatever day it is; the
  counters start at zero after a restart (`docs/manual.md:690`). The adapter's
  own audit rows go to a ring in memory (`docs/manual.md:1335`).
* Drafts. `DraftSweeper` is never constructed by `cmd/wad`, so drafts do not
  expire (`draft.go:9-10`); `draft.approve` sends nothing (`docs/manual.md:924`)
  and is not audited.
* Allowlist. A grant that is about to be reverted is persisted by another call's
  save. The revert of a failed remove grants again what another call removed. A
  save during a reload may persist a part of the policy.
* Audit. A line cut by a crash makes verification fail for good once it is
  continued. Two rotations in one second replace the first file. A rotation that
  fails half-way leaves the log closed until the next boot. One that follows a panic
  begins a file in mid-chain, which `wa audit verify` refuses although nothing in it
  is damaged.
* Panic. It closes history and session while requests use them, and sets the fields
  to nil without a lock; it removes the lock file of a daemon that is still running.
* Shutdown. A failing `selectTranscriber` leaves without `cleanup.run`; the webhook
  worker is stopped but not waited for, the watchdog neither on a server that
  fails. `EmitSynthetic` after `Run` has closed `Events()` would send on a closed
  channel (`eventbridge.go:181`). `waAdapter.Close` gives the session's lock back before
  the other stores are closed.
* History. Blobs are acknowledged before they are stored and dropped when the
  channel is full. A revocation that arrives from outside does not stamp the
  original; one of a message that is not stored is a no-op, so that a later
  history sync inserts it unrevoked.
* Watchdog. A line that goes silent from boot on is never reconnected by force.
  A line that went from stale to unknown to healthy is not reported as restored.

## 10. What is proved

With TLAPS, for every value of the constants that the modules' assumptions
allow: any number of jobs, calls, files, messages, kills and failures. A theorem
`XHolds` states the property `X` that a run checks, so the run and the theorem
are about the same formula. Each argument is an inductive invariant: it holds
initially, every action keeps it, and it implies the property. The invariants
were model-checked on the runs' instances before they were proved.

`ScheduleProofs`, for every set of jobs, slots and callers and every bound:

* `TypeCorrect`: `Spec => []TypeOK`.
* `ClosedStoreUntouchedHolds`: `Stop`'s join, for every client behaviour. The
  property is inductive with `TypeOK`: a callback registers in `fireWg` only
  while the runner is not stopped.
* `MapNamesLiveTimersHolds`: the runner's map never names a finished fire or
  another job's timer. It needs one strengthening, `StoppedMapEmpty`: after
  `Stop` the map is empty, and nothing arms any more.
* `AtMostOncePerLifeHolds`: a job's effect happens at most once in a life,
  assuming that clients call neither `schedule.update` nor REST. The property
  says nothing of how a second fire could arise, so it is far from inductive.
  `OnceInv` follows the one token that can fire a job: it is listed by `Start`,
  or carried by one `schedule.send`, or in one slot, never in two of them
  (`OneTokenInv`); a row that was never put has no token (`AbsentInv`); a token
  that has not reached its send has sent nothing in this life (`UnspentInv`);
  and `PhaseInv` says in which phases tokens exist at all.
* `CancelIsDurableHolds`, `NoStrandedRowHolds`, `NeverEarlyHolds`, assuming that
  clients do not call `schedule.update`; REST may be on. All three rest on
  `CallsInv`: no call is about to write a stale copy, and a call that is about to
  stop a timer has stored its cancellation. From it follow that a settled row
  stays settled (`SettledStays`) and that a row keeps its time (`FireAtStays`). `StrandInv` says who is answerable
  for a pending row: a slot, a call that has put it and not yet armed it, or
  `Start`'s list. `DueInv` ties the time a timer was set for, through call, list
  and slot, to the time of its row.

`SendPathProofs`, for every set of callers, keys and recipients, every bucket and
time to live, and every answer of the server:

* `TypeCorrect`, with what a call's position says of it.
* `SentWasClearedHolds`. `ClearedInv` says that the gates a call has passed are
  passed for the JID it carries *now*; following a moved recipient changes that
  JID, so the gates before it count no more.
* `RetrySendsOnceHolds`. A second send can only come from a look-up that found
  nothing. `RowInv` says why a look-up finds a message under its key: its call is
  about to store the row, or the row is there and as late as the message, or its
  life is over. `FreshInv` says what a look-up that found nothing has shown, and
  `KeyInv` that two calls with one key count as overlapped.
* `SentIsAuditedHolds`. A call that has sent has its event among those that may
  still be written, or was overtaken (`EventInv`).
* `RateHoldsHolds`. A span that ends now must leave room for the tokens that are
  still in the bucket, so `BucketInv` adds them to the messages sent and to the
  calls that hold a token; a tick that refills then keeps the bound for every
  span at once.

`WebhooksProofs`, for any endpoints, deliveries, attempts, replays, restarts and
failing statements:

* `DeliveredWasAcceptedHolds`, `DeadAfterAllAttemptsHolds` and
  `DeliveredOncePerReplayHolds`, all from `QueueInv`: what the columns of a row
  say of its history (`RowInv`), and that every copy of a row, in the batch
  (`BatchInv`) or being attempted (`WorkInv`), is of a delivery that is not
  settled, is there once, and counts no more attempts than were made.
* `DisabledAfterStreakHolds`, assuming `Undisturbed` (no kill, no failing
  statement): the stored streak never runs ahead of the dead deliveries, but
  for the moment between the two statements of `MarkDelivered` (`CountInv`), and
  a copied delivery has its row unless its endpoint is being removed (`CopyInv`).
  Both hypotheses are needed: a lost second statement keeps an old streak.

`EventStreamProofs`, for any capacities, filters, clients and restarts:

* `NumbersAboveRingHolds`, for any number of emitters: numbers given out and not
  yet filed are pairwise different and not in the ring (`NumberInv`).
* `SseNoSilentLossHolds`, assuming `OneEmitter`. What a poll may skip depends on
  the whole way of a number, so `OrderInv` accounts for each one given out: it
  is in the ring, a hole, evicted below a full ring, in the pump's queue, or with
  its emitter; and numbers are queued in order, so nothing below a row of the ring
  is still to come. `TailInv` says the same of a client between the two reads of
  a poll. With two emitters the order is lost, and the property with it
  (section 9).
* `NoSilentLossHolds`, assuming `OneEmitter` and that the seed of a restart could
  be read (`"stats" \notin Failing`: numbers that start over would be taken for
  numbers the client has). A client judges by the frames it reads, so the
  invariant is about frames: at each event or `subscribe.closed` of its mailbox,
  a client that has read up to there was told of every wanted number up to the
  frame's (`ReadOk`), and so was one that reads all that its subscription has
  sent (`SentOk`), will read from the ring (`ReplayOk`) and is being sent
  (`FanOk`). Before its first event a client is owed nothing (`Started`). Numbers above the
  ring count as wanted by everyone (`Wants`): a restart may give them to another
  event. `OrderInv` tells the replay that the rows it reads are all there are. Numbers
  that a restart reuses are excepted in the property (`reused`), and `ReachInv` says
  why that is enough: nothing on its way to a client is above the numbers given out,
  unless the client itself came back with a higher one, and then the number is noted
  as reused when it is stamped.

`MigrationProofs`, for every set of files, databases and logs, in every order of
the plan, and any number of kills and failing calls:

* `TypeCorrect`, rollbacks that fail half-way included.
* `NoDataLostHolds`, `HalfMigratedIsMarkedHolds`, `LogFollowsDatabaseHolds`,
  assuming `Uninterrupted`: a kill or a failing call may fall anywhere except
  into `wad migrate --rollback` (section 9 says what happens there).
  `DiskInv` says what the disk is worth to the next boot by version and marker
  alone, since that is all a kill leaves: version 1 without a marker is the
  untouched old tree, version 1 with a marker a move that the marker can finish,
  version 2 the moved tree. `StepInv` says what each step of a running
  migration or recovery knows beyond it, and `UndoInv` what an uninterrupted
  rollback does.

`RequestsProofs`, for any number of calls in flight, any caps, chats and limit of
pins, any number of days and restarts:

* `QuotaHoldsHolds` and `PinBoundHolds`, for the behaviours in which calls meet
  (every focus but `"methods"`, which runs one call at a time and is TLC's). The
  four programs that meet leave a running call at one of sixteen spots, and
  `SpotsKnown` says what each does next and which follows.
* The counters alone say nothing of the uses to come: `QuotaInv` counts a use from
  its reservation on, whether it has happened or is held by a call whose
  request is under way, and puts against it the counter of today and the slack. A
  refund (`Refund`) takes from the counter no more than the call held, or what it
  takes beyond that is slack; at midnight nobody holds anything of the new day;
  a restart forgets everything and makes all of it slack.
* The book alone does not bound the pins, since a call between the look for room
  and the note is in neither. `PinInv` bounds the book together with the chats of
  those calls: a call that finds room finds it in a book below the limit, and then
  everything past the limit is a chat in flight.

`ControlProofs`, for any callers, files, recipients, faults and boots:

* `AckedIsKeptHolds` and `VerifyTellsHolds`. `LogFile` describes the files that
  the log can leave, of every length: only the last line may be cut, and a line
  of one write carries the hash of the line before, the first perhaps that of a line
  which went with a panic. `ChainInv` says that an open log has the hash its next line must
  carry, after a cut line and a boot too, and that nothing is at the path while a
  removed file is open. `AckedIsKept` names the two ways a row is lost, and the proof
  is that there is no third. That a line taken out is noticed follows
  because a hash here is what it is computed from, so hashes of rows at different
  places differ.
* `AgreesHolds`. The property is about quiet states only. `Settling` says what
  makes memory and file agree in the end: a call, a notice, the debounce timer,
  or a reload that has read what the file holds, or that something overlapped;
  and `SureInv` that a reload which nothing overlapped is up to date or followed
  by another one.

* `DraftsImplementReview`, for every set of ids and clients and every window: the
  drafts table implements `Review` (`StoreImplementsReview`). Every
  transaction maps to a step of the review or to a stutter (`StepRefines`). Two
  facts about states make that true and are proved inductive in `DraftInv`: a
  `create` in progress has an id that no row has (`FreshIds`), so that putting it is a
  submission and not an overwrite; and a sweep carries a time that is not after the
  clock (`SweepOK`), so that what it expires is overdue by then.

`DaemonProofs`, for any messages, blobs, callers, thresholds and caps:

* `ReportedIsStoredHolds` and `StampsStayHolds`. A message past its insert is
  accounted for, or the history was closed first, and then there is no line left
  to acknowledge it on (`HandledInv`, `LineInv`); what the worker will report it
  has inserted or has still to insert (`RoutedInv`).
* `RepairsAreAloneHolds`. The property looks at workers, which outlive the wait of
  their callers, and says nothing of the entry that keeps the next call out.
  `AloneInv` ties them together: whoever is inside holds the entry and is alone
  (`HolderInv`), a worker has a call that waits for it and the registered channel
  (`WorkerInv`), and
  closing the store waits for what the wait group counts (`JoinedInv`).
* `HealsInTimeHolds`. The gap that counts is the one at the last tick, so `GapInv`
  bounds the age of the last recovery by that gap and the time since the tick,
  and says that traffic which shortens the gap is younger than the tick;
  `StreakInv` makes the gap a capped one.
* `UpgradeIsSafeHolds`, for any number of openings and of kept backups. What a
  kill leaves behind is only the database and the copies, so `UpgradeInv` says of
  them that `user_version` claims nothing which is not there (`Claims`), and of an
  Open under way which statement of which step it has reached (`Somewhere`): while
  the statements of a step last, what it promises is there or still to be
  made (`Prepares`), the version is the one before, and a copy of it was made
  (`Copied`). Since `schema.sql` sets the version back to 1, an Open always meets
  the chain at its start (`ChainFromOne`); that a record of the script belongs to
  the step at work unless a backup comes first is `CopiedInStep`.

The assumptions are those of the modules (`BoundsAssumption`,
`SendPathAssumption`, `WebhookAssumption`, `EventStreamAssumption`,
`MigrationAssumption`, `RequestsAssumption`, `AllowlistAssumption`, `DraftBounds`,
`InboxBounds`, `SchemaBounds`, `RepairBounds`, `WatchdogBounds`): bounds are naturals, null values are no ids,
and where something is counted (the callers of the send path, the slots
and chats of the requests, handlers and inodes of the allowlist) the set is finite. TLC evaluates each of them in the
runs of its module. The hypotheses of single theorems are the ones
named above; each says which behaviour of section 9 is left out.

Only model-checked:

* liveness (`PendingSettles`, `PendingDrains`, `RingReachesTail`,
  `RecoveryFinishes`, `Exits`): fairness and `ENABLED` are beyond the prover;
* `ScopeBounds`, `GatedUnlessListed`, `OkIsLogged` and `ErrorMeansUndone` of
  `Requests`, and its quotas and pins under the focus `"methods"`: they depend on
  every step of some hundred and fifty concrete programs, each run alone, which
  the run goes through exhaustively;
* `NoUseAfterClose` of `Lifecycle`: the module has no constants, so that the run
  explores all of it and a proof would add nothing.

## 11. Fairness

* `Schedule`: the Go scheduler runs every runnable goroutine and every due
  timer, time passes, a daemon that starts or stops goes on, and a stopped
  daemon is started again (systemd or launchd keep it running). Clients need
  not call anything.
* `Webhooks`: both loops, the clock, the boot and the second statement of a
  removal. Receivers need never answer well.
* `EventStream`: the pushes of a `dispatch` in progress, the pump and the SSE
  loop with its timers. Clients need not read, emitters need not emit.
* `Migration`: a process that runs goes on, a daemon that is up is eventually
  stopped, and a stopped one is launched again. Kills and failures are bounded,
  so that they do not starve recovery.
* `Daemon`: main goes on while it can, and a goroutine that was told to stop
  ends once its work is done (`LifeProgress`). Nothing is assumed of goroutines
  that were not told.

`Requests` and `Control` state no fairness: their properties are about safety.

## 12. Not modelled

Components with status `not_modelled` in `PROJECT.json` give their reason: test
doubles, constructors of single values, templates. `rate.Limiter`, SQLite,
whatsmeow and the WhatsApp server are external: a token bucket, atomic
statements that may fail, and an environment that may answer anything the code
distinguishes.

Within the modelled parts:

* Message bodies, JID syntax, signatures, logging and metrics are abstracted to
  model values; `translateDomainEvent` is the identity on an event's number and
  type.
* In `Requests`, what a read returns, the rows of the stores, caches in memory,
  and time-outs of the transports are not kept; a check may hold or fail at any
  time, which includes the expiry of a token.
* The embedding pipeline, the vector search and the down migrations have no
  caller in `cmd/wad`; scoring is floating point; transcription is an external
  program.
* Two processes on one tree, the lock file, and the macOS-specific creation of
  `default/` by the crash output file before the migration looks for it, are
  left out.
* The watchdog's forced reconnect, off by default, is in `Watchdog` and not in
  `Inbox`: one that overlaps `Adapter.Close` would bring the websocket up again.
* `docs/`, scripts, packaging and generated code.

## 13. Plan

Done: `Schedule` and its proofs, `Webhooks`, `EventStream`, `Migration` and
`SendPath` first, since they carry the daemon's promises over restarts and
guard its data and its policy; then the requests, the operator's controls with
the abstract `Review`, and the housekeeping.

Proved: every safety property of `Schedule`, `SendPath`, `Webhooks`, `Migration`,
`EventStream`, `AuditLog`, `Allowlist`, `Drafts`, `Inbox`, `Schema`, `Recovery` and
`Watchdog` that a run checks, and the quotas and the limit of pins of `Requests`.
Section 10 says what is left to TLC and why.

Abstract specifications still worth stating: an at-most-once job for `Schedule`,
an at-least-once queue for `Webhooks`, a numbered log with named gaps for
`EventStream`. Candidates for more modelling: the lock file with two daemons, the
group cache, the waiters of `wait`.
