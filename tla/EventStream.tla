---------------------------- MODULE EventStream ----------------------------
(***************************************************************************)
(* The event stream: the EventBridge numbers every event and pushes it to  *)
(* the Events() channel and to the waiters; the pump files it in the       *)
(* events.db ring; the socket server fans the channel out to subscriptions *)
(* and replays the ring to one that resumes; the SSE handler tails the     *)
(* ring.                                                                   *)
(*                                                                         *)
(* An event is its sequence number. A restart gives the numbers above the  *)
(* ring again: what a client has read, what it was told and what never     *)
(* reached the ring is kept of the latest event with a number. Each client *)
(* of the socket has one connection and one subscription at a time, and    *)
(* comes back with the last number it read. `out' stands for Events() and  *)
(* for the composition root's forwarding channel behind it.                *)
(***************************************************************************)
EXTENDS Integers, FiniteSets, Sequences

CONSTANTS
    Emitters,   \* goroutines that call dispatch: Run, and EmitSynthetic's callers
    Kinds,      \* event types
    Subs,       \* socket clients
    Filter,     \* Filter[s]: the event types client s subscribes to
    Tails,      \* SSE clients
    OutCap,     \* capacity of the channel to the socket server
    PumpCap,    \* capacity of the pump's subscription (eventsPumpBuffer)
    RingCap,    \* rows the ring keeps
    MailCap,    \* capacity of a connection's mailbox
    Batch,      \* rows one replay query returns (replayBatch, sseReplayBatch)
    Crashes,    \* the daemon may stop and start again
    Failing,    \* store calls that may fail: "append", "oldest", "range", "stats"
    MaxSeq,     \* bound on events
    MaxResumes, \* bound on subscriptions and SSE requests of one client
    MaxErrors,  \* bound on failed store calls
    MaxLives,   \* bound on boots
    NoKind      \* null value

ASSUME EventStreamAssumption ==
    /\ IsFiniteSet(Emitters)
    /\ Subs \cap Tails = {}
    /\ Filter \in [Subs -> SUBSET Kinds]
    /\ {OutCap, PumpCap, RingCap, MailCap, Batch, MaxLives} \subseteq Nat \ {0}
    /\ {MaxSeq, MaxResumes, MaxErrors} \subseteq Nat
    /\ Crashes \in BOOLEAN
    /\ Failing \subseteq {"append", "oldest", "range", "stats"}
    /\ NoKind \notin Kinds

VARIABLES
    seq,      \* EventBridge.seq
    kindOf,   \* the type of the latest event with each number
    emit,     \* dispatch calls in progress
    out,      \* events on their way to the socket server
    pumpq,    \* events in the pump's subscription
    ring,     \* events.db
    fan,      \* the fan-out goroutine: its event, the connections left, the frames
    sub,      \* each client's subscription
    mail,     \* each connection's mailbox
    tail,     \* each SSE connection
    hint,     \* SSE subscriptions that hold a wake hint
    errors, life,
    client,   \* observation: what a socket client has read, and the events that were
              \* given a number it had read before (reused)
    holes,    \* observation: events that never reached the ring, or were numbered
              \* below a row of it after a seed that could not be read
    excused,  \* observation: rows a replay cannot know of: evicted between its two
              \* reads, or before a failed OldestSeq
    read,     \* observation: rows an SSE client has read
    told      \* observation: numbers a stream.drop has named to an SSE client

busVars == <<seq, kindOf, emit, out, pumpq, ring, holes>>
sockVars == <<fan, sub, mail, client>>
sseVars == <<tail, hint, read, told>>
vars == <<busVars, sockVars, sseVars, excused, errors, life>>

-----------------------------------------------------------------------------
(* Types *)

Seqs == 1..MaxSeq
Frame == [type : {"event", "drop", "closed"}, lo : Nat, hi : Nat]
NoSub == [pc |-> "off", since |-> 0, last |-> 0, cursor |-> 0, batch |-> {},
          more |-> FALSE, uses |-> 0]
Sub == [pc : {"off", "oldest", "range", "push", "register", "live", "reap",
              "closing", "drained"},
        since : 0..MaxSeq, last : 0..MaxSeq, cursor : 0..MaxSeq,
        batch : SUBSET Seqs, more : BOOLEAN, uses : 0..MaxResumes]
NoFan == [seq |-> 0, todo |-> {}, on |-> {}, frames |-> <<>>]
Fan == [seq : 0..MaxSeq, todo : SUBSET Subs, on : SUBSET Subs, frames : Seq(Frame)]
TailState == [pc : {"off", "open", "idle", "stats", "range", "settle"},
              cursor : 0..MaxSeq, start : 0..MaxSeq, before : -1..MaxSeq,
              gap : SUBSET Seqs, uses : 0..MaxResumes]
Client == [base : 0..MaxSeq, high : 0..MaxSeq,
           got : SUBSET Seqs, named : SUBSET Seqs, reused : SUBSET Seqs]

TypeOK ==
    /\ seq \in 0..MaxSeq /\ kindOf \in [Seqs -> Kinds \cup {NoKind}]
    /\ emit \in [Emitters -> [pc : {"idle", "out", "pump", "hint"}, seq : 0..MaxSeq]]
    /\ out \in Seq(Seqs) /\ Len(out) <= OutCap
    /\ pumpq \in Seq(Seqs) /\ Len(pumpq) <= PumpCap
    /\ ring \subseteq Seqs /\ Cardinality(ring) <= RingCap
    /\ fan \in Fan
    /\ sub \in [Subs -> Sub]
    /\ \A s \in Subs : mail[s] \in Seq(Frame) /\ Len(mail[s]) <= MailCap
    /\ tail \in [Tails -> TailState] /\ hint \subseteq Tails
    /\ errors \in 0..MaxErrors /\ life \in 1..MaxLives
    /\ client \in [Subs -> Client]
    /\ holes \subseteq Seqs /\ excused \in [Subs \cup Tails -> SUBSET Seqs]
    /\ read \in [Tails -> SUBSET Seqs] /\ told \in [Tails -> SUBSET Seqs]

NoClient == [base |-> 0, high |-> 0, got |-> {}, named |-> {}, reused |-> {}]
NoTail == [pc |-> "off", cursor |-> 0, start |-> 0, before |-> -1,
           gap |-> {}, uses |-> 0]
Silent == [pc |-> "idle", seq |-> 0]

Init ==
    /\ seq = 0 /\ kindOf = [n \in Seqs |-> NoKind]
    /\ emit = [e \in Emitters |-> Silent]
    /\ out = <<>> /\ pumpq = <<>> /\ ring = {}
    /\ fan = NoFan
    /\ sub = [s \in Subs |-> NoSub] /\ mail = [s \in Subs |-> <<>>]
    /\ tail = [t \in Tails |-> NoTail] /\ hint = {}
    /\ errors = 0 /\ life = 1
    /\ client = [s \in Subs |-> NoClient] /\ holes = {}
    /\ excused = [c \in Subs \cup Tails |-> {}]
    /\ read = [t \in Tails |-> {}] /\ told = [t \in Tails |-> {}]

-----------------------------------------------------------------------------
(* The ring *)

Largest(S) == CHOOSE x \in S : \A y \in S : y <= x
Smallest(S) == CHOOSE x \in S : \A y \in S : x <= y

\* Stats: MAX(seq) and MIN(seq), 0 for an empty ring.
NewestSeq == IF ring = {} THEN 0 ELSE Largest(ring)
OldestSeq == IF ring = {} THEN 0 ELSE Smallest(ring)

\* The numbers between a cursor and the oldest row.
Behind(cursor) == (cursor + 1)..(OldestSeq - 1)

\* Mutant of Rows: the newest rows instead of the next ones.
NewestRows(cursor) ==
    {n \in ring : n > cursor /\ Cardinality({m \in ring : m > n}) < Batch}

\* Range: the rows above a cursor, at most a batch, the oldest of them. They are
\* used in the order of their numbers.
Rows(cursor) ==
    {n \in ring : n > cursor /\ Cardinality({m \in ring : cursor < m /\ m < n}) < Batch}

\* What one Append leaves: the row is inserted and the oldest make room.
Kept(rows) == IF Cardinality(rows) > RingCap THEN rows \ {Smallest(rows)} ELSE rows

\* A store call that fails.
Fails(op) == op \in Failing /\ errors < MaxErrors /\ errors' = errors + 1

-----------------------------------------------------------------------------
(* EventBridge.dispatch *)

\* What the observations keep when n is the number of a new event: nothing of an
\* earlier one with that number.
Renewed(c, n) ==
    [c EXCEPT !.got = @ \ {n}, !.named = @ \ {n},
              !.reused = IF n <= c.high THEN @ \cup {n} ELSE @]

\* The number is taken first, atomically.
Stamp(e, k) ==
    /\ emit[e].pc = "idle" /\ seq < MaxSeq
    /\ seq' = seq + 1
    /\ kindOf' = [kindOf EXCEPT ![seq + 1] = k]
    /\ emit' = [emit EXCEPT ![e] = [pc |-> "out", seq |-> seq + 1]]
    /\ client' = [s \in Subs |-> Renewed(client[s], seq + 1)]
    /\ holes' = IF seq + 1 <= NewestSeq THEN holes \cup {seq + 1} ELSE holes \ {seq + 1}
    /\ UNCHANGED <<out, pumpq, ring, fan, sub, mail, sseVars, excused, errors, life>>

\* A non-blocking send: a full channel drops the event.
Offer(q, cap, n) == IF Len(q) < cap THEN Append(q, n) ELSE q

PushOut(e) ==
    /\ emit[e].pc = "out"
    /\ out' = Offer(out, OutCap, emit[e].seq)
    /\ emit' = [emit EXCEPT ![e].pc = "pump"]
    /\ UNCHANGED <<seq, kindOf, pumpq, ring, holes, sockVars, sseVars, excused, errors, life>>

\* The pump is the first waiter: main registers it at boot.
PushPump(e) ==
    /\ emit[e].pc = "pump"
    /\ pumpq' = Offer(pumpq, PumpCap, emit[e].seq)
    /\ holes' = IF Len(pumpq) < PumpCap THEN holes ELSE holes \cup {emit[e].seq}
    /\ emit' = [emit EXCEPT ![e].pc = "hint"]
    /\ UNCHANGED <<seq, kindOf, out, ring, sockVars, sseVars, excused, errors, life>>

\* The other waiters; SSE handlers use what they get only as a wake hint.
PushHints(e) ==
    /\ emit[e].pc = "hint"
    /\ hint' = hint \cup {t \in Tails : tail[t].pc \notin {"off", "open"}}
    /\ emit' = [emit EXCEPT ![e] = Silent]
    /\ UNCHANGED <<seq, kindOf, out, pumpq, ring, holes, sockVars, tail, read, told,
                   excused, errors, life>>

-----------------------------------------------------------------------------
(* The events pump *)

Replaying(c) ==
    IF c \in Subs THEN sub[c].pc \in {"range", "push"} ELSE tail[c].pc = "range"

\* One event is appended under its own number, in one transaction.
PumpAppend ==
    /\ pumpq # <<>> /\ Head(pumpq) \notin ring
    /\ LET n == Head(pumpq)
           rows == Kept(ring \cup {n})
           gone == (ring \cup {n}) \ rows
       IN  /\ ring' = rows
           /\ excused' = [c \in Subs \cup Tails |->
                         IF Replaying(c) THEN excused[c] \cup gone ELSE excused[c]]
    /\ pumpq' = Tail(pumpq)
    /\ UNCHANGED <<seq, kindOf, emit, out, holes, sockVars, sseVars, errors, life>>

\* A failed append, or a number the ring already holds: logged and skipped.
PumpSkip ==
    /\ pumpq # <<>>
    /\ IF Head(pumpq) \in ring THEN UNCHANGED errors ELSE Fails("append")
    /\ holes' = holes \cup {Head(pumpq)}
    /\ pumpq' = Tail(pumpq)
    /\ UNCHANGED <<seq, kindOf, emit, out, ring, sockVars, sseVars, excused, life>>

-----------------------------------------------------------------------------
(* Connections *)

Wanted(s, n) == kindOf[n] \in Filter[s]

\* matchesSub: `since' is compared, not the subscription's progress.
Matches(s, n) == n > sub[s].since /\ Wanted(s, n)

EventFrame(n) == [type |-> "event", lo |-> n, hi |-> n]
DropFrame(lo, hi) == [type |-> "drop", lo |-> lo, hi |-> hi]
ClosedFrame(n) == [type |-> "closed", lo |-> n, hi |-> n]

\* The fan-out goroutine is idle once nothing is left of its event.
Pending(f) == IF f.todo = {} /\ f.frames = <<>> THEN NoFan ELSE f

\* A connection that ends takes its mailbox and its subscription with it; what
\* the fan-out goroutine still has for it goes nowhere.
HangUp(s) ==
    /\ sub' = [sub EXCEPT ![s] = [NoSub EXCEPT !.uses = sub[s].uses]]
    /\ mail' = [mail EXCEPT ![s] = <<>>]
    /\ fan' = Pending([fan EXCEPT !.todo = @ \ {s}, !.on = @ \ {s},
                               !.frames = IF s \in fan.on THEN <<>> ELSE @])

\* pushNotification: a full mailbox ends the connection.
Fits(s) == Len(mail[s]) < MailCap
Post(s, frame) == mail' = [mail EXCEPT ![s] = Append(@, frame)]

\* startWriter: one frame reaches the client.
Write(s) ==
    /\ mail[s] # <<>>
    /\ mail' = [mail EXCEPT ![s] = Tail(@)]
    /\ LET f == Head(mail[s])
           c == client[s]
           high == IF f.type = "drop" \/ f.lo < c.high THEN c.high ELSE f.lo
       IN  client' = [client EXCEPT ![s] =
             [base |-> IF f.type = "event" /\ c.high = 0 THEN f.lo - 1 ELSE c.base,
              high |-> high,
              got |-> IF f.type = "event" THEN c.got \cup {f.lo} ELSE c.got,
              named |-> IF f.type = "drop" THEN c.named \cup (f.lo..f.hi) ELSE c.named,
              reused |-> c.reused]]
    /\ UNCHANGED <<busVars, fan, sub, sseVars, excused, errors, life>>

\* The client goes away, or the writer fails.
Disconnect(s) ==
    /\ sub[s].pc # "off"
    /\ HangUp(s)
    /\ UNCHANGED <<busVars, client, sseVars, excused, errors, life>>

-----------------------------------------------------------------------------
(* subscribe: handleSubscribe and replaySubscription *)

\* since = 0 is a fresh subscription, registered without a replay.
HandleSubscribe(s, since) ==
    /\ sub[s].pc = "off" /\ sub[s].uses < MaxResumes
    /\ sub' = [sub EXCEPT ![s] =
         [pc |-> IF since > 0 THEN "oldest" ELSE "register", since |-> since,
          last |-> since, cursor |-> since, batch |-> {},
          more |-> FALSE, uses |-> @.uses + 1]]
    /\ client' = [client EXCEPT ![s].high = since,
                                ![s].base = IF client[s].high = 0 THEN since ELSE @]
    /\ UNCHANGED <<busVars, fan, mail, sseVars, excused, errors, life>>

\* A client starts anywhere, and resumes after the last number it has read.
Subscribe(s) ==
    \E since \in IF client[s].high = 0 THEN 0..seq ELSE {client[s].high} :
        HandleSubscribe(s, since)

\* emitEvictionGap
Evicted(s) == OldestSeq > sub[s].since + 1
EmitEvictionGap(s) ==
    /\ sub[s].pc = "oldest"
    /\ \/ /\ Evicted(s) /\ Fits(s)
          /\ Post(s, DropFrame(sub[s].since + 1, OldestSeq - 1))
          /\ sub' = [sub EXCEPT ![s].pc = "range"]
          /\ UNCHANGED <<fan, errors>>
       \/ /\ ~Evicted(s)
          /\ sub' = [sub EXCEPT ![s].pc = "range"]
          /\ UNCHANGED <<fan, mail, errors>>
       \/ /\ Evicted(s) /\ ~Fits(s) /\ HangUp(s) /\ UNCHANGED errors
       \/ /\ Fails("oldest")
          /\ sub' = [sub EXCEPT ![s].pc = "range"]
          /\ UNCHANGED <<fan, mail>>
    /\ excused' = IF errors' = errors THEN excused
                  ELSE [excused EXCEPT ![s] = @ \cup Behind(sub[s].since)]
    /\ UNCHANGED <<busVars, client, sseVars, life>>

\* One Range query; an error or an empty answer ends the replay.
PollRing(s) ==
    /\ sub[s].pc = "range"
    /\ LET rows == Rows(sub[s].cursor)
       IN  \/ /\ sub' = [sub EXCEPT ![s].batch = rows, ![s].more = Cardinality(rows) = Batch,
                                    ![s].pc = IF rows = {} THEN "register" ELSE "push"]
              /\ UNCHANGED errors
           \/ /\ Fails("range")
              /\ sub' = [sub EXCEPT ![s].pc = "register"]
    /\ UNCHANGED <<busVars, fan, mail, client, sseVars, excused, life>>

\* pushReplayRecord: a row the filter skips advances the cursor as well. A full
\* batch is followed by another query.
PushReplayRecord(s) ==
    /\ sub[s].pc = "push"
    /\ LET n == Smallest(sub[s].batch)
           rest == sub[s].batch \ {n}
           Advanced == [sub EXCEPT ![s].cursor = n, ![s].batch = rest,
                          ![s].last = IF n > @ THEN n ELSE @,
                          ![s].pc = IF rest # {} THEN "push"
                                    ELSE IF sub[s].more THEN "range" ELSE "register"]
       IN  \/ /\ ~Matches(s, n)
              /\ sub' = Advanced
              /\ UNCHANGED <<fan, mail>>
           \/ /\ Matches(s, n) /\ Fits(s)
              /\ Post(s, EventFrame(n))
              /\ sub' = Advanced
              /\ UNCHANGED fan
           \/ /\ Matches(s, n) /\ ~Fits(s) /\ HangUp(s)
    /\ UNCHANGED <<busVars, client, sseVars, excused, errors, life>>

\* Only now does the fan-out see the subscription.
Register(s) ==
    /\ sub[s].pc = "register"
    /\ sub' = [sub EXCEPT ![s].pc = "live", ![s].cursor = 0, ![s].more = FALSE]
    /\ UNCHANGED <<busVars, fan, mail, client, sseVars, excused, errors, life>>

-----------------------------------------------------------------------------
(* The fan-out goroutine *)

Registered(s) == sub[s].pc \in {"live", "reap", "closing"}

\* fanOutEvent takes an event and the list of connections.
FanTake ==
    /\ out # <<>> /\ fan = NoFan
    /\ fan' = Pending([seq |-> Head(out), todo |-> {s \in Subs : sub[s].pc # "off"},
                      on |-> {}, frames |-> <<>>])
    /\ out' = Tail(out)
    /\ UNCHANGED <<seq, kindOf, emit, pumpq, ring, holes, sub, mail, client, sseVars,
                   excused, errors, life>>

\* Mutant of GapFrames: a gap of one event is not seen.
GapOfTwo(s, n) ==
    IF sub[s].last > 0 /\ n > sub[s].last + 2
    THEN <<DropFrame(sub[s].last + 1, n - 1)>> ELSE <<>>

\* A gap since the last frame is announced before the event.
GapFrames(s, n) ==
    IF sub[s].last > 0 /\ n > sub[s].last + 1
    THEN <<DropFrame(sub[s].last + 1, n - 1)>> ELSE <<>>

\* The frames are built under the connection's lock.
FanBuild(s) ==
    /\ s \in fan.todo /\ fan.frames = <<>>
    /\ LET hit == Registered(s) /\ Matches(s, fan.seq)
       IN  fan' = Pending([fan EXCEPT !.todo = @ \ {s}, !.on = IF hit THEN {s} ELSE {},
                     !.frames = IF hit THEN GapFrames(s, fan.seq) \o <<EventFrame(fan.seq)>>
                                ELSE <<>>])
    /\ UNCHANGED <<busVars, sub, mail, client, sseVars, excused, errors, life>>

\* They are pushed outside it; lastSeq takes the event's number, whatever it was.
FanPush(s) ==
    /\ s \in fan.on /\ fan.frames # <<>>
    /\ LET f == Head(fan.frames)
       IN  \/ /\ Fits(s)
              /\ Post(s, f)
              /\ fan' = Pending([fan EXCEPT !.frames = Tail(@)])
              /\ sub' = IF f.type = "event" THEN [sub EXCEPT ![s].last = fan.seq] ELSE sub
           \/ /\ ~Fits(s) /\ HangUp(s)
    /\ UNCHANGED <<busVars, client, sseVars, excused, errors, life>>

-----------------------------------------------------------------------------
(* The heartbeat: an overdue subscription is closed *)

\* tickHeartbeat reads lastSeq under the lock,
ReapRead(s) ==
    /\ sub[s].pc = "live"
    /\ sub' = [sub EXCEPT ![s].pc = "reap", ![s].cursor = sub[s].last]
    /\ UNCHANGED <<busVars, fan, mail, client, sseVars, excused, errors, life>>

\* pushes subscribe.closed with it as resumeSince,
ReapPush(s) ==
    /\ sub[s].pc = "reap"
    /\ \/ /\ Fits(s)
          /\ Post(s, ClosedFrame(sub[s].cursor))
          /\ sub' = [sub EXCEPT ![s].pc = "closing"]
          /\ UNCHANGED fan
       \/ /\ ~Fits(s) /\ HangUp(s)
    /\ UNCHANGED <<busVars, client, sseVars, excused, errors, life>>

\* and deletes the subscription; the connection stays.
ReapDelete(s) ==
    /\ sub[s].pc = "closing"
    /\ sub' = [sub EXCEPT ![s].pc = "drained"]
    /\ UNCHANGED <<busVars, fan, mail, client, sseVars, excused, errors, life>>

-----------------------------------------------------------------------------
(* GET /v1/events: tailEvents *)

\* resumeCursor: the client's cursor, or the ring's newest row.
Attach(t) ==
    /\ tail[t].pc = "off" /\ tail[t].uses < MaxResumes
    /\ \E c \in IF tail[t].uses = 0 THEN (0..seq) \cup {NewestSeq} ELSE {tail[t].cursor} :
         tail' = [tail EXCEPT ![t].pc = "open", ![t].cursor = c, ![t].uses = @ + 1,
                              ![t].start = IF tail[t].uses = 0 THEN c ELSE @]
    /\ UNCHANGED <<busVars, sockVars, hint, read, told, excused, errors, life>>

\* The subscription for hints is made after that, and before the first poll.
Listen(t) ==
    /\ tail[t].pc = "open"
    /\ tail' = [tail EXCEPT ![t].pc = "stats", ![t].before = -1]
    /\ UNCHANGED <<busVars, sockVars, hint, read, told, excused, errors, life>>

\* Mutant of HeartbeatPoll: the tick only writes a keepalive.
KeepaliveOnly(t) == tail[t].pc = "idle" /\ UNCHANGED vars

\* The heartbeat polls too, whether a hint came or not.
HeartbeatPoll(t) ==
    /\ tail[t].pc = "idle"
    /\ tail' = [tail EXCEPT ![t].pc = "stats", ![t].before = -1]
    /\ UNCHANGED <<busVars, sockVars, hint, read, told, excused, errors, life>>

\* onWakeHint: the backlog of hints is one poll.
WakeHint(t) ==
    /\ tail[t].pc = "idle" /\ t \in hint
    /\ hint' = hint \ {t}
    /\ tail' = [tail EXCEPT ![t].pc = "stats", ![t].before = tail[t].cursor]
    /\ UNCHANGED <<busVars, sockVars, read, told, excused, errors, life>>

\* A hint that outran the pump: wait and poll once more.
SettlePoll(t) ==
    /\ tail[t].pc = "settle"
    /\ tail' = [tail EXCEPT ![t].pc = "stats", ![t].before = -1]
    /\ UNCHANGED <<busVars, sockVars, hint, read, told, excused, errors, life>>

\* Replay, first half: SyntheticDrop for rows the cursor has fallen behind.
ReplayStats(t) ==
    /\ tail[t].pc = "stats"
    /\ \/ /\ tail' = [tail EXCEPT ![t].pc = "range",
                                  ![t].gap = Behind(tail[t].cursor)]
          /\ UNCHANGED errors
       \/ /\ Fails("oldest")
          /\ tail' = [tail EXCEPT ![t].pc = "range", ![t].gap = {}]
    /\ excused' = IF errors' = errors THEN excused
                  ELSE [excused EXCEPT ![t] = @ \cup Behind(tail[t].cursor)]
    /\ UNCHANGED <<busVars, sockVars, hint, read, told, life>>

\* Replay, second half, and the writes of emit: the rows up to some cursor reach
\* the client, and a failed write ends the request.
ReplayRange(t) ==
    /\ tail[t].pc = "range"
    /\ LET rows == Rows(tail[t].cursor)
           extra == IF tail[t].gap = {} THEN 0 ELSE 1
       IN  \E cursor \in {tail[t].cursor} \cup rows :
             LET written == {n \in rows : n <= cursor}
                 after == IF Cardinality(rows) + extra >= Batch THEN "stats"
                          ELSE IF cursor = tail[t].before THEN "settle"
                          ELSE "idle"
             IN  /\ tail' = [tail EXCEPT ![t].cursor = cursor, ![t].gap = {},
                               ![t].before = IF written = rows /\ after = "stats" THEN @ ELSE -1,
                               ![t].pc = IF written = rows THEN after ELSE "off"]
                 /\ hint' = IF written = rows THEN hint ELSE hint \ {t}
                 /\ read' = [read EXCEPT ![t] = @ \cup written]
                 /\ told' = [told EXCEPT ![t] = @ \cup tail[t].gap]
    /\ UNCHANGED <<busVars, sockVars, excused, errors, life>>

\* The request ends: the client left, or Range failed.
Detach(t) ==
    /\ tail[t].pc # "off"
    /\ tail' = [tail EXCEPT ![t].pc = "off", ![t].gap = {}, ![t].before = -1]
    /\ hint' = hint \ {t}
    /\ UNCHANGED <<busVars, sockVars, read, told, excused, errors, life>>

-----------------------------------------------------------------------------
(* The daemon stops and starts: numbering resumes above the ring *)

\* Mutant of Seed: numbering starts over.
FromOne == 0

Seed == NewestSeq

Restart ==
    /\ Crashes /\ life < MaxLives
    /\ life' = life + 1
    /\ \/ seq' = Seed /\ UNCHANGED errors
       \/ seq' = 0 /\ Fails("stats")
    /\ emit' = [e \in Emitters |-> Silent]
    /\ out' = <<>> /\ pumpq' = <<>> /\ fan' = NoFan
    /\ sub' = [s \in Subs |-> [NoSub EXCEPT !.uses = sub[s].uses]]
    /\ mail' = [s \in Subs |-> <<>>]
    /\ tail' = [t \in Tails |-> [tail[t] EXCEPT !.pc = "off", !.gap = {}, !.before = -1]]
    /\ hint' = {}
    /\ UNCHANGED <<kindOf, ring, holes, client, read, told, excused>>

-----------------------------------------------------------------------------

Bridge == \E e \in Emitters :
    \/ \E k \in Kinds : Stamp(e, k)
    \/ PushOut(e) \/ PushPump(e) \/ PushHints(e)
Pump == PumpAppend \/ PumpSkip
Socket == \E s \in Subs :
    \/ Subscribe(s) \/ EmitEvictionGap(s) \/ PollRing(s) \/ PushReplayRecord(s)
    \/ Register(s) \/ FanBuild(s) \/ FanPush(s) \/ Write(s) \/ Disconnect(s)
    \/ ReapRead(s) \/ ReapPush(s) \/ ReapDelete(s)
Sse == \E t \in Tails :
    \/ Attach(t) \/ Listen(t) \/ HeartbeatPoll(t) \/ WakeHint(t) \/ SettlePoll(t)
    \/ ReplayStats(t) \/ ReplayRange(t) \/ Detach(t)

Next == Bridge \/ Pump \/ FanTake \/ Socket \/ Sse \/ Restart

Spec == Init /\ [][Next]_vars

\* Goroutines that are not blocked run, and the SSE timers fire. Nothing is
\* assumed of the clients or of WhatsApp.
Fairness ==
    /\ \A e \in Emitters : WF_vars(PushOut(e) \/ PushPump(e) \/ PushHints(e))
    /\ WF_vars(Pump)
    /\ \A t \in Tails : WF_vars(Listen(t) \/ HeartbeatPoll(t) \/ WakeHint(t)
                                \/ SettlePoll(t) \/ ReplayStats(t) \/ ReplayRange(t))

FairSpec == Spec /\ Fairness

-----------------------------------------------------------------------------
(* Properties *)

Between(lo, hi) == {n \in Seqs : lo < n /\ n <= hi}

\* A socket client that comes back after the last number it read has, for the latest
\* event with each number up to that one, if its filter wants it, either the event or
\* a stream.drop that names it: over disconnects, full mailboxes, pong timeouts,
\* dropped live events, evicted rows, failed ring reads and restarts. Excepted are
\* events that never reached the ring, rows evicted between the replay's OldestSeq and
\* Range reads, rows evicted before an OldestSeq that failed, and, after a restart,
\* events that were given a number the client had read up to already: matchesSub
\* drops those without a word.
NoSilentLoss ==
    \A s \in Subs : \A n \in Between(client[s].base, client[s].high) :
        Wanted(s, n) => n \in client[s].got \cup client[s].named \cup client[s].reused
                              \cup holes \cup excused[s]

\* What docs/manual.md says of --since ("you pick up where you stopped"), of every
\* event. A restart refutes it.
PicksUpWhereItStopped ==
    \A s \in Subs : \A n \in client[s].reused : ~Wanted(s, n)

\* The same as NoSilentLoss of an SSE client and its Last-Event-ID.
SseNoSilentLoss ==
    \A t \in Tails : \A n \in Between(tail[t].start, tail[t].cursor) :
        n \in read[t] \cup told[t] \cup holes \cup excused[t]

\* Numbering continues above the ring after a restart, so the pump's rows never
\* collide with rows it still holds, as long as the seed could be read.
NumbersAboveRing ==
    errors = 0 => \A i \in DOMAIN pumpq : pumpq[i] \notin ring

\* sse.go: the heartbeat poll guarantees that a row of the ring reaches every
\* attached client, even with no hints, unless a store call fails first.
RingReachesTail ==
    \A t \in Tails : \A n \in Seqs :
        (n \in ring /\ tail[t].pc # "off" /\ n > tail[t].start /\ errors = 0)
            ~> (n \in read[t] \/ n \notin ring \/ tail[t].pc = "off" \/ errors > 0)
=============================================================================
