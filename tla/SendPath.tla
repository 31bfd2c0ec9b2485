------------------------------ MODULE SendPath ------------------------------
(***************************************************************************)
(* The way of an outbound call (send, and sendMedia and react without the  *)
(* follow) through the dispatcher: the idempotency sidecar around it, the  *)
(* gates every send passes (allowlist, token buckets, deliverability,      *)
(* block list), the optional humanized pause, the send itself, the audit   *)
(* row and the sidecar's record of the answer.                             *)
(*                                                                         *)
(* Several calls are in progress at once; every database statement, every  *)
(* question to the server and every use of the limiter is a step of its    *)
(* own.  A client that goes away cancels the context of its call at any    *)
(* moment.  The allowlist and the server's block list change on their own. *)
(***************************************************************************)
EXTENDS Integers, Sequences, FiniteSets, SequencesExt

CONSTANTS
    Callers,        \* calls in progress at once
    Allowed,        \* the allowlist at the start
    JIDs, Users,    \* recipients; those that are phone numbers
    Answers,        \* [JIDs -> what the server may say it is routed under]
    NoJID,          \* the answer: no such account
    Keys, NoKey,    \* idempotency keys; NoKey is the omitted one
    SecondBurst, SecondRefill,  \* perSecond: burst, tokens per tick
    MinuteBurst, MinuteRefill,  \* perMinute: burst, tokens per tick
    TTL,            \* life of a sidecar row, in ticks
    MaxTime,        \* bound: ticks
    MaxCalls,       \* bound: calls begun
    MaxTroubles     \* bound: changes of the two lists, hang-ups and failing
                    \* calls to a database or to the server

ASSUME SendPathAssumption ==
    /\ IsFiniteSet(Callers)
    /\ Users \subseteq JIDs /\ Allowed \subseteq JIDs
    /\ NoJID \notin JIDs /\ Answers \in [JIDs -> SUBSET (JIDs \cup {NoJID})]
    /\ NoKey \notin Keys
    /\ SecondBurst \in Nat \ {0} /\ MinuteBurst \in Nat \ {0}
    /\ SecondRefill \in Nat /\ MinuteRefill \in Nat
    /\ TTL \in Nat \ {0}
    /\ MaxTime \in Nat /\ MaxCalls \in Nat /\ MaxTroubles \in Nat

VARIABLES
    now,      \* wall clock
    second,   \* tokens in perSecond
    minute,   \* tokens in perMinute
    allow,    \* the allowlist's JIDs with the send action
    blocked,  \* the server's block list
    table,    \* idempotency_keys: when each key's row expires, 0 for no row
    call,     \* calls in progress
    audit,    \* JIDs named by the audit rows of sends
    stamped,  \* calls whose audit event is made and may still be written, by TS
    begun, changes, errors,
    wire,     \* observation: the messages that left, in order
    overlapped, \* observation: keys in two calls at once, or in a call cut off
    overtaken \* observation: JIDs whose row came after one with a later TS

auditVars == <<audit, stamped, overtaken>>
vars == <<now, second, minute, allow, blocked, table, call, auditVars, begun,
          changes, errors, wire, overlapped>>

Times == 0..MaxTime
NoRow == 0
Gates == {"allow", "block"} \X JIDs

\* asked is the JID of the params, to the one the call now works with; at is
\* the sidecar's clock at its look-up, granted the tick of the last token;
\* passed are the gates passed, for the properties.
Idle == [pc |-> "idle"]
Busy == [pc : {"lookup", "safety", "probe", "block", "send", "sent", "record"},
         asked : JIDs, to : JIDs, key : Keys \cup {NoKey},
         follow : BOOLEAN, alive : BOOLEAN, at : Times, granted : Times,
         passed : SUBSET Gates, ok : BOOLEAN]

\* A message that left, with what the properties ask of its call.
Messages == [to : JIDs, key : Keys \cup {NoKey}, at : Times, granted : Times,
             cleared : BOOLEAN, agreed : BOOLEAN]

TypeOK ==
    /\ now \in Times
    /\ second \in 0..SecondBurst /\ minute \in 0..MinuteBurst
    /\ allow \subseteq JIDs /\ blocked \subseteq JIDs
    /\ table \in [Keys -> 0..(MaxTime + TTL)]
    /\ call \in [Callers -> Busy \cup {Idle}]
    /\ audit \subseteq JIDs /\ overtaken \subseteq JIDs
    /\ stamped \in Seq(Callers)
    /\ begun \in 0..MaxCalls /\ changes \in 0..MaxTroubles /\ errors \in 0..MaxTroubles
    /\ wire \in Seq(Messages)
    /\ overlapped \subseteq Keys

Init ==
    /\ now = 0
    /\ second = SecondBurst /\ minute = MinuteBurst
    /\ allow = Allowed /\ blocked = {}
    /\ table = [k \in Keys |-> NoRow]
    /\ call = [c \in Callers |-> Idle]
    /\ audit = {} /\ stamped = <<>> /\ overtaken = {}
    /\ begun = 0 /\ changes = 0 /\ errors = 0
    /\ wire = <<>> /\ overlapped = {}

-----------------------------------------------------------------------------
(* The surroundings *)

Least(x, y) == IF x < y THEN x ELSE y

\* rate.Limiter: tokens accrue with time up to the burst.
Refill(tokens, rate, burst) == Least(tokens + rate, burst)

Tick ==
    /\ now < MaxTime
    /\ now' = now + 1
    /\ second' = Refill(second, SecondRefill, SecondBurst)
    /\ minute' = Refill(minute, MinuteRefill, MinuteBurst)
    /\ UNCHANGED <<allow, blocked, table, call, auditVars, begun, changes, errors, wire, overlapped>>

\* An allow or a revoke of one JID, by allow.* or a reload of the file.
Regrant ==
    /\ changes + errors < MaxTroubles /\ changes' = changes + 1
    /\ \E j \in JIDs : allow' \in {allow \cup {j}, allow \ {j}}
    /\ UNCHANGED <<now, second, minute, blocked, table, call, auditVars, begun, errors, wire, overlapped>>

\* contact.block, contact.unblock, or the phone.
Block ==
    /\ changes + errors < MaxTroubles /\ changes' = changes + 1
    /\ \E j \in JIDs : blocked' \in {blocked \cup {j}, blocked \ {j}}
    /\ UNCHANGED <<now, second, minute, allow, table, call, auditVars, begun, errors, wire, overlapped>>

\* Mutant: a row ends a tick early.
ExpiredEarly(k) == table[k] <= now + 1

\* The SELECT asks for expires_at > now; no row has expired long ago.
Expired(k) == table[k] <= now

\* RunIdempotencySweeper: DELETE ... WHERE expires_at <= now.
Sweep ==
    /\ table' = [k \in Keys |-> IF Expired(k) THEN NoRow ELSE table[k]]
    /\ UNCHANGED <<now, second, minute, allow, blocked, call, auditVars, begun, changes, errors, wire, overlapped>>

\* The client hangs up: the request's context is cancelled.
HangUp(c) ==
    /\ changes + errors < MaxTroubles /\ changes' = changes + 1
    /\ call[c] # Idle /\ call[c].alive
    /\ call' = [call EXCEPT ![c].alive = FALSE]
    /\ UNCHANGED <<now, second, minute, allow, blocked, table, auditVars, begun, errors, wire, overlapped>>

-----------------------------------------------------------------------------
(* A call *)

\* A call that uses the context fails once it is cancelled, and may fail on
\* its own, which errors counts.
Fails(c) ==
    IF call[c].alive THEN changes + errors < MaxTroubles /\ errors' = errors + 1
                     ELSE UNCHANGED errors
Works(c) == call[c].alive /\ UNCHANGED errors

Goto(c, pc) == call' = [call EXCEPT ![c].pc = pc]
Return(c) == call' = [call EXCEPT ![c] = Idle]

InUse(k) == \E d \in Callers : call[d] # Idle /\ call[d].key = k

\* handleSend: a keyed call goes through the sidecar.
HandleSend(c) ==
    /\ call[c] = Idle /\ begun < MaxCalls
    /\ \E j \in JIDs, k \in Keys \cup {NoKey}, f \in BOOLEAN :
         /\ call' = [call EXCEPT ![c] =
                       [pc |-> IF k = NoKey THEN "safety" ELSE "lookup",
                        asked |-> j, to |-> j, key |-> k,
                        follow |-> f, alive |-> TRUE, at |-> 0,
                        granted |-> 0, passed |-> {}, ok |-> FALSE]]
         /\ overlapped' = IF k # NoKey /\ InUse(k) THEN overlapped \cup {k} ELSE overlapped
    /\ begun' = begun + 1
    /\ UNCHANGED <<now, second, minute, allow, blocked, table, auditVars, changes, errors, wire>>

\* LoadOrStore's SELECT: an unexpired row ends the call, with the cached bytes
\* or, for other params, with a collision; otherwise the call runs.
Hit(k) == ~Expired(k)

Lookup(c) ==
    /\ call[c].pc = "lookup"
    /\ \/ Works(c) /\ Hit(call[c].key) /\ Return(c)
       \/ Works(c) /\ ~Hit(call[c].key) /\ call' = [call EXCEPT ![c].pc = "safety", ![c].at = now]
       \/ Fails(c) /\ Return(c)
    /\ UNCHANGED <<now, second, minute, allow, blocked, table, auditVars, begun, changes, wire, overlapped>>

\* Mutant: perMinute is not consulted.
SafetySecondOnly(c) ==
    /\ call[c].pc = "safety"
    /\ IF call[c].to \in allow /\ second > 0
       THEN /\ second' = second - 1
            /\ call' = [call EXCEPT ![c].pc = "probe", ![c].granted = now,
                                    ![c].passed = @ \cup {<<"allow", call[c].to>>}]
       ELSE Return(c) /\ UNCHANGED second
    /\ UNCHANGED <<now, minute, allow, blocked, table, auditVars, begun, changes, errors, wire, overlapped>>

\* SafetyPipeline.Check: the allowlist, then perSecond, then perMinute.  A
\* token of perSecond is spent even if perMinute then refuses.
Safety(c) ==
    /\ call[c].pc = "safety"
    /\ IF call[c].to \in allow /\ second > 0
       THEN /\ second' = second - 1
            /\ IF minute > 0
               THEN /\ minute' = minute - 1
                    /\ call' = [call EXCEPT ![c].pc = "probe", ![c].granted = now,
                                            ![c].passed = @ \cup {<<"allow", call[c].to>>}]
               ELSE Return(c) /\ UNCHANGED minute
       ELSE Return(c) /\ UNCHANGED <<second, minute>>
    /\ UNCHANGED <<now, allow, blocked, table, auditVars, begun, changes, errors, wire, overlapped>>

\* Mutant: the canonical JID is held against the block list only.
FollowUngated(c, canonical) ==
    [call EXCEPT ![c].pc = "block", ![c].to = canonical]

\* guardSendFollowing: the gates are run again for the canonical JID, once.
Follow(c, canonical) ==
    [call EXCEPT ![c].pc = "safety", ![c].to = canonical]

\* ensureOnWhatsApp: only phone numbers are asked about, and a question that
\* fails lets the call through.
Probe(c) ==
    /\ call[c].pc = "probe"
    /\ LET j == call[c].to IN
       \/ /\ j \notin Users
          /\ Goto(c, "block") /\ UNCHANGED errors
       \/ j \in Users /\ Fails(c) /\ Goto(c, "block")
       \/ /\ j \in Users /\ Works(c)
          /\ \E canonical \in Answers[j] :
             \/ canonical = j /\ Goto(c, "block")
             \/ canonical = NoJID /\ Return(c)
             \/ /\ canonical \notin {j, NoJID}
                /\ IF call[c].follow /\ call[c].asked = j
                   THEN call' = Follow(c, canonical)
                   ELSE Return(c)
    /\ UNCHANGED <<now, second, minute, allow, blocked, table, auditVars, begun, changes, wire, overlapped>>

\* ensureNotBlocked: the live list; here a question that fails refuses.
NotBlocked(c) ==
    /\ call[c].pc = "block"
    /\ \/ /\ Works(c) /\ call[c].to \notin blocked
          /\ call' = [call EXCEPT ![c].pc = "send", ![c].passed = @ \cup {<<"block", call[c].to>>}]
       \/ Works(c) /\ call[c].to \in blocked /\ Return(c)
       \/ Fails(c) /\ Return(c)
    /\ UNCHANGED <<now, second, minute, allow, blocked, table, auditVars, begun, changes, wire, overlapped>>

\* humanizeBeforeSend: a context cancelled during the pause ends the call.
Humanize(c) ==
    /\ call[c].pc = "send" /\ ~call[c].alive
    /\ Return(c)
    /\ UNCHANGED <<now, second, minute, allow, blocked, table, auditVars, begun, changes, errors, wire, overlapped>>

Message(c) == LET m == call[c] IN
    [to |-> m.to, key |-> m.key, at |-> m.at, granted |-> m.granted,
     cleared |-> {<<"allow", m.to>>, <<"block", m.to>>} \subseteq m.passed,
     agreed |-> m.to = m.asked \/ (m.follow /\ m.to \in Answers[m.asked])]

\* MessageSender.Send, and the audit event, which takes the time before Record
\* takes the log's lock.  When Send fails, the message may have left all the
\* same: the server's answer was lost, or not waited for.
Send(c) ==
    /\ call[c].pc = "send"
    /\ \/ /\ Works(c)
          /\ wire' = Append(wire, Message(c))
          /\ call' = [call EXCEPT ![c].pc = "sent", ![c].ok = TRUE]
          /\ UNCHANGED overlapped
       \/ /\ Fails(c)
          /\ Goto(c, "sent")
          /\ \/ UNCHANGED <<wire, overlapped>>
             \/ /\ wire' = Append(wire, Message(c))
                /\ overlapped' = overlapped \cup ({call[c].key} \ {NoKey})
    /\ stamped' = Append(stamped, c)
    /\ UNCHANGED <<now, second, minute, allow, blocked, table, audit, overtaken, begun, changes>>

\* Audit.Record refuses an event whose TS is not after the last one written:
\* a row closes the log to the n oldest events that are still to be written.
Overtake(n) ==
    overtaken' = overtaken \cup {call[stamped[i]].to : i \in 1..n}
Close(n) == stamped' = SubSeq(stamped, n + 1, Len(stamped))

\* Mutant: the row names the JID asked for.
AuditAsked(c) == {call[c].asked}

\* The audit event is made of the JID the message went to.
AuditRow(c) == {call[c].to}

\* Record, whose failure recordAudit only logs.  An error of Send ends the call.
RecordAudit(c) ==
    /\ call[c].pc = "sent"
    /\ IF call[c].ok /\ call[c].key # NoKey THEN Goto(c, "record") ELSE Return(c)
    /\ \/ \E i \in DOMAIN stamped :
          /\ stamped[i] = c
          /\ \/ /\ Close(i) /\ Overtake(i - 1)
                /\ audit' = audit \cup AuditRow(c)
                /\ UNCHANGED errors
             \/ /\ changes + errors < MaxTroubles /\ errors' = errors + 1
                /\ stamped' = RemoveAt(stamped, i)
                /\ UNCHANGED <<audit, overtaken>>
       \/ /\ c \notin Range(stamped)
          /\ UNCHANGED <<auditVars, errors>>
    /\ UNCHANGED <<now, second, minute, allow, blocked, table, begun, changes, wire, overlapped>>

\* A row of another method, or of a refused call, made at any time between.
OtherRow ==
    /\ \E n \in DOMAIN stamped : Close(n) /\ Overtake(n)
    /\ UNCHANGED <<now, second, minute, allow, blocked, table, call, audit, begun, changes, errors, wire, overlapped>>

\* LoadOrStore's INSERT OR REPLACE, which expires TTL after the look-up.
Record(c) ==
    /\ call[c].pc = "record"
    /\ \/ /\ Works(c)
          /\ table' = [table EXCEPT ![call[c].key] = call[c].at + TTL]
          /\ UNCHANGED overlapped
       \/ /\ Fails(c)
          /\ overlapped' = overlapped \cup {call[c].key}
          /\ UNCHANGED table
    /\ Return(c)
    /\ UNCHANGED <<now, second, minute, allow, blocked, auditVars, begun, changes, wire>>

-----------------------------------------------------------------------------
Step(c) ==
    \/ HandleSend(c) \/ HangUp(c)
    \/ call[c] # Idle /\ (\/ Lookup(c) \/ Safety(c) \/ Probe(c) \/ NotBlocked(c)
                          \/ Humanize(c) \/ Send(c) \/ RecordAudit(c) \/ Record(c))

Next == Tick \/ Regrant \/ Block \/ Sweep \/ OtherRow \/ \E c \in Callers : Step(c)

Spec == Init /\ [][Next]_vars

-----------------------------------------------------------------------------
(* Properties *)

\* Whoever is messaged was on the allowlist and off the block list during this
\* call, under the very JID the message goes to, and is the one asked for or, for a caller that agreed to
\* follow, the one the server routes it under (guardSendFollowing, #354).
SentWasCleared ==
    \A i \in DOMAIN wire : wire[i].cleared /\ wire[i].agreed

\* Over any span of time no more messages leave, counted at the tick their
\* token was taken, than the two buckets' bursts and refills add up to,
\* whatever the interleaving and however often a call follows a moved
\* recipient (RateLimiter.Allow).
RateHolds ==
    \A t \in Times, u \in Times : t <= u =>
        LET sent == Cardinality({i \in DOMAIN wire : wire[i].granted \in t..u}) IN
        /\ sent <= SecondBurst + SecondRefill * (u - t)
        /\ sent <= MinuteBurst + MinuteRefill * (u - t)

\* A retry is safe: under one key messages leave at least a row's life apart,
\* unless two calls with the key overlapped or one was cut off between its
\* message and its row (LoadOrStore; docs/manual.md: "Supplying
\* --idempotency-key makes a retry safe").
RetrySendsOnce ==
    \A i, j \in DOMAIN wire :
        i < j /\ wire[i].key = wire[j].key /\ wire[i].key \in Keys \ overlapped
            => wire[j].at >= wire[i].at + TTL

\* With the audit log working, every message that left and whose call has
\* gone on has a row naming the JID it was sent to, unless a row with a later
\* TS was written first (recordAudit, Audit.Record).
SentIsAudited ==
    errors = 0 => \A i \in DOMAIN wire :
        \/ wire[i].to \in audit \cup overtaken
        \/ \E c \in Callers : call[c] # Idle /\ call[c].pc = "sent" /\ call[c].to = wire[i].to
=============================================================================
