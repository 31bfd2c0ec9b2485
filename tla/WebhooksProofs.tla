--------------------------- MODULE WebhooksProofs ---------------------------
(***************************************************************************)
(* What the webhook queue guarantees for any number of endpoints, queued   *)
(* deliveries, attempts, replays, restarts and store errors.               *)
(***************************************************************************)
EXTENDS Webhooks, TLAPS

-----------------------------------------------------------------------------
(* Types *)

\* The part of TypeOK the arguments below rest on, and that a row names its
\* endpoint from its insert on.
TypeInv ==
    /\ ep \in [Endpoints -> Endpoint]
    /\ del \in [Ids -> Delivery]
    /\ \A d \in Ids : Stored(d) => del[d].ep \in Endpoints
    /\ fan \subseteq Endpoints
    /\ batch \subseteq Due
    /\ work \in Work
    /\ posts \in [Ids -> Nat]
    /\ accepted \subseteq Ids
    /\ marks \in [Ids -> Nat]
    /\ replays \in [Ids -> Nat]
    /\ deadRun \in [Endpoints -> Nat]

-----------------------------------------------------------------------------
(* The settling of a delivery *)

Attempting == work.pc \in {"post", "ok", "failed"}
Unsettled(d) == Stored(d) => del[d].state = "pending"

\* What the columns of a row say of its history.
RowInv ==
    \A d \in Ids :
      /\ del[d].attempts <= posts[d]
      /\ del[d].state = "delivered" => d \in accepted
      /\ del[d].state = "dead" => MaxAttempts <= posts[d]
      /\ marks[d] <= 1 + replays[d]
      /\ del[d].state \in {"free", "pending"} => marks[d] <= replays[d]

\* What the loop has copied and not attempted yet: the copy counts no more
\* attempts than were made, and its row is unsettled or deleted.
BatchInv ==
    \A b \in batch :
      /\ b.attempts <= posts[b.id]
      /\ Unsettled(b.id)
      /\ Attempting => work.id # b.id
      /\ \A c \in batch : b.id = c.id => b = c

\* The same of the delivery being attempted.
WorkInv ==
    /\ Attempting => Unsettled(work.id)
    /\ work.pc = "post" => work.attempts <= posts[work.id]
    /\ work.pc = "ok" => work.id \in accepted
    /\ work.pc = "failed" => work.attempts + 1 <= posts[work.id]

QueueInv == TypeInv /\ RowInv /\ BatchInv /\ WorkInv

-----------------------------------------------------------------------------
(* The streak of dead deliveries, while no statement of the loop is lost *)

Gone(e) == ep[e].state \in {"removing", "removed"}
Bumping(e) == work.pc = "bump" /\ work.ep = e
Resetting(e) == work.pc = "reset" /\ work.ep = e

\* A copied delivery still has its row, unless its endpoint is being removed.
RowOf(d, e) == (Stored(d) /\ del[d].ep = e) \/ Gone(e)
CopyInv ==
    /\ \A b \in batch : RowOf(b.id, b.ep)
    /\ work.pc \in {"post", "failed"} => RowOf(work.id, work.ep)

\* The stored streak never runs ahead of the dead deliveries, but for the
\* moment between the two statements of MarkDelivered.
CountInv ==
    \A e \in Endpoints :
      /\ ep[e].state = "free" => ep[e].streak = 0
      /\ ~Gone(e) /\ ~Resetting(e) => /\ ep[e].streak <= deadRun[e]
                                      /\ Bumping(e) => ep[e].streak + 1 <= deadRun[e]

NoneLost == proc = "up" /\ errors = 0

StreakInv == QueueInv /\ NoneLost /\ CopyInv /\ CountInv

-----------------------------------------------------------------------------
(* Facts of the operators *)

\* What the fields of the delivery in progress are.
LEMMA WorkFields ==
    ASSUME work \in Work
    PROVE /\ work = NoWork => work.pc = "idle"
          /\ work.pc # "idle" => work.id \in Ids /\ work.ep \in Endpoints
                                   /\ work.attempts \in Nat
BY DEF Work, NoWork

LEMMA WorkAtType ==
    ASSUME work \in Work, work.pc # "idle",
           NEW pc \in {"post", "ok", "reset", "failed", "bump"}
    PROVE  WorkAt(pc) \in Work
BY WorkFields DEF Work, WorkAt

LEMMA NoWorkType == NoWork \in Work /\ NoWork.pc = "idle"
BY DEF Work, NoWork

\* The wait after a failed attempt that is not the last is in the table.
LEMMA BackoffType ==
    ASSUME NEW n \in Nat \ {0}, ~Exhausted(n)
    PROVE  0 - Backoff[n] \in Lateness
BY WebhookAssumption DEF Exhausted, MaxAttempts, Lateness

\* Writing one row, with the endpoint it belongs to.
LEMMA RowWritten ==
    ASSUME TypeInv, NEW d \in Ids, NEW r \in Delivery, r.ep \in Endpoints,
           del' = [del EXCEPT ![d] = r]
    PROVE  /\ del' \in [Ids -> Delivery]
           /\ \A x \in Ids : Stored(x)' => del'[x].ep \in Endpoints
BY DEF TypeInv, Stored

LEMMA InitTypes == Init => QueueInv
<1> SUFFICES ASSUME Init PROVE QueueInv
    OBVIOUS
<1>1. TypeInv
    BY NoWorkType DEF Init, TypeInv, Endpoint, Delivery, Lateness, Stored, Live
<1>2. RowInv
    BY DEF Init, RowInv
<1>3. BatchInv /\ WorkInv
    BY NoWorkType DEF Init, BatchInv, WorkInv, Attempting
<1> QED BY <1>1, <1>2, <1>3 DEF QueueInv

-----------------------------------------------------------------------------
(* Every step keeps the types *)

LEMMA TypesKept == TypeInv /\ [Next]_vars => TypeInv'
<1> SUFFICES ASSUME TypeInv, [Next]_vars PROVE TypeInv'
    OBVIOUS
<1> USE DEF TypeInv
<1>1. CASE UNCHANGED vars
    BY <1>1 DEF vars, memVars, obs, Stored
<1>2. ASSUME NEW t \in Types, Publish(t) PROVE TypeInv'
    BY <1>2 DEF Publish, obs, Stored
<1>3. CASE FanOut
    BY <1>3 DEF FanOut, obs, Stored
<1>4. ASSUME NEW e \in Endpoints, Enqueue(e) PROVE TypeInv'
  <2>1. CASE UNCHANGED del
    BY <1>4, <2>1 DEF Enqueue, obs, Stored
  <2>2. CASE ~UNCHANGED del
    <3> DEFINE r == [state |-> "pending", ep |-> e, attempts |-> 0, late |-> 0]
    <3>1. PICK d \in Ids : del' = [del EXCEPT ![d] = r]
        BY <1>4, <2>2 DEF Enqueue
    <3>2. r \in Delivery /\ r.ep \in Endpoints
        BY DEF Delivery, Lateness, Live
    <3> HIDE DEF r
    <3>3. /\ del' \in [Ids -> Delivery]
          /\ \A x \in Ids : Stored(x)' => del'[x].ep \in Endpoints
        BY <3>1, <3>2, RowWritten
    <3> QED BY <1>4, <3>3 DEF Enqueue, obs
  <2> QED BY <2>1, <2>2
<1>5. ASSUME NEW e \in Endpoints, Add(e) PROVE TypeInv'
    BY <1>5 DEF Add, memVars, obs, Stored, Endpoint
<1>6. ASSUME NEW e \in Endpoints, RemoveEndpoint(e) PROVE TypeInv'
    BY <1>6 DEF RemoveEndpoint, obs, Stored, Endpoint
<1>7. ASSUME NEW e \in Endpoints, RemoveDeliveries(e) PROVE TypeInv'
    BY <1>7 DEF RemoveDeliveries, Stored, Live, Endpoint, Delivery, Lateness
<1>8. CASE Scan
    BY <1>8 DEF Scan, Selected, IsDue, Stored, Live, Due, Delivery
<1>9. ASSUME NEW d \in batch, NextDue(d) PROVE TypeInv'
    BY <1>9 DEF NextDue, obs, Stored, Due, Work
<1>10. ASSUME NEW r \in Replies, Post(r) PROVE TypeInv'
    BY <1>10, WorkFields, WorkAtType DEF Post, Stored
<1>11. CASE StoreFails
    BY <1>11, NoWorkType DEF StoreFails, obs, Stored
<1>12. CASE MarkDelivered
  <2>1. work.id \in Ids /\ work.ep \in Endpoints /\ work' \in Work
    BY <1>12, WorkFields, WorkAtType DEF MarkDelivered
  <2>2. CASE ~Stored(work.id)
    BY <1>12, <2>1, <2>2 DEF MarkDelivered, Stored
  <2>3. CASE Stored(work.id)
    <3> DEFINE r == [state |-> "delivered", ep |-> work.ep,
                     attempts |-> del[work.id].attempts, late |-> del[work.id].late]
    <3>1. del' = [del EXCEPT ![work.id] = r]
        BY <1>12, <2>3 DEF MarkDelivered
    <3>2. r \in Delivery /\ r.ep \in Endpoints
        BY <2>1 DEF Delivery, Live
    <3> HIDE DEF r
    <3>3. /\ del' \in [Ids -> Delivery]
          /\ \A x \in Ids : Stored(x)' => del'[x].ep \in Endpoints
        BY <2>1, <3>1, <3>2, RowWritten
    <3>4. marks' \in [Ids -> Nat] /\ deadRun' \in [Endpoints -> Nat]
        BY <1>12, <2>1, <2>3 DEF MarkDelivered
    <3> QED BY <1>12, <2>1, <3>3, <3>4 DEF MarkDelivered
  <2> QED BY <2>2, <2>3
<1>13. CASE ResetStreak
    BY <1>13, WorkFields, NoWorkType DEF ResetStreak, StreakAfterSuccess, Registered, obs, Stored, Endpoint
<1>14. CASE MarkFailed
  <2> DEFINE n == work.attempts + 1
  <2>1. work.id \in Ids /\ work.ep \in Endpoints /\ n \in Nat \ {0}
    BY <1>14, WorkFields DEF MarkFailed
  <2>2. work' \in Work
    BY <1>14, WorkAtType, NoWorkType DEF MarkFailed
  <2>3. CASE ~Stored(work.id)
    BY <1>14, <2>1, <2>2, <2>3 DEF MarkFailed, Stored
  <2>4. CASE Stored(work.id)
    <3> DEFINE r == [state |-> IF Exhausted(n) THEN "dead" ELSE "pending",
                     ep |-> work.ep, attempts |-> n,
                     late |-> IF Exhausted(n) THEN MaxLate ELSE 0 - Backoff[n]]
    <3>1. del' = [del EXCEPT ![work.id] = r]
        BY <1>14, <2>4 DEF MarkFailed
    <3>2. (IF Exhausted(n) THEN MaxLate ELSE 0 - Backoff[n]) \in Lateness
        BY <2>1, BackoffType, WebhookAssumption DEF Lateness
    <3>3. r \in Delivery /\ r.ep \in Endpoints
        BY <2>1, <3>2 DEF Delivery, Live
    <3> HIDE DEF r
    <3>4. /\ del' \in [Ids -> Delivery]
          /\ \A x \in Ids : Stored(x)' => del'[x].ep \in Endpoints
        BY <2>1, <3>1, <3>3, RowWritten
    <3>5. deadRun' \in [Endpoints -> Nat]
        BY <1>14, <2>1, <2>4 DEF MarkFailed
    <3> QED BY <1>14, <2>1, <2>2, <3>4, <3>5 DEF MarkFailed
  <2> QED BY <2>3, <2>4
<1>15. CASE BumpStreak
    BY <1>15, WorkFields, NoWorkType DEF BumpStreak, Registered, obs, Stored, Endpoint
<1>16. ASSUME NEW d \in Ids, Replay(d) PROVE TypeInv'
    BY <1>16 DEF Replay, memVars, Stored, Live, Delivery, Lateness
<1>17. CASE Tick
    BY <1>17 DEF Tick, memVars, obs, Stored, Live, Delivery, Lateness
<1>18. CASE Signal \/ Boot
    BY <1>18 DEF Signal, Boot, memVars, obs, Stored
<1>19. CASE Exit
    BY <1>19, NoWorkType DEF Exit, obs, Stored
<1> QED
    BY <1>1, <1>2, <1>3, <1>4, <1>5, <1>6, <1>7, <1>8, <1>9, <1>10, <1>11,
       <1>12, <1>13, <1>14, <1>15, <1>16, <1>17, <1>18, <1>19
       DEF Next, Deliver, Settle

-----------------------------------------------------------------------------
(* Every step keeps what the rows, the batch and the attempt say *)

LEMMA QueueKept == QueueInv /\ [Next]_vars => QueueInv'
<1> SUFFICES ASSUME QueueInv, [Next]_vars PROVE RowInv' /\ BatchInv' /\ WorkInv'
    BY TypesKept DEF QueueInv
<1>t. TypeInv /\ TypeInv'
    BY TypesKept DEF QueueInv
<1>f. /\ work \in Work
      /\ del \in [Ids -> Delivery]
      /\ \A d \in Ids : Stored(d) => del[d].ep \in Endpoints
      /\ batch \subseteq Due
      /\ posts \in [Ids -> Nat] /\ marks \in [Ids -> Nat] /\ replays \in [Ids -> Nat]
      /\ RowInv /\ BatchInv /\ WorkInv
    BY <1>t DEF TypeInv, QueueInv
<1>i. \A b \in batch : b.id \in Ids
    BY <1>f DEF Due
<1>a. \A d \in Ids : del[d].attempts \in Nat
    BY <1>f DEF Delivery
<1> USE DEF RowInv, BatchInv, WorkInv, Attempting, Unsettled, Stored
<1>1. CASE UNCHANGED vars
    BY <1>f, <1>1 DEF vars, memVars, obs
<1>2. ASSUME NEW t \in Types, Publish(t) PROVE RowInv' /\ BatchInv' /\ WorkInv'
    BY <1>f, <1>2 DEF Publish, obs
<1>3. CASE FanOut
    BY <1>f, <1>3 DEF FanOut, obs
<1>4. ASSUME NEW e \in Endpoints, Enqueue(e) PROVE RowInv' /\ BatchInv' /\ WorkInv'
  <2>1. CASE UNCHANGED del
    BY <1>f, <1>4, <2>1 DEF Enqueue, obs
  <2>2. CASE ~UNCHANGED del
    <3> DEFINE r == [state |-> "pending", ep |-> e, attempts |-> 0, late |-> 0]
    <3>1. PICK d \in Ids : del[d].state = "free" /\ del' = [del EXCEPT ![d] = r]
        BY <1>4, <2>2 DEF Enqueue
    <3>2. r.state = "pending" /\ r.attempts = 0
        OBVIOUS
    <3> HIDE DEF r
    <3>3. \A x \in Ids : del'[x] = IF x = d THEN r ELSE del[x]
        BY <1>f, <3>1
    <3>4. UNCHANGED <<batch, work, posts, accepted, marks, replays>>
        BY <1>4 DEF Enqueue, obs
    <3>5. RowInv'
        BY <1>f, <3>1, <3>2, <3>3, <3>4
    <3>6. BatchInv' /\ WorkInv'
        BY <1>f, <1>i, <3>2, <3>3, <3>4, WorkFields
    <3> QED BY <3>5, <3>6
  <2> QED BY <2>1, <2>2
<1>5. ASSUME NEW e \in Endpoints, Add(e) PROVE RowInv' /\ BatchInv' /\ WorkInv'
    BY <1>f, <1>5 DEF Add, memVars, obs
<1>6. ASSUME NEW e \in Endpoints, RemoveEndpoint(e) PROVE RowInv' /\ BatchInv' /\ WorkInv'
    BY <1>f, <1>6 DEF RemoveEndpoint, obs
<1>7. ASSUME NEW e \in Endpoints, RemoveDeliveries(e) PROVE RowInv' /\ BatchInv' /\ WorkInv'
    BY <1>f, <1>i, <1>7, WorkFields DEF RemoveDeliveries, Live
<1>8. CASE Scan
    BY <1>f, <1>8, NoWorkType DEF Scan, Selected, IsDue
<1>9. ASSUME NEW d \in batch, NextDue(d) PROVE RowInv' /\ BatchInv' /\ WorkInv'
    BY <1>f, <1>9 DEF NextDue, obs
<1>10. ASSUME NEW r \in Replies, Post(r) PROVE RowInv' /\ BatchInv' /\ WorkInv'
  <2>1. /\ work.id \in Ids /\ work.attempts \in Nat /\ work.pc = "post"
        /\ work'.id = work.id /\ work'.attempts = work.attempts
        /\ work'.pc \in {"ok", "failed"}
        /\ UNCHANGED <<del, batch, marks, replays>>
    BY <1>f, <1>10, WorkFields DEF Post, WorkAt
  <2>2. /\ posts'[work.id] = posts[work.id] + 1
        /\ \A d \in Ids : posts[d] <= posts'[d]
    BY <1>f, <2>1, <1>10 DEF Post
  <2>3. /\ accepted \subseteq accepted'
        /\ work'.pc = "ok" => work.id \in accepted'
    BY <1>10 DEF Post, WorkAt, Succeeded
  <2>4. posts' \in [Ids -> Nat]
    BY <1>t DEF TypeInv
  <2>5. MaxAttempts \in Nat /\ \A b \in batch : b.attempts \in Nat
    BY <1>f, WebhookAssumption DEF MaxAttempts, Due
  <2>6. RowInv'
    BY <1>f, <1>a, <2>1, <2>2, <2>3, <2>4, <2>5
  <2>7. BatchInv'
    BY <1>f, <1>i, <2>1, <2>2, <2>4, <2>5
  <2>8. WorkInv'
    BY <1>f, <2>1, <2>2, <2>3
  <2> QED BY <2>6, <2>7, <2>8
<1>11. CASE StoreFails
    BY <1>f, <1>11, NoWorkType DEF StoreFails, obs
<1>12. CASE MarkDelivered
    BY <1>f, <1>i, <1>12, WorkFields DEF MarkDelivered, WorkAt, Live
<1>13. CASE ResetStreak
    BY <1>f, <1>13, NoWorkType DEF ResetStreak, obs
<1>14. CASE MarkFailed
  <2> DEFINE n == work.attempts + 1
  <2>1. /\ work.id \in Ids /\ n \in Nat /\ work.pc = "failed"
        /\ n <= posts[work.id]
        /\ UNCHANGED <<batch, posts, accepted, marks, replays>>
    BY <1>f, <1>14, WorkFields DEF MarkFailed
  <2>2. work'.pc \in {"bump", "idle"}
    BY <1>14, NoWorkType DEF MarkFailed, WorkAt
  <2>3. CASE ~Stored(work.id)
    BY <1>f, <1>14, <2>1, <2>2, <2>3 DEF MarkFailed
  <2>4. CASE Stored(work.id)
    <3>1. del[work.id].state = "pending"
        BY <1>f, <2>1, <2>4
    <3>2. /\ del'[work.id].attempts = n
          /\ del'[work.id].state = IF Exhausted(n) THEN "dead" ELSE "pending"
          /\ \A d \in Ids : d # work.id => del'[d] = del[d]
        BY <1>f, <1>14, <2>1, <2>4 DEF MarkFailed
    <3>3. RowInv'
        <4>1. Exhausted(n) => MaxAttempts <= posts[work.id]
            <5>1. PICK k, p \in Nat : k = n /\ p = posts[work.id] /\ k <= p
                BY <1>f, <2>1
            <5>2. MaxAttempts \in Nat
                BY WebhookAssumption DEF MaxAttempts
            <5>3. k >= MaxAttempts => MaxAttempts <= p
                BY <5>1, <5>2
            <5> QED BY <5>1, <5>3 DEF Exhausted
        <4> QED BY <1>f, <2>1, <3>1, <3>2, <4>1
    <3>4. BatchInv' /\ WorkInv'
        BY <1>f, <1>i, <2>1, <2>2, <3>2
    <3> QED BY <3>3, <3>4
  <2> QED BY <2>3, <2>4
<1>15. CASE BumpStreak
    BY <1>f, <1>15, NoWorkType DEF BumpStreak, obs
<1>16. ASSUME NEW d \in Ids, Replay(d) PROVE RowInv' /\ BatchInv' /\ WorkInv'
    BY <1>f, <1>i, <1>16, WorkFields DEF Replay, memVars, Live
<1>17. CASE Tick
    BY <1>f, <1>i, <1>17, WorkFields DEF Tick, memVars, obs
<1>18. CASE Signal \/ Boot
    BY <1>f, <1>18 DEF Signal, Boot, memVars, obs
<1>19. CASE Exit
    BY <1>f, <1>19, NoWorkType DEF Exit, obs
<1> QED
    BY <1>1, <1>2, <1>3, <1>4, <1>5, <1>6, <1>7, <1>8, <1>9, <1>10, <1>11,
       <1>12, <1>13, <1>14, <1>15, <1>16, <1>17, <1>18, <1>19
       DEF Next, Deliver, Settle

-----------------------------------------------------------------------------
(* Every step keeps the streak behind the dead deliveries *)

\* Neither loop is interrupted and no statement fails.
Undisturbed == ~Crashes /\ MaxErrors = 0

LEMMA NoneLostKept ==
    ASSUME Undisturbed, StreakInv, [Next]_vars
    PROVE  NoneLost' /\ ~StoreFails
<1>1. NoneLost /\ Undisturbed
    BY DEF StreakInv
<1>2. ~(errors < MaxErrors) /\ ~ctxDone
    BY <1>1 DEF NoneLost, Undisturbed, ctxDone
<1>3. ~StoreFails
    BY <1>2 DEF StoreFails
<1>4. UNCHANGED <<proc, errors>>
    BY <1>1, <1>2, <1>3 DEF vars, Next, Deliver, Settle, Publish, FanOut, Enqueue,
       Add, RemoveEndpoint, RemoveDeliveries, Scan, NextDue, Post, MarkDelivered,
       ResetStreak, MarkFailed, BumpStreak, Replay, Tick, Signal, Exit, Boot,
       NoneLost, Undisturbed
<1> QED BY <1>1, <1>3, <1>4 DEF NoneLost

LEMMA StreakInvKept ==
    ASSUME Undisturbed, StreakInv, [Next]_vars
    PROVE  StreakInv'
<1>n. NoneLost' /\ ~StoreFails /\ QueueInv'
    BY NoneLostKept, QueueKept DEF StreakInv
<1> SUFFICES CopyInv' /\ CountInv'
    BY <1>n DEF StreakInv
<1>t. /\ work \in Work
      /\ del \in [Ids -> Delivery]
      /\ ep \in [Endpoints -> Endpoint]
      /\ batch \subseteq Due
      /\ deadRun \in [Endpoints -> Nat]
      /\ \A d \in Ids : Stored(d) => del[d].ep \in Endpoints
      /\ BatchInv /\ CopyInv /\ CountInv
    BY DEF StreakInv, QueueInv, TypeInv
<1>i. \A b \in batch : b.id \in Ids /\ b.ep \in Endpoints
    BY <1>t DEF Due
<1>s. \A e \in Endpoints : ep[e].streak \in Nat /\ deadRun[e] \in Nat
    BY <1>t DEF Endpoint
<1>u. ~ctxDone
    BY DEF StreakInv, NoneLost, ctxDone
<1> USE DEF CopyInv, CountInv, RowOf, Gone, Bumping, Resetting, Stored
<1>1. CASE UNCHANGED vars
    BY <1>t, <1>1 DEF vars, memVars, obs
<1>2. ASSUME NEW t \in Types, Publish(t) PROVE CopyInv' /\ CountInv'
    BY <1>t, <1>2 DEF Publish, obs
<1>3. CASE FanOut
    BY <1>t, <1>3 DEF FanOut, obs
<1>4. ASSUME NEW e \in Endpoints, Enqueue(e) PROVE CopyInv' /\ CountInv'
    BY <1>t, <1>i, <1>4, WorkFields DEF Enqueue, obs, Live
<1>5. ASSUME NEW e \in Endpoints, Add(e) PROVE CopyInv' /\ CountInv'
    BY <1>t, <1>i, <1>s, <1>5, WorkFields DEF Add, memVars, obs
<1>6. ASSUME NEW e \in Endpoints, RemoveEndpoint(e) PROVE CopyInv' /\ CountInv'
    BY <1>t, <1>i, <1>s, <1>6, WorkFields DEF RemoveEndpoint, obs
<1>7. ASSUME NEW e \in Endpoints, RemoveDeliveries(e) PROVE CopyInv' /\ CountInv'
    BY <1>t, <1>i, <1>s, <1>7, WorkFields DEF RemoveDeliveries, Live
<1>8. CASE Scan
    BY <1>t, <1>s, <1>8, NoWorkType DEF Scan, Selected, IsDue, Live
<1>9. ASSUME NEW d \in batch, NextDue(d) PROVE CopyInv' /\ CountInv'
    BY <1>t, <1>i, <1>s, <1>9, NoWorkType DEF NextDue, obs
<1>10. ASSUME NEW r \in Replies, Post(r) PROVE CopyInv' /\ CountInv'
    BY <1>t, <1>i, <1>s, <1>10, WorkFields DEF Post, WorkAt
<1>12. CASE MarkDelivered
    BY <1>t, <1>i, <1>s, <1>12, WorkFields DEF MarkDelivered, WorkAt, Live, BatchInv, Attempting
<1>13. CASE ResetStreak
    BY <1>t, <1>i, <1>s, <1>13, WorkFields, NoWorkType DEF ResetStreak, StreakAfterSuccess, Registered, Endpoint, obs
<1>14. CASE MarkFailed
    BY <1>t, <1>i, <1>s, <1>14, WorkFields, NoWorkType DEF MarkFailed, WorkAt, Live, BatchInv, Attempting
<1>15. CASE BumpStreak
    BY <1>t, <1>i, <1>s, <1>15, WorkFields, NoWorkType DEF BumpStreak, Registered, obs
<1>16. ASSUME NEW d \in Ids, Replay(d) PROVE CopyInv' /\ CountInv'
    BY <1>t, <1>i, <1>s, <1>16, WorkFields DEF Replay, memVars, Live
<1>17. CASE Tick
    BY <1>t, <1>i, <1>s, <1>17, WorkFields DEF Tick, memVars, obs, Live
<1>18. CASE Signal \/ Boot
    BY <1>t, <1>18 DEF Signal, Boot, memVars, obs
<1>19. CASE Exit
    BY <1>19 DEF Exit, Undisturbed
<1> QED
    BY <1>n, <1>1, <1>2, <1>3, <1>4, <1>5, <1>6, <1>7, <1>8, <1>9, <1>10,
       <1>12, <1>13, <1>14, <1>15, <1>16, <1>17, <1>18, <1>19
       DEF Next, Deliver, Settle

LEMMA DisabledOnStreak ==
    ASSUME StreakInv, [Next]_vars, NEW e \in Endpoints,
           ep[e].state # "disabled", ep'[e].state = "disabled"
    PROVE  deadRun[e] >= DeadStreak
<1>1. ep \in [Endpoints -> Endpoint] /\ work \in Work /\ CountInv
      /\ deadRun \in [Endpoints -> Nat]
    BY DEF StreakInv, QueueInv, TypeInv
<1>2. BumpStreak
    BY <1>1, WorkFields DEF vars, Next, Deliver, Settle, Publish, FanOut, Enqueue,
       Add, RemoveEndpoint, RemoveDeliveries, Scan, NextDue, Post, StoreFails,
       MarkDelivered, ResetStreak, MarkFailed, Replay, Tick, Signal, Exit, Boot
<1>3. work.ep = e /\ Registered(e) /\ ep[e].streak + 1 >= DeadStreak
      /\ work.pc = "bump"
    BY <1>1, <1>2, WorkFields DEF BumpStreak
<1>4. ep[e].streak + 1 <= deadRun[e]
    BY <1>1, <1>3 DEF CountInv, Gone, Resetting, Bumping, Registered
<1> QED BY <1>1, <1>3, <1>4, WebhookAssumption DEF Endpoint

-----------------------------------------------------------------------------
(* Theorems *)

\* The queue's inductive invariant: how a row's state, its attempts and what was
\* posted and marked agree, and that the batch and the attempt in progress are
\* copies of rows that are unsettled or deleted.
THEOREM QueueInvHolds == Spec => []QueueInv
<1>1. Init => QueueInv
    BY InitTypes
<1>2. QueueInv /\ [Next]_vars => QueueInv'
    BY QueueKept
<1> QED BY <1>1, <1>2, PTL DEF Spec

\* A delivery stored as delivered was taken by its receiver: the worker marks
\* it only on a 2xx, and no copy of another delivery is settled in its place.
THEOREM DeliveredWasAcceptedHolds == Spec => []DeliveredWasAccepted
<1>1. QueueInv => DeliveredWasAccepted
    BY DEF QueueInv, RowInv, DeliveredWasAccepted
<1> QED BY <1>1, QueueInvHolds, PTL

\* A delivery is dead-lettered only after every attempt of webhookBackoffSec
\* was made, however attempts, replays, removals and restarts interleave.
THEOREM DeadAfterAllAttemptsHolds == Spec => []DeadAfterAllAttempts
<1>1. QueueInv => DeadAfterAllAttempts
  <2>1. ASSUME QueueInv PROVE MaxAttempts \in Nat /\ \A d \in Ids : posts[d] \in Nat
    BY <2>1, WebhookAssumption DEF QueueInv, TypeInv, MaxAttempts
  <2> QED BY <2>1 DEF QueueInv, RowInv, DeadAfterAllAttempts
<1> QED BY <1>1, QueueInvHolds, PTL

\* A delivery is stored as delivered once, and once more per webhook.replay:
\* what deliverDue has copied is never a row that is already settled.
THEOREM DeliveredOncePerReplayHolds == Spec => []DeliveredOncePerReplay
<1>1. QueueInv => DeliveredOncePerReplay
    BY DEF QueueInv, RowInv, DeliveredOncePerReplay
<1> QED BY <1>1, QueueInvHolds, PTL

\* While neither loop is interrupted and no statement fails, an endpoint is
\* disabled only after DeadStreak deliveries in a row went dead. Both are
\* needed: a success whose second statement is lost leaves the old streak.
THEOREM DisabledAfterStreakHolds ==
    ASSUME Undisturbed
    PROVE  Spec => DisabledAfterStreak
<1>1. Init => StreakInv
    BY InitTypes, NoWorkType DEF Init, StreakInv, NoneLost, CopyInv, CountInv, Bumping
<1>2. StreakInv /\ [Next]_vars => StreakInv'
    BY StreakInvKept
<1>3. StreakInv /\ [Next]_vars =>
        [\A e \in Endpoints : ep[e].state # "disabled" /\ ep'[e].state = "disabled"
                               => deadRun[e] >= DeadStreak]_vars
    BY DisabledOnStreak
<1> QED BY <1>1, <1>2, <1>3, PTL DEF Spec, DisabledAfterStreak

=============================================================================
