------------------------------- MODULE Drafts -------------------------------
(***************************************************************************)
(* The drafts table, the calls that decide a draft and the sweeper that    *)
(* expires the overdue ones.  Every call on the store is one transaction   *)
(* on the only connection; what a caller brings to it (the id, the time of *)
(* the decision) was chosen before it got the connection.                  *)
(***************************************************************************)
EXTENDS Naturals

CONSTANTS
    Ids,           \* drafts, named by random ids
    Clients,       \* calls in progress at once
    ExpiryWindow,  \* DraftExpiryWindow
    MaxClock       \* bound: the clock

ASSUME DraftBounds == ExpiryWindow \in Nat /\ MaxClock \in Nat

VARIABLES
    draft,     \* Ids |-> the row
    request,   \* Clients |-> the call that waits for the connection
    sweepAt,   \* the time of the sweep that waits for the connection
    sweeping,  \* whether DraftSweeper.Run was started; cmd/wad never starts it
    clock

draftVars == <<draft, request, sweepAt, sweeping, clock>>

Row(state, created) == [state |-> state, created |-> created]
NoRow == Row("none", 0)
NoSweep == MaxClock + 1

\* domain.NewDraft: expires_at is created_at plus the window.
ExpiresAt(d) == d.created + ExpiryWindow

Ops == {"create", "approved", "rejected"}
Request(op, id, at) == [op |-> op, id |-> id, at |-> at]
NoRequest(id) == Request("none", id, 0)

-----------------------------------------------------------------------------
(* domain.Draft *)

NewDraft(at) == Row("pending", at)

\* Mutant: an approval overrules an earlier decision.
DecidesAnything(d, at) == d.state # "none" /\ at >= d.created
\* Approve and Reject: pending only, not before the draft was made.  The
\* window is not looked at.
Decides(d, at) == d.state = "pending" /\ at >= d.created

\* ExpireAt: a decided draft is left alone, an early call is an error.
Expires(d, at) == d.state = "pending" /\ at >= ExpiresAt(d)

-----------------------------------------------------------------------------
(* The handlers: the id and the time are chosen, then the store is called *)

Ask(c, op, id) ==
    /\ request[c].op = "none"
    /\ request' = [request EXCEPT ![c] = Request(op, id, clock)]
    /\ UNCHANGED <<draft, sweepAt, sweeping, clock>>

\* A new random id, which no other call has.
handleDraftCreate(c, id) ==
    /\ draft[id] = NoRow
    /\ \A o \in Clients : request[o].op # "create" \/ request[o].id # id
    /\ Ask(c, "create", id)
handleDraftApprove(c, id) == Ask(c, "approved", id)
handleDraftReject(c, id) == Ask(c, "rejected", id)

Answered(c) == request' = [request EXCEPT ![c] = NoRequest(request[c].id)]

\* The connection was lost, the call was given up, or the statement failed.
GiveUp(c) ==
    /\ request[c].op # "none"
    /\ Answered(c)
    /\ UNCHANGED <<draft, sweepAt, sweeping, clock>>

\* INSERT ... ON CONFLICT(id) DO UPDATE.
PutDraft(c) ==
    /\ request[c].op = "create"
    /\ draft' = [draft EXCEPT ![request[c].id] = NewDraft(request[c].at)]
    /\ Answered(c)
    /\ UNCHANGED <<sweepAt, sweeping, clock>>

\* transition: SELECT, the domain's answer, UPDATE by id, one transaction.
Transition(c) ==
    /\ request[c].op \in {"approved", "rejected"}
    /\ LET d == draft[request[c].id] IN
          /\ Decides(d, request[c].at)
          /\ draft' = [draft EXCEPT ![request[c].id] = Row(request[c].op, d.created)]
    /\ Answered(c)
    /\ UNCHANGED <<sweepAt, sweeping, clock>>

-----------------------------------------------------------------------------
(* The sweeper *)

Sweep ==
    /\ sweeping
    /\ sweepAt = NoSweep
    /\ sweepAt' = clock
    /\ UNCHANGED <<draft, request, sweeping, clock>>

\* One transaction: the due rows are read, expired one by one and written.
ExpireDue ==
    /\ sweepAt # NoSweep
    /\ draft' = [i \in Ids |->
          IF Expires(draft[i], sweepAt) THEN Row("expired", draft[i].created) ELSE draft[i]]
    /\ sweepAt' = NoSweep
    /\ UNCHANGED <<request, sweeping, clock>>

\* The sweep failed; the next tick tries again.
SweepFails ==
    /\ sweepAt # NoSweep
    /\ sweepAt' = NoSweep
    /\ UNCHANGED <<draft, request, sweeping, clock>>

TickDrafts ==
    /\ clock < MaxClock
    /\ clock' = clock + 1
    /\ UNCHANGED <<draft, request, sweepAt, sweeping>>

DraftInit ==
    /\ draft = [i \in Ids |-> NoRow]
    /\ request = [c \in Clients |-> NoRequest(CHOOSE i \in Ids : TRUE)]
    /\ sweepAt = NoSweep
    /\ sweeping \in BOOLEAN
    /\ clock = 0

Client(c) ==
    \/ \E i \in Ids : handleDraftCreate(c, i) \/ handleDraftApprove(c, i) \/ handleDraftReject(c, i)
    \/ PutDraft(c) \/ Transition(c) \/ GiveUp(c)

DraftNext ==
    \/ \E c \in Clients : Client(c)
    \/ Sweep \/ ExpireDue \/ SweepFails
    \/ TickDrafts

DraftSpec == DraftInit /\ [][DraftNext]_draftVars

\* Time passes, and goroutines that can go on do; a sweep fails now and then only.
DraftFairness ==
    /\ WF_draftVars(TickDrafts)
    /\ WF_draftVars(Sweep)
    /\ SF_draftVars(ExpireDue)
FairDraftSpec == DraftSpec /\ DraftFairness

-----------------------------------------------------------------------------
(* Properties *)

\* The promise, with the drafts whose window has passed read off the clock.
Overdue == {i \in Ids : draft[i].state # "none" /\ clock >= ExpiresAt(draft[i])}
Promise == INSTANCE Review WITH
    verdict <- [i \in Ids |-> draft[i].state],
    overdue <- Overdue

\* The store and its callers implement Review: whatever approvals, rejections
\* and sweeps with an older time wait for the connection, a draft is decided
\* once and expires only after its window.
ImplementsReview == Promise!ReviewSpec

\* "drafts auto-transition to expired 30 minutes after creation if no
\* approve/reject decision lands" (internal/domain/draft.go).
OverdueExpires == \A i \in Ids : i \in Overdue /\ draft[i].state = "pending" ~> draft[i].state # "pending"
=============================================================================
