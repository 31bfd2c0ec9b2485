------------------------------ MODULE Recovery ------------------------------
(***************************************************************************)
(* The repair of one app-state collection: sync.appState fetches it, and   *)
(* when a full fetch finds a mismatching hash it asks the phone for a fresh*)
(* snapshot and waits.  The caller's context, a watchdog timer and the     *)
(* adapter's Close may each cut the wait short, and a completion may arrive*)
(* late, twice, or for an earlier request.                                 *)
(***************************************************************************)
EXTENDS Naturals, FiniteSets

CONSTANTS
    Repairers,      \* concurrent calls of ResyncAppState
    MaxVersion,     \* bound of the collection's version
    MaxRepairs      \* bound of the calls made

ASSUME RepairBounds == Repairers # {} /\ MaxVersion \in Nat /\ MaxRepairs \in Nat

VARIABLES
    repair,         \* per call: where ResyncAppState is
    worker,         \* per call: where its goroutine, runPeerRecovery, is
    cut,            \* calls whose workCtx is cancelled
    before,         \* per call: the version read before the request
    signal,         \* per call: its done channel holds a completion
    inFlight,       \* the collection is in recoveryInFlight
    pending,        \* the call whose channel is in recoveryPending, if any
    version,        \* of the collection, in the session store
    asked,          \* a request has reached the phone
    closing,        \* how far Adapter.Close is
    repairs         \* calls made

repairVars == <<repair, worker, cut, before, signal, inFlight, pending, version,
                asked, closing, repairs>>

Nobody == {}

RepairTypeOK ==
    /\ repair \in [Repairers -> {"none", "fetch", "begin", "read", "watch", "abort", "leave"}]
    /\ worker \in [Repairers -> {"none", "send", "wait", "verify", "ok", "failed"}]
    /\ cut \subseteq Repairers /\ signal \subseteq Repairers
    /\ before \in [Repairers -> 0..MaxVersion]
    /\ pending \in SUBSET Repairers
    /\ inFlight \in BOOLEAN /\ asked \in BOOLEAN
    /\ version \in 0..MaxVersion /\ repairs \in 0..MaxRepairs
    /\ closing \in {"open", "draining", "cancelled", "closed"}

RepairInit ==
    /\ repair = [c \in Repairers |-> "none"]
    /\ worker = [c \in Repairers |-> "none"]
    /\ cut = {} /\ signal = {}
    /\ before = [c \in Repairers |-> 0]
    /\ inFlight = FALSE /\ pending = Nobody
    /\ version = 0 /\ asked = FALSE
    /\ closing = "open" /\ repairs = 0

At(c, place) == repair' = [repair EXCEPT ![c] = place]
WorkerAt(c, place) == worker' = [worker EXCEPT ![c] = place]

\* ResyncAppState, up to the fetch; a second call for the collection is turned
\* away.  The first checks touch no state.
ResyncAppState(c) ==
    /\ repair[c] = "none" /\ repairs < MaxRepairs
    /\ ~inFlight
    /\ inFlight' = TRUE
    /\ At(c, "fetch")
    /\ repairs' = repairs + 1
    /\ UNCHANGED <<worker, cut, before, signal, pending, version, asked, closing>>

\* FetchAppState went well, failed, or the mismatch was not on a full fetch.
FetchAppState(c) ==
    /\ repair[c] = "fetch"
    /\ version' \in {version} \cup {v \in {version + 1} : v <= MaxVersion /\ closing # "closed"}
    /\ inFlight' = FALSE
    /\ At(c, "none")
    /\ UNCHANGED <<worker, cut, before, signal, pending, asked, closing, repairs>>

\* A full fetch finds ErrMismatchingLTHash.
Mismatch(c) ==
    /\ repair[c] = "fetch"
    /\ At(c, "begin")
    /\ UNCHANGED <<worker, cut, before, signal, inFlight, pending, version, asked, closing, repairs>>

\* beginAppStateWork: refused once the adapter drains, else counted in the
\* wait group, under the lock that setDraining takes.
beginAppStateWork(c) ==
    /\ repair[c] = "begin"
    /\ IF closing = "open"
       THEN At(c, "read") /\ UNCHANGED inFlight
       ELSE At(c, "none") /\ inFlight' = FALSE
    /\ UNCHANGED <<worker, cut, before, signal, pending, version, asked, closing, repairs>>

\* The current version cannot be read: fail closed.
VersionUnread(c) ==
    /\ repair[c] = "read"
    /\ At(c, "none")
    /\ inFlight' = FALSE
    /\ UNCHANGED <<worker, cut, before, signal, pending, version, asked, closing, repairs>>

\* It can: the channel is registered and the worker starts.
StartWorker(c) ==
    /\ repair[c] = "read"
    /\ before' = [before EXCEPT ![c] = version]
    /\ pending' = {c}
    /\ At(c, "watch")
    /\ WorkerAt(c, "send")
    /\ UNCHANGED <<cut, signal, inFlight, version, asked, closing, repairs>>

SendPeerMessage(c) ==
    /\ worker[c] = "send"
    /\ WorkerAt(c, "wait")
    /\ asked' = TRUE
    /\ UNCHANGED <<repair, cut, before, signal, inFlight, pending, version, closing, repairs>>

\* Sending or waiting fails, or ends with the context.
GiveUpRepair(c) ==
    /\ \/ worker[c] = "send"
       \/ worker[c] = "wait" /\ c \in cut
    /\ WorkerAt(c, "failed")
    /\ UNCHANGED <<repair, cut, before, signal, inFlight, pending, version, asked, closing, repairs>>

SeeCompletion(c) ==
    /\ worker[c] = "wait" /\ c \in signal
    /\ signal' = signal \ {c}
    /\ WorkerAt(c, "verify")
    /\ UNCHANGED <<repair, cut, before, inFlight, pending, version, asked, closing, repairs>>

\* The verifying fetch and the version check, or a failure of either.
Verify(c) ==
    /\ worker[c] = "verify"
    /\ \/ WorkerAt(c, "failed")
       \/ version # 0 /\ version > before[c] /\ WorkerAt(c, "ok")
    /\ UNCHANGED <<repair, cut, before, signal, inFlight, pending, version, asked, closing, repairs>>

\* The phone's snapshot arrives, any number of times: whatsmeow applies it and
\* reports AppStateSyncComplete with Recovery set.
Snapshot ==
    /\ asked /\ closing \in {"open", "draining"}
    /\ version' \in {version} \cup {v \in {version + 1} : v <= MaxVersion}
    /\ signal' = signal \cup pending
    /\ UNCHANGED <<repair, worker, cut, before, inFlight, pending, asked, closing, repairs>>

\* The caller goes away, the timer of 120 s fires, or clientCtx is cancelled.
CutShort(c) ==
    /\ repair[c] = "watch"
    /\ cut' = cut \cup {c}
    /\ At(c, "abort")
    /\ UNCHANGED <<worker, before, signal, inFlight, pending, version, asked, closing, repairs>>

\* Mutant: a call that is cut short lets go of the collection while its worker
\* is still under way.
LetGo(c) ==
    /\ \/ repair[c] = "watch" /\ worker[c] \in {"ok", "failed"}
       \/ repair[c] = "abort"
    /\ inFlight' = FALSE
    /\ At(c, "none")
    /\ UNCHANGED <<worker, cut, before, signal, pending, version, asked, closing, repairs>>

\* The worker has exited: out of the wait group, then out of recoveryInFlight.
JoinWorker(c) ==
    /\ repair[c] \in {"watch", "abort"} /\ worker[c] \in {"ok", "failed"}
    /\ inFlight' = FALSE
    /\ WorkerAt(c, "none")
    /\ At(c, "leave")
    /\ UNCHANGED <<cut, before, signal, pending, version, asked, closing, repairs>>

\* The deferred calls: cancel, and the channel leaves the map if it is still the
\* one there; another call may have registered its own since.
Deregister(c) ==
    /\ repair[c] = "leave"
    /\ pending' = pending \ {c}
    /\ cut' = cut \ {c} /\ signal' = signal \ {c}
    /\ At(c, "none")
    /\ UNCHANGED <<worker, before, inFlight, version, asked, closing, repairs>>

\* Adapter.Close: draining, clientCancel, the wait group, the stores.
Drain ==
    /\ closing = "open" /\ closing' = "draining"
    /\ UNCHANGED <<repair, worker, cut, before, signal, inFlight, pending, version, asked, repairs>>

CancelClient ==
    /\ closing = "draining" /\ closing' = "cancelled"
    /\ cut' = cut \cup {c \in Repairers : repair[c] \in {"watch", "abort"}}
    /\ repair' = [c \in Repairers |-> IF repair[c] = "watch" THEN "abort" ELSE repair[c]]
    /\ UNCHANGED <<worker, before, signal, inFlight, pending, version, asked, repairs>>

CloseSession ==
    /\ closing = "cancelled"
    /\ \A c \in Repairers : repair[c] \notin {"read", "watch", "abort"}
    /\ closing' = "closed"
    /\ UNCHANGED <<repair, worker, cut, before, signal, inFlight, pending, version, asked, repairs>>

RepairNext ==
    \/ \E c \in Repairers :
        \/ ResyncAppState(c) \/ FetchAppState(c) \/ Mismatch(c) \/ beginAppStateWork(c)
        \/ VersionUnread(c) \/ StartWorker(c) \/ SendPeerMessage(c) \/ GiveUpRepair(c)
        \/ SeeCompletion(c) \/ Verify(c) \/ CutShort(c) \/ JoinWorker(c)
        \/ Deregister(c)
    \/ Snapshot \/ Drain \/ CancelClient \/ CloseSession

-----------------------------------------------------------------------------
(* Properties *)

Repairing(c) == repair[c] = "read" \/ worker[c] \in {"send", "wait", "verify"}

\* At most one call works on the collection, a worker that outlived its caller's
\* wait included; a completion reaches the worker that waits for one, though the
\* call before it has yet to take its own channel out of recoveryPending; and no
\* repair is under way once the session store is closed (docs/manual.md:596, "two
\* repairs can never overlap", "Close() joins an in-flight repair").
RepairsAreAlone ==
    /\ \A c, d \in Repairers :
        (repair[c] = "fetch" \/ Repairing(c)) /\ (repair[d] = "fetch" \/ Repairing(d)) => c = d
    /\ \A c \in Repairers : worker[c] \in {"send", "wait"} => pending = {c}
    /\ closing = "closed" => \A c \in Repairers : ~Repairing(c)
=============================================================================
