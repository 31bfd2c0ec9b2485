------------------------------ MODULE Watchdog ------------------------------
(***************************************************************************)
(* The soft-stale watchdog: a websocket that is up but over which nothing  *)
(* arrives is reported and, after a gap that doubles while the line stays  *)
(* silent, reconnected by force.  The bridge's and the watchdog's unix     *)
(* timestamps are modelled by their ages in seconds, which only count up   *)
(* to what the code can tell apart, so time itself needs no bound.         *)
(***************************************************************************)
EXTENDS Integers

CONSTANTS
    ThresholdSec,       \* WA_SOFT_STALE_THRESHOLD_SEC, already clamped
    TickCap,            \* softStaleTickCapSec
    Cooldown,           \* recoverCooldownDefaultSec
    CapRequests,        \* values of WA_SOFT_STALE_BACKOFF_CAP_SEC
    CapDefault,         \* backoffCapDefaultSec
    CapMax,             \* backoffCapMaxSec
    ShiftMax,           \* backoffShiftMax: a longer streak has the same gap
    MaxHelpers          \* bound of the recovery goroutines alive at once

ASSUME WatchdogBounds ==
    /\ ThresholdSec \in Nat /\ ThresholdSec >= 2      \* softStaleMinSec is 30
    /\ TickCap \in Nat \ {0} /\ Cooldown \in Nat \ {0} /\ ShiftMax \in Nat
    /\ CapRequests \subseteq Int /\ CapDefault \in Nat \ {0}
    /\ CapMax \in Nat /\ CapDefault <= CapMax /\ ThresholdSec <= CapMax
    /\ MaxHelpers \in Nat

Never == -1
Larger(m, n) == IF m >= n THEN m ELSE n
Smaller(m, n) == IF m <= n THEN m ELSE n

VARIABLES
    capSec,             \* the effective cap of the backoff
    up,                 \* WebsocketConnected
    quiet,              \* age of lastEventUnix, Never before the first event
    since,              \* age of lastRecoverUnix, Never while it is zero
    organic,            \* LastTrafficUnix > lastRecoverUnix
    streak,             \* quietStreak
    current,            \* the watchdog's state
    unseen,             \* it became stale, from unknown, by the last tick
    phase,              \* seconds to the next tick
    reconnecting,       \* goroutines in Reconnect
    backfilling         \* goroutines in BackfillRecent

watchVars == <<capSec, up, quiet, since, organic, streak, current, unseen, phase,
               reconnecting, backfilling>>

softStaleTickFor == Smaller(Larger(ThresholdSec \div 3, 1), TickCap)

\* Not set or not a positive number: the default; never below the threshold.
ParseSoftStaleBackoffCapSec(n) ==
    Larger(IF n <= 0 THEN CapDefault ELSE Smaller(n, CapMax), ThresholdSec)

MostStreak == ShiftMax + 1

\* recoverGapSec: the last recovery is closer than the gap, which is the cooldown
\* or, once there is a streak, the doubled threshold if that is longer, and then
\* never more than the cap.
WithinGap(n) ==
    IF n < 1 THEN since < Cooldown
    ELSE /\ since < Larger(capSec, ThresholdSec)
         /\ since < Cooldown \/ since < ThresholdSec * 2 ^ Smaller(n - 1, ShiftMax)

MostSince == Larger(Cooldown, CapMax) + 2 * softStaleTickFor

WatchTypeOK ==
    /\ capSec \in ThresholdSec..CapMax
    /\ up \in BOOLEAN /\ organic \in BOOLEAN /\ unseen \in BOOLEAN
    /\ quiet \in Never..ThresholdSec /\ since \in Never..MostSince
    /\ streak \in 0..MostStreak
    /\ current \in {"unknown", "healthy", "stale"}
    /\ phase \in 0..softStaleTickFor
    /\ reconnecting \in 0..MaxHelpers /\ backfilling \in 0..MaxHelpers

WatchInit ==
    /\ \E n \in CapRequests : capSec = ParseSoftStaleBackoffCapSec(n)
    /\ up = FALSE /\ quiet = Never /\ since = Never
    /\ organic = FALSE /\ streak = 0
    /\ current = "unknown" /\ unseen = FALSE
    /\ phase = softStaleTickFor
    /\ reconnecting = 0 /\ backfilling = 0

\* A second passes; the ticker's channel is read before the next one does.
Second ==
    /\ phase > 0
    /\ phase' = phase - 1
    /\ quiet' = IF quiet = Never THEN Never ELSE Smaller(quiet + 1, ThresholdSec)
    /\ since' = IF since = Never THEN Never ELSE Smaller(since + 1, MostSince)
    /\ UNCHANGED <<capSec, up, organic, streak, current, unseen, reconnecting, backfilling>>

\* The bridge dispatches a message or a receipt: both timestamps are taken.  One
\* in the second of a recovery does not count as after it.
Traffic ==
    /\ up
    /\ quiet' = 0
    /\ organic' = (organic \/ since > 0)
    /\ UNCHANGED <<capSec, up, since, streak, current, unseen, phase, reconnecting, backfilling>>

\* Any other event; a connection is one.
Connected ==
    /\ up' = TRUE
    /\ quiet' = 0
    /\ UNCHANGED <<capSec, since, organic, streak, current, unseen, phase, reconnecting, backfilling>>

Disconnected ==
    /\ up
    /\ up' = FALSE
    /\ quiet' \in {quiet, 0}
    /\ UNCHANGED <<capSec, since, organic, streak, current, unseen, phase, reconnecting, backfilling>>

\* softStaleStep: the next state; an emit goes with every change that is not
\* from unknown.
softStaleStep ==
    IF quiet = Never THEN current
    ELSE IF ~up THEN "unknown"
    ELSE IF quiet >= ThresholdSec THEN "stale" ELSE "healthy"

\* maybeRecover is called on the edge from healthy, and while stale lasts.
Considers == current \in {"healthy", "stale"}

\* Mutant: the streak outlives the traffic.
StreakKept == streak

\* maybeRecover: traffic since the last recovery ends the streak.
StreakNow == IF since # Never /\ organic THEN 0 ELSE streak

\* maybeRecover: nothing before the first edge, and not within the gap.
Recovers ==
    /\ current = "healthy" \/ since # Never
    /\ since = Never \/ ~WithinGap(StreakNow)

\* One round of runSoftStaleWatchdog, with spawnRecoverAndBackfill.
Tick ==
    /\ phase = 0
    /\ phase' = softStaleTickFor
    /\ LET next == softStaleStep
           considers == next = "stale" /\ Considers
           kept == IF considers /\ (current = "healthy" \/ since # Never) THEN StreakNow ELSE streak
       IN /\ current' = next
          /\ unseen' = (next = "stale" /\ current = "unknown")
          /\ IF considers /\ Recovers
             THEN /\ since' = 0
                  /\ organic' = FALSE
                  /\ streak' = Smaller(kept + 1, MostStreak)
                  /\ reconnecting' = Smaller(reconnecting + 1, MaxHelpers)
             ELSE streak' = kept /\ UNCHANGED <<since, organic, reconnecting>>
    /\ UNCHANGED <<capSec, up, quiet, backfilling>>

\* Reconnect: Disconnect, then Connect, which may fail.
Reconnect ==
    /\ reconnecting > 0
    /\ up
    /\ up' = FALSE
    /\ UNCHANGED <<capSec, quiet, since, organic, streak, current, unseen, phase, reconnecting, backfilling>>

ReconnectDone ==
    /\ reconnecting > 0
    /\ reconnecting' = reconnecting - 1
    /\ \/ up' = up /\ UNCHANGED <<quiet, backfilling>>
       \/ up' = TRUE /\ quiet' = 0 /\ backfilling' = Smaller(backfilling + 1, MaxHelpers)
    /\ UNCHANGED <<capSec, since, organic, streak, current, unseen, phase>>

BackfillDone ==
    /\ backfilling > 0
    /\ backfilling' = backfilling - 1
    /\ UNCHANGED <<capSec, up, quiet, since, organic, streak, current, unseen, phase, reconnecting>>

WatchNext ==
    \/ Second \/ Tick
    \/ Traffic \/ Connected \/ Disconnected
    \/ Reconnect \/ ReconnectDone \/ BackfillDone

-----------------------------------------------------------------------------
(* Properties *)

\* While a stale line stays stale the next forced reconnect is at most the cap
\* away (backoffCapDefaultSec: "the next scheduled recover + backfill is at most
\* this far away"), and at most the plain cooldown away when there was traffic
\* since the last one: neither the doubling nor an old streak may hold it up.
HealsInTime ==
    current = "stale" /\ ~unseen /\ since # Never /\ up /\ quiet >= ThresholdSec =>
        since < (IF organic THEN Cooldown ELSE capSec) + softStaleTickFor + 1
=============================================================================
