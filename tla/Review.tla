------------------------------- MODULE Review -------------------------------
(***************************************************************************)
(* What the queue of drafts promises: a draft is submitted once, and then  *)
(* decided once, by a person at any time or by the clock when its window   *)
(* has passed.  A decision is final.                                       *)
(***************************************************************************)
CONSTANT Ids

VARIABLES
    verdict,   \* Ids |-> what became of the draft
    overdue    \* the drafts whose window has passed

reviewVars == <<verdict, overdue>>

Decisions == {"approved", "rejected"}

ReviewInit ==
    /\ verdict = [i \in Ids |-> "none"]
    /\ overdue = {}

\* The window runs from when the draft was made, which may be long ago.
Submit(i) ==
    /\ verdict[i] = "none"
    /\ verdict' = [verdict EXCEPT ![i] = "pending"]
    /\ overdue' \in {overdue, overdue \cup {i}}

Decide(i, d) ==
    /\ verdict[i] = "pending"
    /\ verdict' = [verdict EXCEPT ![i] = d]
    /\ overdue' = overdue

TimePasses ==
    /\ overdue \subseteq overdue'
    /\ verdict' = verdict

\* Any number of overdue drafts at once, none that is decided or has time left.
Expire(s) ==
    /\ \A i \in s : i \in overdue /\ verdict[i] = "pending"
    /\ verdict' = [i \in Ids |-> IF i \in s THEN "expired" ELSE verdict[i]]
    /\ overdue' = overdue

ReviewNext ==
    \/ \E i \in Ids : Submit(i)
    \/ \E i \in Ids, d \in Decisions : Decide(i, d)
    \/ TimePasses
    \/ \E s \in SUBSET Ids : Expire(s)

ReviewSpec == ReviewInit /\ [][ReviewNext]_reviewVars
=============================================================================
