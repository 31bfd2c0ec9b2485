------------------------------- MODULE Steps -------------------------------
(***************************************************************************)
(* The steps a request is made of.  A handler, a function of the WhatsApp  *)
(* adapter or a command of the client is a program: the sequence of its    *)
(* steps in the order the code takes them.  Requests runs the programs.    *)
(*                                                                         *)
(*   check    a condition, a question to a store or to the server: it      *)
(*            holds, or the call ends there with an error;                 *)
(*   never    the call always ends there with an error;                    *)
(*   alive    fails once the device of this process was logged out;        *)
(*   enough   the function may be done here (a cached answer, nothing to   *)
(*            do): on to the end of the function;                          *)
(*   hit      the call may be done here (the answer of an earlier call with*)
(*            the same key): on to the reply;                              *)
(*   gate     the safety pipeline for one action, a refusal is audited;    *)
(*   do       a change at WhatsApp: done, failed, or done with the answer  *)
(*            lost;                                                        *)
(*   try      the same, the code swallows the error;                       *)
(*   put      a write to a local store, an error ends the call;            *)
(*   keep     a write to a local store, an error is swallowed;             *)
(*   log      a row of the audit log, an error is swallowed;               *)
(*   reserve  uses of a daily quota, or the call ends;                     *)
(*   room, pinned  the two halves of the pin limit;                        *)
(*   open     a request arrives over the socket;                           *)
(*   admit    a request arrives at the REST server: the scope of its token *)
(*            against the method it names;                                 *)
(*   reply    its answer.                                                  *)
(*                                                                         *)
(* logs: a failure of the step is audited.  quota: a failure of the step   *)
(* gives the reserved uses back.  The adapter's audit ring, its caches in  *)
(* memory and the program's log lines are left out.                        *)
(***************************************************************************)
EXTENDS Naturals, Sequences

NoQuota == "none"

Step(kind, on) == [kind |-> kind, on |-> on, logs |-> FALSE, quota |-> NoQuota]

Check == Step("check", "")
Never == Step("never", "")
Alive == Step("alive", "")
Enough == Step("enough", "")
Hit == Step("hit", "")
End == Step("end", "")
Log == Step("log", "")
Room == Step("room", "")
Pinned(pinned) == Step("pinned", pinned)
Gate(action) == Step("gate", action)
Do(effect) == Step("do", effect)
Try(effect) == Step("try", effect)
Put(store) == Step("put", store)
Keep(store) == Step("keep", store)
Reserve(quota) == Step("reserve", quota)
Open(method) == Step("open", method)
Admit(method) == Step("admit", method)
Reply == Step("reply", "")

\* A check whose failure is audited.
Denial == [Check EXCEPT !.logs = TRUE]

\* A question to a local store and one to the server, answered or not.
Look == Check
Ask == Check

\* if err != nil { audit error; return } ... audit ok.
Audited(p) == [i \in DOMAIN p |-> [p[i] EXCEPT !.logs = TRUE]] \o <<Log>>

\* reserve ... if err != nil { refund; return }.
Reserving(quota, p) == <<Reserve(quota)>> \o [i \in DOMAIN p |-> [p[i] EXCEPT !.quota = quota]]

\* A function that Enough can leave.
Fn(p) == p \o <<End>>

\* A call whose error its caller swallows: what it writes is written or not.
BestEffort(p) ==
    LET puts == SelectSeq(p, LAMBDA s : s.kind = "put")
    IN [i \in DOMAIN puts |-> Keep(puts[i].on)]
=============================================================================
