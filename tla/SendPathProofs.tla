--------------------------- MODULE SendPathProofs ---------------------------
(***************************************************************************)
(* What is proved of the send path, for any number of calls at once, any   *)
(* recipients and keys and any rates of the limiter.                       *)
(***************************************************************************)
EXTENDS SendPath, FiniteSetTheorems, TLAPS

-----------------------------------------------------------------------------
(* A step of a call changes one record; these are its new fields. *)

Places == {"lookup", "safety", "probe", "block", "send", "sent", "record"}

\* The call c has returned, or its record is now s.
Ends(c) == call' = [call EXCEPT ![c] = Idle]
Becomes(c, s) == s \in Busy /\ call' = [call EXCEPT ![c] = s]

\* What no step of a call changes, and what only one of them does.
Same(s, r) == s.asked = r.asked /\ s.key = r.key /\ s.follow = r.follow
SameTimes(s, r) == s.at = r.at /\ s.granted = r.granted
SameGates(s, r) == s.to = r.to /\ s.passed = r.passed

Waiting(c) == call \in [Callers -> Busy \cup {Idle}] /\ call[c] \in Busy /\ now \in Times

LEMMA IdleIsNotBusy == Idle \notin Busy
  BY DEF Idle, Busy

LEMMA BusyFields ==
  ASSUME NEW r \in Busy
  PROVE  /\ r.pc \in Places /\ r.asked \in JIDs /\ r.to \in JIDs /\ r.key \in Keys \cup {NoKey}
         /\ r.follow \in BOOLEAN /\ r.alive \in BOOLEAN /\ r.at \in Times /\ r.granted \in Times
         /\ r.passed \in SUBSET Gates /\ r.ok \in BOOLEAN
  BY DEF Busy, Places

LEMMA GatePassed ==
  ASSUME NEW r \in Busy, NEW g \in {"allow", "block"}
  PROVE  r.passed \cup {<<g, r.to>>} \in SUBSET Gates
<1>1. r.passed \in SUBSET Gates /\ r.to \in JIDs
  BY BusyFields
<1>2. <<g, r.to>> \in Gates
  BY <1>1 DEF Gates
<1> QED
  BY <1>1, <1>2

LEMMA HangUpEffect ==
  ASSUME NEW c \in Callers, Waiting(c), HangUp(c)
  PROVE  \E s : /\ Becomes(c, s) /\ Same(s, call[c]) /\ SameTimes(s, call[c])
                /\ SameGates(s, call[c]) /\ s.pc = call[c].pc /\ s.ok = call[c].ok
<1> DEFINE s == [call[c] EXCEPT !.alive = FALSE]
<1>1. s \in Busy /\ Same(s, call[c]) /\ SameTimes(s, call[c]) /\ SameGates(s, call[c])
      /\ s.pc = call[c].pc /\ s.ok = call[c].ok
  BY DEF Waiting, Busy, Same, SameTimes, SameGates
<1>2. call' = [call EXCEPT ![c] = s]
  BY DEF HangUp, Waiting
<1> QED
  BY <1>1, <1>2, Zenon DEF Becomes

LEMMA GotoEffect ==
  ASSUME NEW c \in Callers, Waiting(c), NEW p \in Places, Goto(c, p)
  PROVE  \E s : /\ Becomes(c, s) /\ Same(s, call[c]) /\ SameTimes(s, call[c])
                /\ SameGates(s, call[c]) /\ s.pc = p /\ s.ok = call[c].ok
<1> DEFINE s == [call[c] EXCEPT !.pc = p]
<1>1. s \in Busy /\ Same(s, call[c]) /\ SameTimes(s, call[c]) /\ SameGates(s, call[c])
      /\ s.pc = p /\ s.ok = call[c].ok
  BY DEF Waiting, Busy, Places, Same, SameTimes, SameGates
<1>2. call' = [call EXCEPT ![c] = s]
  BY DEF Goto, Waiting
<1> QED
  BY <1>1, <1>2, Zenon DEF Becomes

LEMMA LookupEffect ==
  ASSUME NEW c \in Callers, Waiting(c), Lookup(c)
  PROVE  \/ Ends(c)
         \/ ~Hit(call[c].key) /\ \E s :
              /\ Becomes(c, s) /\ Same(s, call[c]) /\ SameGates(s, call[c])
              /\ s.pc = "safety" /\ s.at = now /\ s.granted = call[c].granted
<1>1. CASE Return(c)
  BY <1>1 DEF Return, Ends
<1>2. CASE ~Hit(call[c].key) /\ call' = [call EXCEPT ![c].pc = "safety", ![c].at = now]
  <2> DEFINE s == [call[c] EXCEPT !.pc = "safety", !.at = now]
  <2>1. s \in Busy /\ Same(s, call[c]) /\ SameGates(s, call[c])
        /\ s.pc = "safety" /\ s.at = now /\ s.granted = call[c].granted
    BY DEF Waiting, Busy, Same, SameGates
  <2>2. call' = [call EXCEPT ![c] = s]
    BY <1>2 DEF Waiting
  <2> QED
    BY <1>2, <2>1, <2>2, Zenon DEF Becomes
<1> QED
  BY <1>1, <1>2, Zenon DEF Lookup

LEMMA SafetyEffect ==
  ASSUME NEW c \in Callers, Waiting(c), Safety(c)
  PROVE  \/ Ends(c)
         \/ /\ call[c].pc = "safety" /\ second > 0 /\ minute > 0
            /\ second' = second - 1 /\ minute' = minute - 1
            /\ \E s : /\ Becomes(c, s) /\ Same(s, call[c]) /\ s.pc = "probe" /\ s.to = call[c].to
                      /\ s.at = call[c].at /\ s.granted = now
                      /\ s.passed = call[c].passed \cup {<<"allow", call[c].to>>}
<1>1. CASE Return(c)
  BY <1>1 DEF Return, Ends
<1>2. CASE /\ second > 0 /\ minute > 0 /\ second' = second - 1 /\ minute' = minute - 1
           /\ call' = [call EXCEPT ![c].pc = "probe", ![c].granted = now,
                                   ![c].passed = @ \cup {<<"allow", call[c].to>>}]
  <2> DEFINE s == [call[c] EXCEPT !.pc = "probe", !.granted = now,
                                  !.passed = call[c].passed \cup {<<"allow", call[c].to>>}]
  <2>1. s \in Busy /\ Same(s, call[c]) /\ s.pc = "probe" /\ s.to = call[c].to
        /\ s.at = call[c].at /\ s.granted = now
        /\ s.passed = call[c].passed \cup {<<"allow", call[c].to>>}
    <3> DEFINE q == call[c].passed \cup {<<"allow", call[c].to>>}
    <3>1. q \in SUBSET Gates
      BY GatePassed DEF Waiting
    <3> HIDE DEF q
    <3>2. [call[c] EXCEPT !.pc = "probe", !.granted = now, !.passed = q] \in Busy
      BY <3>1 DEF Waiting, Busy
    <3> QED
      BY <3>1, <3>2 DEF Waiting, Busy, Same, q
  <2>2. call' = [call EXCEPT ![c] = s]
    BY <1>2 DEF Waiting
  <2> QED
    BY <1>2, <2>1, <2>2, Zenon DEF Becomes, Safety
<1> QED
  BY <1>1, <1>2, Zenon DEF Safety

LEMMA ProbeEffect ==
  ASSUME SendPathAssumption, NEW c \in Callers, Waiting(c), Probe(c)
  PROVE  \/ Ends(c)
         \/ \E s : /\ Becomes(c, s) /\ Same(s, call[c]) /\ SameTimes(s, call[c])
                   /\ SameGates(s, call[c]) /\ s.pc = "block"
         \/ \E s : /\ Becomes(c, s) /\ Same(s, call[c]) /\ SameTimes(s, call[c])
                   /\ call[c].follow /\ call[c].asked = call[c].to
                   /\ s.to \in Answers[s.asked] /\ s.pc = "safety"
<1>1. CASE Return(c)
  BY <1>1 DEF Return, Ends
<1>2. CASE Goto(c, "block")
  BY <1>2, GotoEffect DEF Places
<1>3. ASSUME NEW canonical \in Answers[call[c].to], canonical # NoJID,
             call[c].follow, call[c].asked = call[c].to, call' = Follow(c, canonical)
      PROVE  \E s : /\ Becomes(c, s) /\ Same(s, call[c]) /\ SameTimes(s, call[c])
                    /\ call[c].follow /\ call[c].asked = call[c].to
                    /\ s.to \in Answers[s.asked] /\ s.pc = "safety"
  <2> DEFINE s == [call[c] EXCEPT !.pc = "safety", !.to = canonical]
  <2>1. call[c].to \in JIDs
    BY BusyFields DEF Waiting
  <2>2. canonical \in JIDs
    BY <1>3, <2>1 DEF SendPathAssumption
  <2>3. s \in Busy /\ Same(s, call[c]) /\ SameTimes(s, call[c]) /\ s.to = canonical /\ s.pc = "safety"
    BY <2>2 DEF Waiting, Busy, Same, SameTimes
  <2>4. call' = [call EXCEPT ![c] = s]
    BY <1>3 DEF Waiting, Follow
  <2>5. s.to \in Answers[s.asked]
    BY <1>3, <2>3 DEF Same
  <2> QED
    BY <1>3, <2>3, <2>4, <2>5, Zenon DEF Becomes
<1> QED
  BY <1>1, <1>2, <1>3, Zenon DEF Probe

LEMMA NotBlockedEffect ==
  ASSUME NEW c \in Callers, Waiting(c), NotBlocked(c)
  PROVE  \/ Ends(c)
         \/ \E s : /\ Becomes(c, s) /\ Same(s, call[c]) /\ SameTimes(s, call[c])
                   /\ s.pc = "send" /\ s.to = call[c].to
                   /\ s.passed = call[c].passed \cup {<<"block", call[c].to>>}
<1>1. CASE Return(c)
  BY <1>1 DEF Return, Ends
<1>2. CASE call' = [call EXCEPT ![c].pc = "send", ![c].passed = @ \cup {<<"block", call[c].to>>}]
  <2> DEFINE s == [call[c] EXCEPT !.pc = "send",
                                  !.passed = call[c].passed \cup {<<"block", call[c].to>>}]
  <2>1. s \in Busy /\ Same(s, call[c]) /\ SameTimes(s, call[c]) /\ s.pc = "send"
        /\ s.to = call[c].to /\ s.passed = call[c].passed \cup {<<"block", call[c].to>>}
    <3> DEFINE q == call[c].passed \cup {<<"block", call[c].to>>}
    <3>1. q \in SUBSET Gates
      BY GatePassed DEF Waiting
    <3> HIDE DEF q
    <3>2. [call[c] EXCEPT !.pc = "send", !.passed = q] \in Busy
      BY <3>1 DEF Waiting, Busy
    <3> QED
      BY <3>1, <3>2 DEF Waiting, Busy, Same, SameTimes, q
  <2>2. call' = [call EXCEPT ![c] = s]
    BY <1>2 DEF Waiting
  <2> QED
    BY <2>1, <2>2, Zenon DEF Becomes
<1> QED
  BY <1>1, <1>2, Zenon DEF NotBlocked

LEMMA SendEffect ==
  ASSUME NEW c \in Callers, Waiting(c), Send(c)
  PROVE  \E s : /\ Becomes(c, s) /\ Same(s, call[c]) /\ SameTimes(s, call[c])
                /\ SameGates(s, call[c]) /\ s.pc = "sent"
                /\ \/ /\ wire' = Append(wire, Message(c)) /\ s.ok /\ UNCHANGED <<overlapped, errors>>
                   \/ wire' = wire /\ overlapped' = overlapped
                   \/ /\ wire' = Append(wire, Message(c))
                      /\ overlapped' = overlapped \cup ({call[c].key} \ {NoKey})
<1>1. CASE /\ wire' = Append(wire, Message(c)) /\ UNCHANGED <<overlapped, errors>>
           /\ call' = [call EXCEPT ![c].pc = "sent", ![c].ok = TRUE]
  <2> DEFINE s == [call[c] EXCEPT !.pc = "sent", !.ok = TRUE]
  <2>1. s \in Busy /\ Same(s, call[c]) /\ SameTimes(s, call[c]) /\ SameGates(s, call[c])
        /\ s.pc = "sent" /\ s.ok
    BY DEF Waiting, Busy, Same, SameTimes, SameGates
  <2>2. call' = [call EXCEPT ![c] = s]
    BY <1>1 DEF Waiting
  <2> QED
    BY <1>1, <2>1, <2>2, Zenon DEF Becomes
<1>2. CASE /\ Goto(c, "sent")
           /\ \/ wire' = wire /\ overlapped' = overlapped
              \/ /\ wire' = Append(wire, Message(c))
                 /\ overlapped' = overlapped \cup ({call[c].key} \ {NoKey})
  BY <1>2, GotoEffect, "sent" \in Places, Zenon DEF Places
<1> QED
  BY <1>1, <1>2, Zenon DEF Send, Works

LEMMA RecordAuditEffect ==
  ASSUME NEW c \in Callers, Waiting(c), RecordAudit(c)
  PROVE  \/ Ends(c) /\ ~(call[c].ok /\ call[c].key # NoKey)
         \/ call[c].ok /\ call[c].key # NoKey /\ \E s :
              /\ Becomes(c, s) /\ Same(s, call[c]) /\ SameTimes(s, call[c])
              /\ SameGates(s, call[c]) /\ s.pc = "record" /\ s.ok
<1>1. CASE Return(c) /\ ~(call[c].ok /\ call[c].key # NoKey)
  BY <1>1 DEF Return, Ends
<1>2. CASE Goto(c, "record") /\ call[c].ok /\ call[c].key # NoKey
  BY <1>2, GotoEffect DEF Places
<1> QED
  BY <1>1, <1>2, Zenon DEF RecordAudit

LEMMA HandleSendEffect ==
  ASSUME SendPathAssumption, NEW c \in Callers, call \in [Callers -> Busy \cup {Idle}], HandleSend(c)
  PROVE  /\ call[c] = Idle
         /\ \E s : /\ Becomes(c, s) /\ s.pc \in {"lookup", "safety"} /\ s.to = s.asked
                   /\ s.at = 0 /\ s.granted = 0
                   /\ s.pc = "safety" => s.key = NoKey
                   /\ overlapped' = IF s.key # NoKey /\ InUse(s.key)
                                    THEN overlapped \cup {s.key} ELSE overlapped
<1>1. PICK j \in JIDs, k \in Keys \cup {NoKey}, f \in BOOLEAN :
        /\ call' = [call EXCEPT ![c] =
                      [pc |-> IF k = NoKey THEN "safety" ELSE "lookup",
                       asked |-> j, to |-> j, key |-> k,
                       follow |-> f, alive |-> TRUE, at |-> 0,
                       granted |-> 0, passed |-> {}, ok |-> FALSE]]
        /\ overlapped' = IF k # NoKey /\ InUse(k) THEN overlapped \cup {k} ELSE overlapped
  BY DEF HandleSend
<1> DEFINE s == [pc |-> IF k = NoKey THEN "safety" ELSE "lookup",
                 asked |-> j, to |-> j, key |-> k,
                 follow |-> f, alive |-> TRUE, at |-> 0,
                 granted |-> 0, passed |-> {}, ok |-> FALSE]
<1>2. 0 \in Times
  BY DEF SendPathAssumption, Times
<1>3. s \in Busy
  BY <1>2 DEF Busy
<1>4. /\ s.pc \in {"lookup", "safety"} /\ s.to = s.asked /\ s.at = 0 /\ s.granted = 0
      /\ s.pc = "safety" => s.key = NoKey
      /\ s.key = k
  OBVIOUS
<1> QED
  BY <1>1, <1>3, <1>4, Zenon DEF Becomes, HandleSend

-----------------------------------------------------------------------------
(* Types *)

\* Only a call with a key stores a row.
StoreInv == \A c \in Callers : call[c] # Idle /\ call[c].pc = "record" => call[c].key \in Keys

\* The audit events that may still be written are of calls that have sent and
\* not recorded yet, once each.
StampInv ==
    /\ IsInjective(stamped)
    /\ \A i \in DOMAIN stamped : call[stamped[i]] # Idle /\ call[stamped[i]].pc = "sent"

TypeInv == TypeOK /\ StoreInv /\ StampInv

LEMMA TypeInit == Init => TypeInv
<1> SUFFICES ASSUME Init PROVE TypeInv
  OBVIOUS
<1>1. /\ now \in Times /\ second \in 0..SecondBurst /\ minute \in 0..MinuteBurst
      /\ begun \in 0..MaxCalls /\ changes \in 0..MaxTroubles /\ errors \in 0..MaxTroubles
      /\ 0 \in 0..(MaxTime + TTL)
  BY SendPathAssumption DEF SendPathAssumption, Init, Times
<1>2. allow \subseteq JIDs
  BY SendPathAssumption DEF SendPathAssumption, Init
<1>3. stamped \in Seq(Callers) /\ wire \in Seq(Messages)
  BY DEF Init
<1>4. StoreInv /\ StampInv
  BY DEF Init, StoreInv, StampInv, IsInjective
<1> QED
  BY <1>1, <1>2, <1>3, <1>4, Zenon DEF Init, TypeInv, TypeOK, NoRow

\* A step of a call leaves the others alone.
LEMMA OneCall ==
  ASSUME call \in [Callers -> Busy \cup {Idle}], NEW c \in Callers,
         Ends(c) \/ \E s : Becomes(c, s)
  PROVE  /\ call' \in [Callers -> Busy \cup {Idle}]
         /\ \A d \in Callers \ {c} : call'[d] = call[d]
         /\ Ends(c) => call'[c] = Idle
         /\ \A s : Becomes(c, s) => call'[c] = s
<1> HIDE DEF Busy, Idle
<1> QED
  BY DEF Ends, Becomes

LEMMA StepIsOne ==
  ASSUME TypeOK, NEW c \in Callers, Step(c)
  PROVE  Ends(c) \/ \E s : Becomes(c, s) /\ (call[c] # Idle => s.key = call[c].key)
<1>1. CASE HandleSend(c)
  BY <1>1, SendPathAssumption, HandleSendEffect, Zenon DEF TypeOK, HandleSend
<1>2. CASE call[c] # Idle
  <2>1. Waiting(c)
    BY <1>2 DEF TypeOK, Waiting
  <2>2. CASE HangUp(c)
    BY <2>1, <2>2, HangUpEffect, Zenon DEF Same
  <2>3. CASE Lookup(c)
    BY <2>1, <2>3, LookupEffect, Zenon DEF Same
  <2>4. CASE Safety(c)
    BY <2>1, <2>4, SafetyEffect, Zenon DEF Same
  <2>5. CASE Probe(c)
    BY <2>1, <2>5, ProbeEffect, SendPathAssumption, Zenon DEF Same
  <2>6. CASE NotBlocked(c)
    BY <2>1, <2>6, NotBlockedEffect, Zenon DEF Same
  <2>7. CASE Humanize(c) \/ Record(c)
    BY <2>7, Zenon DEF Humanize, Record, Return, Ends
  <2>8. CASE Send(c)
    BY <2>1, <2>8, SendEffect, Zenon DEF Same
  <2>9. CASE RecordAudit(c)
    BY <2>1, <2>9, RecordAuditEffect, Zenon DEF Same
  <2> QED
    BY <1>2, <2>2, <2>3, <2>4, <2>5, <2>6, <2>7, <2>8, <2>9, Zenon DEF Step, HandleSend
<1> QED
  BY <1>1, <1>2, Zenon DEF Step, HangUp

LEMMA MessageType ==
  ASSUME NEW c \in Callers, call[c] \in Busy
  PROVE  Message(c) \in Messages
<1>1. call[c].to \in JIDs /\ call[c].key \in Keys \cup {NoKey} /\ call[c].at \in Times
      /\ call[c].granted \in Times
  BY BusyFields
<1> QED
  BY <1>1, Zenon DEF Message, Messages

LEMMA CloseSeq ==
  ASSUME NEW S, NEW q \in Seq(S), NEW n \in 0..Len(q)
  PROVE  LET r == SubSeq(q, n + 1, Len(q)) IN
         r \in Seq(S) /\ Len(r) = Len(q) - n /\ \A i \in 1..Len(r) : r[i] = q[n + i]
  OBVIOUS

LEMMA RemoveSeq ==
  ASSUME NEW S, NEW q \in Seq(S), NEW n \in 1..Len(q)
  PROVE  LET r == RemoveAt(q, n) IN
         /\ r \in Seq(S) /\ Len(r) = Len(q) - 1
         /\ \A i \in 1..Len(r) : r[i] = IF i < n THEN q[i] ELSE q[i + 1]
<1> DEFINE a == SubSeq(q, 1, n - 1)
           b == SubSeq(q, n + 1, Len(q))
<1>1. a \in Seq(S) /\ Len(a) = n - 1 /\ \A i \in 1..Len(a) : a[i] = q[i]
  OBVIOUS
<1>2. b \in Seq(S) /\ Len(b) = Len(q) - n /\ \A i \in 1..Len(b) : b[i] = q[n + i]
  OBVIOUS
<1> HIDE DEF a, b
<1>3. /\ a \o b \in Seq(S) /\ Len(a \o b) = Len(q) - 1
      /\ \A i \in 1..(Len(q) - 1) : (a \o b)[i] = IF i < n THEN q[i] ELSE q[i + 1]
  <2>1. a \o b \in Seq(S) /\ Len(a \o b) = Len(q) - 1
    BY <1>1, <1>2
  <2>2. ASSUME NEW i \in 1..(Len(q) - 1)
        PROVE  (a \o b)[i] = IF i < n THEN q[i] ELSE q[i + 1]
    <3>1. (a \o b)[i] = IF i <= Len(a) THEN a[i] ELSE b[i - Len(a)]
      BY <1>1, <1>2
    <3>2. CASE i < n
      BY <1>1, <3>1, <3>2
    <3>3. CASE ~(i < n)
      <4>1. i - Len(a) \in 1..Len(b) /\ n + (i - Len(a)) = i + 1
        BY <1>1, <1>2, <3>3
      <4> QED
        BY <1>1, <1>2, <3>1, <3>3, <4>1
    <3> QED
      BY <3>2, <3>3
  <2> QED
    BY <2>1, <2>2
<1> QED
  BY <1>3 DEF RemoveAt, a, b

LEMMA StampedType ==
  ASSUME TypeOK, NEW c \in Callers, Send(c) \/ RecordAudit(c) \/ OtherRow
  PROVE  stamped' \in Seq(Callers)
<1> USE DEF TypeOK
<1>1. CASE Send(c)
  BY <1>1 DEF Send
<1>2. CASE OtherRow
  BY <1>2, CloseSeq DEF OtherRow, Close
<1>3. CASE RecordAudit(c)
  <2>1. CASE UNCHANGED stamped
    BY <2>1
  <2>2. ASSUME NEW i \in DOMAIN stamped, Close(i) \/ stamped' = RemoveAt(stamped, i)
        PROVE  stamped' \in Seq(Callers)
    <3>1. i \in 1..Len(stamped) /\ i \in 0..Len(stamped)
      BY <2>2
    <3>2. CASE Close(i)
      BY <3>1, <3>2, CloseSeq DEF Close
    <3>3. CASE stamped' = RemoveAt(stamped, i)
      BY <3>1, <3>3, RemoveSeq
    <3> QED
      BY <2>2, <3>2, <3>3
  <2> QED
    BY <1>3, <2>1, <2>2, Zenon DEF RecordAudit, auditVars
<1> QED
  BY <1>1, <1>2, <1>3

\* What every proof about a step of a call starts from.
LEMMA StepFacts ==
  ASSUME TypeOK, NEW c \in Callers, Step(c)
  PROVE  /\ call' \in [Callers -> Busy \cup {Idle}]
         /\ \A d \in Callers \ {c} : call'[d] = call[d]
         /\ Ends(c) => call'[c] = Idle
         /\ \A s : Becomes(c, s) => call'[c] = s
         /\ call[c] # Idle => Waiting(c) /\ ~HandleSend(c)
         /\ call[c] = Idle => HandleSend(c)
<1>1. call \in [Callers -> Busy \cup {Idle}] /\ now \in Times
  BY Zenon DEF TypeOK
<1> QED
  BY <1>1, StepIsOne, OneCall, Zenon DEF Step, HangUp, HandleSend, Waiting

LEMMA StoreKept ==
  ASSUME TypeInv, NEW c \in Callers, Step(c)
  PROVE  StoreInv'
<1> USE DEF TypeInv, TypeOK, StoreInv
<1>1. /\ call' \in [Callers -> Busy \cup {Idle}]
      /\ \A d \in Callers \ {c} : call'[d] = call[d]
      /\ Ends(c) => call'[c] = Idle
      /\ \A s : Becomes(c, s) => call'[c] = s
      /\ call[c] # Idle => Waiting(c)
  BY StepFacts, Zenon
<1> SUFFICES ASSUME call'[c] # Idle, call'[c].pc = "record" PROVE call'[c].key \in Keys
  BY <1>1
<1>2. ~HandleSend(c)
  BY <1>1, SendPathAssumption, HandleSendEffect
<1>3. Waiting(c) /\ call[c] # Idle
  BY <1>2 DEF Step, HangUp, Waiting
<1>4. CASE HangUp(c)
  BY <1>1, <1>3, <1>4, HangUpEffect DEF Same
<1>5. CASE RecordAudit(c)
  <2>1. call[c].key \in Keys \cup {NoKey}
    BY <1>3, BusyFields DEF Waiting
  <2> QED
    BY <1>1, <1>3, <1>5, <2>1, RecordAuditEffect DEF Same
<1>6. CASE Lookup(c)
  BY <1>1, <1>3, <1>6, LookupEffect
<1>7. CASE Safety(c)
  BY <1>1, <1>3, <1>7, SafetyEffect
<1>8. CASE Probe(c)
  BY <1>1, <1>3, <1>8, ProbeEffect, SendPathAssumption
<1>9. CASE NotBlocked(c)
  BY <1>1, <1>3, <1>9, NotBlockedEffect
<1>10. CASE Send(c)
  BY <1>1, <1>3, <1>10, SendEffect
<1>11. CASE Humanize(c) \/ Record(c)
  BY <1>1, <1>11 DEF Humanize, Record, Return, Ends
<1> QED
  BY <1>2, <1>4, <1>5, <1>6, <1>7, <1>8, <1>9, <1>10, <1>11 DEF Step

\* The variables besides the calls.
LEMMA StepTypes ==
  ASSUME TypeInv, NEW c \in Callers, Step(c)
  PROVE  TypeOK'
<1> USE SendPathAssumption DEF SendPathAssumption, TypeInv
<1>1. call' \in [Callers -> Busy \cup {Idle}]
  BY StepIsOne, OneCall, Zenon DEF TypeOK
<1>2. /\ second' \in 0..SecondBurst /\ minute' \in 0..MinuteBurst
  <2>1. CASE Safety(c)
    <3>1. /\ second \in 0..SecondBurst /\ minute \in 0..MinuteBurst
          /\ second' = second \/ (second > 0 /\ second' = second - 1)
          /\ minute' = minute \/ (minute > 0 /\ minute' = minute - 1)
      BY <2>1, Zenon DEF TypeOK, Safety
    <3> QED
      BY <3>1
  <2>2. CASE second' = second /\ minute' = minute
    BY <2>2 DEF TypeOK
  <2> QED
    BY <2>1, <2>2, Zenon DEF Step, HandleSend, HangUp, Lookup, Probe, NotBlocked, Humanize, Send,
                             RecordAudit, Record
<1>3. begun' \in 0..MaxCalls /\ changes' \in 0..MaxTroubles /\ errors' \in 0..MaxTroubles
  <2>1. CASE HandleSend(c) \/ HangUp(c)
    <3>1. /\ begun' = begun \/ (begun < MaxCalls /\ begun' = begun + 1)
          /\ changes' = changes \/ (changes + errors < MaxTroubles /\ changes' = changes + 1)
          /\ errors' = errors /\ begun \in 0..MaxCalls
          /\ changes \in 0..MaxTroubles /\ errors \in 0..MaxTroubles
      BY <2>1, Zenon DEF TypeOK, HandleSend, HangUp
    <3> QED
      BY <3>1
  <2>2. CASE /\ begun' = begun /\ changes' = changes
             /\ errors' = errors \/ (changes + errors < MaxTroubles /\ errors' = errors + 1)
    BY <2>2 DEF TypeOK
  <2>3. Fails(c) \/ Works(c) =>
            errors' = errors \/ (changes + errors < MaxTroubles /\ errors' = errors + 1)
    BY Zenon DEF Fails, Works
  <2> QED
    BY <2>1, <2>2, <2>3, Zenon DEF Step, Lookup, Safety, Probe, NotBlocked, Humanize, Send,
                                   RecordAudit, Record
<1>4. now' = now /\ allow' = allow /\ blocked' = blocked
  BY DEF Step, HandleSend, HangUp, Lookup, Safety, Probe, NotBlocked, Humanize, Send,
         RecordAudit, Record
<1>5. call[c] # Idle => call[c] \in Busy
  BY DEF TypeOK
<1>6. stamped' \in Seq(Callers)
  <2>1. CASE Send(c) \/ RecordAudit(c)
    BY <2>1, StampedType
  <2> QED
    BY <2>1 DEF TypeOK, auditVars, Step, HandleSend, HangUp, Lookup, Safety, Probe, NotBlocked,
                Humanize, Record
<1>7. wire' \in Seq(Messages)
  <2>1. CASE Send(c) /\ call[c] # Idle
    <3>1. Message(c) \in Messages
      BY <1>5, <2>1, MessageType
    <3>2. wire' = wire \/ wire' = Append(wire, Message(c))
      BY <2>1, Zenon DEF Send
    <3>3. wire \in Seq(Messages)
      BY Zenon DEF TypeOK
    <3> QED
      BY <3>1, <3>2, <3>3
  <2> QED
    BY <2>1 DEF TypeOK, Step, HandleSend, HangUp, Lookup, Safety, Probe, NotBlocked,
                Humanize, Record, RecordAudit
<1>8. table' \in [Keys -> 0..(MaxTime + TTL)]
  <2>1. CASE Record(c) /\ call[c] # Idle
    <3>1. call[c].at + TTL \in 0..(MaxTime + TTL)
      BY <1>5, <2>1, BusyFields DEF Times
    <3> QED
      BY <2>1, <3>1 DEF TypeOK, Record
  <2> QED
    BY <2>1 DEF TypeOK, Step, HandleSend, HangUp, Lookup, Safety, Probe, NotBlocked,
                Humanize, Send, RecordAudit
<1>9. overlapped' \subseteq Keys
  <2>1. CASE call[c] # Idle
    <3>1. call[c].key \in Keys \cup {NoKey}
      BY <1>5, <2>1, BusyFields
    <3> QED
      BY <2>1, <3>1 DEF TypeOK, StoreInv, Step, HandleSend, HangUp, Lookup, Safety, Probe,
                        NotBlocked, Humanize, Send, RecordAudit, Record
  <2>2. CASE HandleSend(c)
    BY <2>2 DEF TypeOK, HandleSend
  <2> QED
    BY <2>1, <2>2 DEF Step, HangUp
<1>10. audit' \subseteq JIDs /\ overtaken' \subseteq JIDs
  <2>1. CASE RecordAudit(c) /\ call[c] # Idle
    <3>1. call[c].to \in JIDs
      BY <1>5, <2>1, BusyFields
    <3>2. \A i \in DOMAIN stamped : call[stamped[i]].to \in JIDs
      BY BusyFields DEF TypeOK, StampInv
    <3>3. audit' = audit \/ audit' = audit \cup {call[c].to}
      BY <2>1, Zenon DEF RecordAudit, auditVars, AuditRow
    <3>4. CASE overtaken' = overtaken
      BY <3>1, <3>3, <3>4 DEF TypeOK
    <3>5. ASSUME NEW i \in DOMAIN stamped, Overtake(i - 1)
          PROVE  overtaken' \subseteq JIDs
      <4>1. 1..(i - 1) \subseteq DOMAIN stamped
        BY DEF TypeOK
      <4> QED
        BY <3>2, <3>5, <4>1 DEF TypeOK, Overtake
    <3> QED
      BY <2>1, <3>1, <3>3, <3>4, <3>5 DEF TypeOK, RecordAudit, auditVars
  <2> QED
    BY <2>1 DEF TypeOK, auditVars, Step, HandleSend, HangUp, Lookup, Safety, Probe, NotBlocked,
                Humanize, Send, Record
<1> QED
  BY <1>1, <1>2, <1>3, <1>4, <1>6, <1>7, <1>8, <1>9, <1>10 DEF TypeOK

\* One event more, of a call that had none; fewer, and no longer that of c.
LEMMA StampKept ==
  ASSUME TypeInv, NEW c \in Callers, Step(c)
  PROVE  StampInv'
<1>1. /\ call' \in [Callers -> Busy \cup {Idle}]
      /\ \A d \in Callers \ {c} : call'[d] = call[d]
      /\ \A s : Becomes(c, s) => call'[c] = s
      /\ call[c] # Idle => Waiting(c)
  BY StepFacts, Zenon DEF TypeInv
<1>2. /\ stamped \in Seq(Callers) /\ IsInjective(stamped)
      /\ \A i \in DOMAIN stamped : call[stamped[i]] # Idle /\ call[stamped[i]].pc = "sent"
  BY Zenon DEF TypeInv, TypeOK, StampInv
<1>3. CASE Send(c) /\ call[c] # Idle
  <2>1. call'[c] # Idle /\ call'[c].pc = "sent"
    BY <1>1, <1>3, SendEffect, IdleIsNotBusy DEF Becomes
  <2>2. stamped' = Append(stamped, c) /\ \A i \in DOMAIN stamped : stamped[i] # c
    BY <1>2, <1>3 DEF Send
  <2>3. /\ DOMAIN stamped' = 1..(Len(stamped) + 1)
        /\ \A i \in 1..Len(stamped) : stamped'[i] = stamped[i]
        /\ stamped'[Len(stamped) + 1] = c
    BY <1>2, <2>2
  <2> QED
    BY <1>1, <1>2, <2>1, <2>2, <2>3 DEF StampInv, IsInjective
<1>4. CASE RecordAudit(c)
  <2>1. CASE c \notin Range(stamped) /\ stamped' = stamped
    BY <1>1, <1>2, <2>1 DEF StampInv, Range
  <2>2. ASSUME NEW i \in DOMAIN stamped, stamped[i] = c,
               Close(i) \/ stamped' = RemoveAt(stamped, i)
        PROVE  StampInv'
    <3>1. i \in 1..Len(stamped) /\ i \in 0..Len(stamped)
      BY <1>2, <2>2
    <3>2. CASE Close(i)
      <4>1. /\ DOMAIN stamped' = 1..(Len(stamped) - i)
            /\ \A j \in 1..(Len(stamped) - i) : stamped'[j] = stamped[i + j]
        BY <1>2, <3>1, <3>2, CloseSeq DEF Close
      <4>2. \A j \in DOMAIN stamped' : i + j \in DOMAIN stamped /\ i + j # i
        BY <1>2, <3>1, <4>1
      <4>3. \A j \in DOMAIN stamped' : stamped'[j] \in Callers \ {c}
                /\ call[stamped'[j]] # Idle /\ call[stamped'[j]].pc = "sent"
        BY <1>2, <2>2, <4>1, <4>2 DEF IsInjective
      <4>4. IsInjective(stamped')
        BY <1>2, <3>1, <4>1, <4>2 DEF IsInjective
      <4> QED
        BY <1>1, <4>3, <4>4 DEF StampInv
    <3>3. CASE stamped' = RemoveAt(stamped, i)
      <4>1. /\ DOMAIN stamped' = 1..(Len(stamped) - 1)
            /\ \A j \in 1..(Len(stamped) - 1) :
                  stamped'[j] = IF j < i THEN stamped[j] ELSE stamped[j + 1]
        <5>1. /\ stamped' \in Seq(Callers) /\ Len(stamped') = Len(stamped) - 1
              /\ \A j \in 1..Len(stamped') :
                    stamped'[j] = IF j < i THEN stamped[j] ELSE stamped[j + 1]
          BY <1>2, <3>1, <3>3, RemoveSeq, Zenon
        <5> QED
          BY <5>1
      <4>2. \A j \in DOMAIN stamped' : \E k \in DOMAIN stamped \ {i} :
                stamped'[j] = stamped[k] /\ k = IF j < i THEN j ELSE j + 1
        BY <1>2, <3>1, <4>1
      <4>3. \A j \in DOMAIN stamped' : stamped'[j] \in Callers \ {c}
                /\ call[stamped'[j]] # Idle /\ call[stamped'[j]].pc = "sent"
        BY <1>2, <2>2, <4>2 DEF IsInjective
      <4>4. IsInjective(stamped')
        BY <1>2, <3>1, <4>1, <4>2 DEF IsInjective
      <4> QED
        BY <1>1, <4>3, <4>4 DEF StampInv
    <3> QED
      BY <2>2, <3>2, <3>3
  <2> QED
    BY <1>4, <2>1, <2>2, Zenon DEF RecordAudit, auditVars
<1>5. CASE HangUp(c)
  <2>1. Waiting(c)
    BY <1>1, <1>5 DEF HangUp
  <2>2. call'[c] # Idle /\ call'[c].pc = call[c].pc
    BY <1>1, <1>5, <2>1, HangUpEffect, IdleIsNotBusy DEF Becomes
  <2>3. stamped' = stamped
    BY <1>5 DEF HangUp, auditVars
  <2> QED
    BY <1>1, <1>2, <2>2, <2>3 DEF StampInv
<1>6. CASE stamped' = stamped /\ (call[c] = Idle \/ call[c].pc # "sent")
  <2>1. \A i \in DOMAIN stamped : stamped[i] \in Callers \ {c}
    BY <1>2, <1>6
  <2> QED
    BY <1>1, <1>2, <1>6, <2>1 DEF StampInv
<1>7. \/ HandleSend(c) \/ HangUp(c)
      \/ call[c] # Idle /\ (\/ Lookup(c) \/ Safety(c) \/ Probe(c) \/ NotBlocked(c)
                            \/ Humanize(c) \/ Send(c) \/ RecordAudit(c) \/ Record(c))
  BY DEF Step
<1> QED
  BY <1>3, <1>4, <1>5, <1>6, <1>7
  DEF HandleSend, Lookup, Safety, Probe, NotBlocked, Humanize, Record, auditVars

LEMMA TypeKept == TypeInv /\ [Next]_vars => TypeInv'
<1> SUFFICES ASSUME TypeInv, [Next]_vars PROVE TypeInv'
  OBVIOUS
<1> USE SendPathAssumption DEF SendPathAssumption
<1>1. ASSUME NEW c \in Callers, Step(c) PROVE TypeInv'
  BY <1>1, StepTypes, StoreKept, StampKept DEF TypeInv
<1>2. CASE Tick
  <2>1. /\ now' \in Times
        /\ second' \in 0..SecondBurst /\ minute' \in 0..MinuteBurst
    BY <1>2 DEF Tick, TypeInv, TypeOK, Times, Refill, Least
  <2> QED
    BY <1>2, <2>1, Zenon DEF Tick, TypeInv, TypeOK, StoreInv, StampInv, auditVars
<1>3. CASE Regrant \/ Block
  <2>1. changes' \in 0..MaxTroubles /\ allow' \subseteq JIDs /\ blocked' \subseteq JIDs
    BY <1>3 DEF Regrant, Block, TypeInv, TypeOK
  <2> QED
    BY <1>3, <2>1, Zenon DEF Regrant, Block, TypeInv, TypeOK, StoreInv, StampInv, auditVars
<1>4. CASE Sweep
  <2>1. table' \in [Keys -> 0..(MaxTime + TTL)]
    BY <1>4 DEF Sweep, TypeInv, TypeOK, NoRow
  <2> QED
    BY <1>4, <2>1, Zenon DEF Sweep, TypeInv, TypeOK, StoreInv, StampInv, auditVars
<1>5. CASE OtherRow
  <2>1. PICK n \in DOMAIN stamped : Close(n) /\ Overtake(n)
    BY <1>5 DEF OtherRow
  <2>2. /\ stamped \in Seq(Callers) /\ IsInjective(stamped) /\ overtaken \subseteq JIDs
        /\ \A i \in DOMAIN stamped : call[stamped[i]] # Idle /\ call[stamped[i]].pc = "sent"
        /\ call \in [Callers -> Busy \cup {Idle}]
    BY Zenon DEF TypeInv, TypeOK, StampInv
  <2>3. n \in 0..Len(stamped) /\ 1..n \subseteq DOMAIN stamped
    BY <2>2
  <2>4. /\ stamped' \in Seq(Callers) /\ DOMAIN stamped' = 1..(Len(stamped) - n)
        /\ \A j \in 1..(Len(stamped) - n) : stamped'[j] = stamped[n + j]
    BY <2>1, <2>2, <2>3, CloseSeq DEF Close
  <2>5. \A j \in DOMAIN stamped' : n + j \in DOMAIN stamped
    BY <2>2, <2>3, <2>4
  <2>6. call' = call
    BY <1>5 DEF OtherRow
  <2>7. StampInv'
    BY <2>2, <2>3, <2>4, <2>5, <2>6 DEF StampInv, IsInjective
  <2>8. overtaken' \subseteq JIDs
    <3>1. \A i \in DOMAIN stamped : call[stamped[i]].to \in JIDs
      BY <2>2, BusyFields
    <3> QED
      BY <2>1, <2>2, <2>3, <3>1 DEF Overtake
  <2> QED
    BY <1>5, <2>4, <2>7, <2>8, Zenon DEF OtherRow, TypeInv, TypeOK, StoreInv
<1>6. CASE UNCHANGED vars
  BY <1>6, Zenon DEF vars, auditVars, TypeInv, TypeOK, StoreInv, StampInv
<1> QED
  BY <1>1, <1>2, <1>3, <1>4, <1>5, <1>6, Zenon DEF Next

-----------------------------------------------------------------------------
(* The gates *)

\* The gates behind a call are passed under the JID it now works with, and that
\* is the one asked for, or one the caller agreed to.
Cleared(r) ==
    /\ r.pc \in {"probe", "block", "send"} => <<"allow", r.to>> \in r.passed
    /\ r.pc = "send" => <<"block", r.to>> \in r.passed
    /\ r.to = r.asked \/ (r.follow /\ r.to \in Answers[r.asked])

ClearedInv == \A c \in Callers : call[c] # Idle => Cleared(call[c])

GateInv == TypeInv /\ ClearedInv /\ SentWasCleared

LEMMA ClearedKept ==
  ASSUME TypeInv, ClearedInv, NEW c \in Callers, Step(c)
  PROVE  ClearedInv'
<1>1. /\ \A d \in Callers \ {c} : call'[d] = call[d]
      /\ Ends(c) => call'[c] = Idle
      /\ \A s : Becomes(c, s) => call'[c] = s
      /\ call[c] # Idle => Waiting(c) /\ ~HandleSend(c)
      /\ call[c] = Idle => HandleSend(c)
      /\ call \in [Callers -> Busy \cup {Idle}]
  BY StepFacts, Zenon DEF TypeInv, TypeOK
<1> SUFFICES ASSUME call'[c] # Idle PROVE Cleared(call'[c])
  BY <1>1 DEF ClearedInv
<1>2. CASE call[c] = Idle
  BY <1>1, <1>2, HandleSendEffect, SendPathAssumption DEF Cleared
<1>3. CASE call[c] # Idle
  <2>1. Waiting(c) /\ Cleared(call[c])
    BY <1>1, <1>3 DEF ClearedInv
  <2> USE DEF Cleared, Same, SameGates
  <2>2. CASE HangUp(c)
    BY <1>1, <2>1, <2>2, HangUpEffect
  <2>3. CASE Lookup(c)
    BY <1>1, <2>1, <2>3, LookupEffect
  <2>4. CASE Safety(c)
    BY <1>1, <2>1, <2>4, SafetyEffect
  <2>5. CASE Probe(c)
    <3>1. call[c].pc = "probe"
      BY <2>5 DEF Probe
    <3> QED
      BY <1>1, <2>1, <2>5, <3>1, ProbeEffect, SendPathAssumption
  <2>6. CASE NotBlocked(c)
    <3>1. call[c].pc = "block"
      BY <2>6 DEF NotBlocked
    <3> QED
      BY <1>1, <2>1, <2>6, <3>1, NotBlockedEffect
  <2>7. CASE Humanize(c) \/ Record(c)
    BY <1>1, <2>7 DEF Humanize, Record, Return, Ends
  <2>8. CASE Send(c)
    BY <1>1, <2>1, <2>8, SendEffect
  <2>9. CASE RecordAudit(c)
    BY <1>1, <2>1, <2>9, RecordAuditEffect
  <2> QED
    BY <1>1, <1>3, <2>2, <2>3, <2>4, <2>5, <2>6, <2>7, <2>8, <2>9, Zenon DEF Step
<1> QED
  BY <1>2, <1>3

\* The only step that puts a message on the wire.
LEMMA WireGrows ==
  ASSUME TypeInv, NEW c \in Callers, Step(c), wire' # wire
  PROVE  /\ Send(c) /\ Waiting(c) /\ call[c] # Idle /\ call[c].pc = "send"
         /\ DOMAIN wire' = 1..(Len(wire) + 1) /\ DOMAIN wire = 1..Len(wire) /\ Len(wire) \in Nat
         /\ \A i \in 1..Len(wire) : wire'[i] = wire[i]
         /\ wire'[Len(wire) + 1] = Message(c)
<1>1. Send(c) /\ call[c] # Idle
  BY Zenon DEF Step, HandleSend, HangUp, Lookup, Safety, Probe, NotBlocked, Humanize,
               RecordAudit, Record
<1>2. wire \in Seq(Messages) /\ Waiting(c) /\ call[c].pc = "send"
  BY <1>1, StepFacts, Zenon DEF TypeInv, TypeOK, Send
<1>3. Message(c) \in Messages /\ wire' = Append(wire, Message(c))
  BY <1>1, <1>2, MessageType, Zenon DEF Waiting, Send
<1> QED
  BY <1>1, <1>2, <1>3

LEMMA GateKept == GateInv /\ [Next]_vars => GateInv'
<1> SUFFICES ASSUME GateInv, [Next]_vars PROVE GateInv'
  OBVIOUS
<1>1. TypeInv /\ ClearedInv /\ SentWasCleared
  BY DEF GateInv
<1>2. TypeInv'
  BY <1>1, TypeKept
<1>3. ClearedInv'
  <2>1. CASE call' = call
    BY <1>1, <2>1 DEF ClearedInv
  <2>2. ASSUME NEW c \in Callers, Step(c) PROVE ClearedInv'
    BY <1>1, <2>2, ClearedKept
  <2> QED
    BY <2>1, <2>2, Zenon DEF Next, vars, Tick, Regrant, Block, Sweep, OtherRow
<1>4. SentWasCleared'
  <2>1. CASE wire' = wire
    BY <1>1, <2>1 DEF SentWasCleared
  <2>2. ASSUME NEW c \in Callers, Step(c), wire' # wire PROVE SentWasCleared'
    <3>1. Cleared(call[c])
      BY <1>1, <2>2, WireGrows DEF ClearedInv
    <3>2. Message(c).cleared /\ Message(c).agreed
      BY <1>1, <2>2, <3>1, WireGrows DEF Cleared, Message
    <3> QED
      BY <1>1, <2>2, <3>2, WireGrows DEF SentWasCleared
  <2> QED
    BY <2>1, <2>2, Zenon DEF Next, vars, Tick, Regrant, Block, Sweep, OtherRow
<1> QED
  BY <1>2, <1>3, <1>4 DEF GateInv

\* Every variable of the send path keeps its type, in particular no audit event
\* of a call that has returned waits to be written.
THEOREM TypeCorrect == Spec => []TypeOK
<1>1. TypeInv => TypeOK
  BY DEF TypeInv
<1> QED
  BY <1>1, TypeInit, TypeKept, PTL DEF Spec

\* Whatever the lists, the server's answers and the other calls do meanwhile, a
\* message only goes to a JID that this call held against the allowlist and the
\* block list, and that its caller asked for or agreed to follow.
THEOREM SentWasClearedHolds == Spec => []SentWasCleared
<1>1. Init => GateInv
  <2>1. Init => TypeInv
    BY TypeInit
  <2> QED
    BY <2>1 DEF Init, GateInv, ClearedInv, SentWasCleared
<1>2. GateInv => SentWasCleared
  BY DEF GateInv
<1> QED
  BY <1>1, <1>2, GateKept, PTL DEF Spec

-----------------------------------------------------------------------------
(* The sidecar *)

\* A key that two calls have at once counts as overlapped.
KeyInv ==
    \A c, d \in Callers :
        c # d /\ call[c] # Idle /\ call[d] # Idle /\ call[c].key = call[d].key
            => call[c].key \in overlapped \cup {NoKey}

Outside(r) == r.pc \in {"safety", "probe", "block", "send"}
Recording(r) == r.pc \in {"sent", "record"} /\ r.ok

\* The look-up behind a call found the rows of all earlier messages expired.
FreshInv ==
    \A c \in Callers, i \in DOMAIN wire :
        call[c] # Idle /\ call[c].key = wire[i].key /\ wire[i].key \in Keys \ overlapped =>
            /\ Outside(call[c]) => call[c].at >= wire[i].at + TTL
            /\ call[c].pc \in {"sent", "record"} => call[c].at >= wire[i].at

\* A message is remembered: its call is about to store the row, or the row is
\* there, or its time is over.
Remembered(i) ==
    \/ \E c \in Callers : call[c] # Idle /\ call[c].key = wire[i].key /\ Recording(call[c])
    \/ table[wire[i].key] >= wire[i].at + TTL
    \/ now >= wire[i].at + TTL

RowInv == \A i \in DOMAIN wire : wire[i].key \in Keys \ overlapped => Remembered(i)

SidecarInv == TypeInv /\ KeyInv /\ FreshInv /\ RowInv /\ RetrySendsOnce

\* A message that left, and a call, in numbers.
LEMMA WireFields ==
  ASSUME TypeInv, NEW i \in DOMAIN wire
  PROVE  /\ wire[i].at \in Nat /\ wire[i].granted \in Nat /\ wire[i].key \in Keys \cup {NoKey}
         /\ wire[i].granted \in Times
<1>1. wire \in Seq(Messages) /\ Times \subseteq Nat
  BY SendPathAssumption DEF SendPathAssumption, TypeInv, TypeOK, Times
<1>2. wire[i] \in Messages
  BY <1>1
<1> QED
  BY <1>1, <1>2 DEF Messages

LEMMA CallFields ==
  ASSUME TypeInv, NEW c \in Callers, call[c] # Idle
  PROVE  /\ call[c].at \in Nat /\ call[c].granted \in Nat /\ call[c].key \in Keys \cup {NoKey}
         /\ now \in Nat
<1>1. call[c] \in Busy /\ Times \subseteq Nat /\ now \in Times
  BY SendPathAssumption DEF SendPathAssumption, TypeInv, TypeOK, Times
<1> QED
  BY <1>1, BusyFields

LEMMA OverlapGrows ==
  ASSUME [Next]_vars
  PROVE  overlapped \subseteq overlapped'
  BY DEF Next, vars, Tick, Regrant, Block, Sweep, OtherRow, Step, HandleSend, HangUp,
         Lookup, Safety, Probe, NotBlocked, Humanize, Send, RecordAudit, Record

LEMMA KeyKept ==
  ASSUME TypeInv, KeyInv, NEW c \in Callers, Step(c)
  PROVE  KeyInv'
<1>1. /\ \A d \in Callers \ {c} : call'[d] = call[d]
      /\ Ends(c) => call'[c] = Idle
      /\ \A s : Becomes(c, s) => call'[c] = s
      /\ call[c] = Idle => HandleSend(c)
      /\ call \in [Callers -> Busy \cup {Idle}]
  BY StepFacts, Zenon DEF TypeInv, TypeOK
<1>2. overlapped \subseteq overlapped'
  BY OverlapGrows DEF Next
<1>3. CASE call[c] # Idle
  <2>1. call'[c] # Idle => call'[c].key = call[c].key
    BY <1>1, <1>3, StepIsOne DEF TypeInv
  <2> QED
    BY <1>1, <1>2, <1>3, <2>1 DEF KeyInv
<1>4. CASE call[c] = Idle
  <2>1. PICK s : /\ Becomes(c, s)
                 /\ overlapped' = IF s.key # NoKey /\ InUse(s.key)
                                  THEN overlapped \cup {s.key} ELSE overlapped
    BY <1>1, <1>4, HandleSendEffect, SendPathAssumption
  <2>2. call'[c] = s
    BY <1>1, <2>1
  <2>3. ASSUME NEW d \in Callers \ {c}, call[d] # Idle, call[d].key = s.key
        PROVE  s.key \in overlapped' \cup {NoKey}
    BY <2>1, <2>3 DEF InUse
  <2> QED
    BY <1>1, <1>2, <2>2, <2>3 DEF KeyInv
<1> QED
  BY <1>3, <1>4

\* The message of a key is either an old one, or leaves by this step.
LEMMA FreshKept ==
  ASSUME SidecarInv, NEW c \in Callers, Step(c)
  PROVE  FreshInv'
<1> USE DEF SidecarInv
<1>1. /\ \A d \in Callers \ {c} : call'[d] = call[d]
      /\ Ends(c) => call'[c] = Idle
      /\ \A s : Becomes(c, s) => call'[c] = s
      /\ call[c] # Idle => Waiting(c) /\ ~HandleSend(c)
      /\ call[c] = Idle => HandleSend(c)
      /\ call \in [Callers -> Busy \cup {Idle}]
  BY StepFacts, Zenon DEF TypeInv, TypeOK
<1>2. overlapped \subseteq overlapped'
  BY OverlapGrows DEF Next
<1>3. TTL \in Nat /\ NoKey \notin Keys
  BY SendPathAssumption DEF SendPathAssumption
<1>4. ASSUME NEW i \in DOMAIN wire, call'[c] # Idle, call'[c].key = wire[i].key,
             wire[i].key \in Keys \ overlapped
      PROVE  /\ Outside(call'[c]) => call'[c].at >= wire[i].at + TTL
             /\ call'[c].pc \in {"sent", "record"} => call'[c].at >= wire[i].at
  <2>1. wire[i].at \in Nat
    BY WireFields
  <2>2. CASE call[c] = Idle
    BY <1>1, <1>3, <1>4, <2>2, HandleSendEffect, SendPathAssumption DEF Outside
  <2>3. CASE call[c] # Idle
    <3>1. Waiting(c) /\ call[c].key = wire[i].key /\ call[c].at \in Nat /\ now \in Nat
      BY <1>1, <1>4, <2>3, StepIsOne, CallFields DEF TypeInv
    <3>2. /\ Outside(call[c]) => call[c].at >= wire[i].at + TTL
          /\ call[c].pc \in {"sent", "record"} => call[c].at >= wire[i].at
      BY <1>4, <2>3, <3>1 DEF FreshInv
    <3> USE DEF Outside, SameTimes
    <3>3. CASE HangUp(c)
      BY <1>1, <3>1, <3>2, <3>3, HangUpEffect
    <3>4. CASE Lookup(c)
      <4>1. call[c].pc = "lookup"
        BY <3>4 DEF Lookup
      <4>2. CASE Ends(c)
        BY <1>1, <1>4, <4>2
      <4>3. CASE ~Ends(c)
        <5>1. ~Hit(call[c].key) /\ call'[c].pc = "safety" /\ call'[c].at = now
          BY <1>1, <3>1, <3>4, <4>3, LookupEffect
        <5>2. table[wire[i].key] <= now
          BY <3>1, <5>1 DEF Hit, Expired
        <5>3. Remembered(i)
          BY <1>4 DEF RowInv
        <5>4. ~\E d \in Callers : call[d] # Idle /\ call[d].key = wire[i].key /\ Recording(call[d])
          <6> SUFFICES ASSUME NEW d \in Callers, call[d] # Idle, call[d].key = wire[i].key,
                              Recording(call[d])
                       PROVE  FALSE
            OBVIOUS
          <6>1. d # c
            BY <4>1 DEF Recording
          <6> QED
            BY <1>3, <1>4, <2>3, <3>1, <6>1 DEF KeyInv
        <5>5. table[wire[i].key] \in Nat
          BY <1>4, SendPathAssumption DEF SendPathAssumption, TypeInv, TypeOK
        <5>6. now >= wire[i].at + TTL
          BY <1>3, <2>1, <3>1, <5>2, <5>3, <5>4, <5>5 DEF Remembered
        <5> QED
          BY <5>1, <5>6
      <4> QED
        BY <4>2, <4>3
    <3>5. CASE Safety(c)
      BY <1>1, <1>4, <3>1, <3>2, <3>5, SafetyEffect
    <3>6. CASE Probe(c)
      <4>1. call[c].pc = "probe"
        BY <3>6 DEF Probe
      <4> QED
        BY <1>1, <1>4, <3>1, <3>2, <3>6, <4>1, ProbeEffect, SendPathAssumption
    <3>7. CASE NotBlocked(c)
      <4>1. call[c].pc = "block"
        BY <3>7 DEF NotBlocked
      <4> QED
        BY <1>1, <1>4, <3>1, <3>2, <3>7, <4>1, NotBlockedEffect
    <3>8. CASE Humanize(c) \/ Record(c)
      BY <1>1, <1>4, <3>8 DEF Humanize, Record, Return, Ends
    <3>9. CASE Send(c)
      <4>1. call[c].pc = "send"
        BY <3>9 DEF Send
      <4>2. call'[c].pc = "sent" /\ call'[c].at = call[c].at
        BY <1>1, <3>1, <3>9, SendEffect
      <4> QED
        BY <1>3, <2>1, <3>1, <3>2, <4>1, <4>2
    <3>10. CASE RecordAudit(c)
      <4>1. call[c].pc = "sent"
        BY <3>10 DEF RecordAudit
      <4>2. call'[c].pc = "record" /\ call'[c].at = call[c].at
        BY <1>1, <1>4, <3>1, <3>10, RecordAuditEffect
      <4> QED
        BY <3>2, <4>1, <4>2
    <3> QED
      BY <1>1, <2>3, <3>3, <3>4, <3>5, <3>6, <3>7, <3>8, <3>9, <3>10, Zenon DEF Step
  <2> QED
    BY <2>2, <2>3
<1>5. CASE wire' = wire
  BY <1>1, <1>2, <1>4, <1>5 DEF FreshInv
<1>6. CASE wire' # wire
  <2>1. /\ Send(c) /\ Waiting(c) /\ call[c] # Idle
        /\ DOMAIN wire' = 1..(Len(wire) + 1) /\ DOMAIN wire = 1..Len(wire) /\ Len(wire) \in Nat
        /\ \A i \in 1..Len(wire) : wire'[i] = wire[i]
        /\ wire'[Len(wire) + 1] = Message(c)
    BY <1>6, WireGrows
  <2>2. /\ call'[c].pc = "sent" /\ call'[c].at = call[c].at
        /\ Message(c).key = call[c].key /\ Message(c).at = call[c].at /\ call[c].at \in Nat
    BY <1>1, <2>1, SendEffect, CallFields DEF SameTimes, Message
  <2>3. ASSUME NEW d \in Callers \ {c}, call[d] # Idle, call[d].key = Message(c).key
        PROVE  Message(c).key \notin Keys \ overlapped
    BY <1>3, <2>1, <2>2, <2>3 DEF KeyInv
  <2> SUFFICES ASSUME NEW d \in Callers, NEW i \in DOMAIN wire', call'[d] # Idle,
                      call'[d].key = wire'[i].key, wire'[i].key \in Keys \ overlapped'
               PROVE  /\ Outside(call'[d]) => call'[d].at >= wire'[i].at + TTL
                      /\ call'[d].pc \in {"sent", "record"} => call'[d].at >= wire'[i].at
    BY DEF FreshInv
  <2>4. CASE i \in 1..Len(wire) /\ d = c
    BY <1>2, <1>4, <2>1, <2>4
  <2>5. CASE i \in 1..Len(wire) /\ d # c
    BY <1>1, <1>2, <2>1, <2>5 DEF FreshInv
  <2>6. CASE i = Len(wire) + 1
    BY <1>1, <1>2, <2>1, <2>2, <2>3, <2>6 DEF Outside
  <2> QED
    BY <2>1, <2>4, <2>5, <2>6
<1> QED
  BY <1>5, <1>6

LEMMA RowKept ==
  ASSUME SidecarInv, NEW c \in Callers, Step(c)
  PROVE  RowInv'
<1> USE DEF SidecarInv
<1>1. /\ \A d \in Callers \ {c} : call'[d] = call[d]
      /\ \A s : Becomes(c, s) => call'[c] = s
      /\ call[c] # Idle => Waiting(c)
      /\ call[c] = Idle => HandleSend(c)
  BY StepFacts, Zenon DEF TypeInv
<1>2. overlapped \subseteq overlapped' /\ now' = now
  BY OverlapGrows DEF Next, Step, HandleSend, HangUp, Lookup, Safety, Probe, NotBlocked,
                      Humanize, Send, RecordAudit, Record
<1>3. TTL \in Nat /\ NoKey \notin Keys /\ table \in [Keys -> 0..(MaxTime + TTL)]
  BY SendPathAssumption DEF SendPathAssumption, TypeInv, TypeOK
<1>4. ~Record(c) \/ call[c] = Idle => table' = table
  BY DEF Step, HandleSend, HangUp, Lookup, Safety, Probe, NotBlocked, Humanize, Send, RecordAudit
<1>5. ASSUME NEW i \in DOMAIN wire, i \in DOMAIN wire', wire'[i] = wire[i],
             wire[i].key \in Keys \ overlapped'
      PROVE  Remembered(i)'
  <2>1. Remembered(i)
    BY <1>2, <1>5 DEF RowInv
  <2>2. CASE call[c] = Idle \/ call[c].key # wire[i].key \/ ~Recording(call[c])
    <3>1. CASE table'[wire[i].key] = table[wire[i].key]
      BY <1>1, <1>2, <1>5, <2>1, <2>2, <3>1 DEF Remembered
    <3>2. CASE Record(c) /\ call[c] # Idle
      <4>1. CASE table' = [table EXCEPT ![call[c].key] = call[c].at + TTL]
        <5>1. table' = [table EXCEPT ![call[c].key] = call[c].at + TTL] /\ call[c].pc = "record"
          BY <3>2, <4>1 DEF Record
        <5>2. CASE call[c].key # wire[i].key
          BY <1>3, <1>5, <3>1, <5>1, <5>2
        <5>3. CASE call[c].key = wire[i].key
          <6>1. call[c].at >= wire[i].at /\ call[c].at \in Nat /\ wire[i].at \in Nat
            BY <1>2, <1>5, <3>2, <5>1, <5>3, CallFields, WireFields DEF FreshInv
          <6>2. table'[wire[i].key] = call[c].at + TTL
            BY <1>3, <1>5, <5>1, <5>3
          <6> QED
            BY <1>3, <1>5, <6>1, <6>2 DEF Remembered
        <5> QED
          BY <5>2, <5>3
      <4> QED
        BY <3>1, <3>2, <4>1 DEF Record
    <3> QED
      BY <1>4, <3>1, <3>2
  <2>3. CASE call[c] # Idle /\ call[c].key = wire[i].key /\ Recording(call[c])
    <3>1. Waiting(c) /\ ~HandleSend(c)
      BY <1>1, <2>3 DEF HandleSend
    <3>2. CASE HangUp(c)
      <4>1. call'[c] # Idle /\ call'[c].key = wire[i].key /\ Recording(call'[c])
        BY <1>1, <2>3, <3>1, <3>2, HangUpEffect, IdleIsNotBusy DEF Same, Recording, Becomes
      <4> QED
        BY <1>5, <4>1 DEF Remembered
    <3>3. CASE RecordAudit(c)
      <4>1. call'[c] # Idle /\ call'[c].key = wire[i].key /\ Recording(call'[c])
        BY <1>1, <1>3, <1>5, <2>3, <3>1, <3>3, RecordAuditEffect, IdleIsNotBusy
        DEF Same, Recording, Becomes
      <4> QED
        BY <1>5, <4>1 DEF Remembered
    <3>4. CASE Record(c)
      <4>1. call[c].at >= wire[i].at /\ call[c].at \in Nat /\ wire[i].at \in Nat
        BY <1>2, <1>5, <2>3, <3>4, CallFields, WireFields DEF FreshInv, Record
      <4>2. table' = [table EXCEPT ![call[c].key] = call[c].at + TTL]
        BY <1>5, <2>3, <3>4 DEF Record
      <4>3. table'[wire[i].key] = call[c].at + TTL
        BY <1>3, <1>5, <2>3, <4>2
      <4> QED
        BY <1>3, <1>5, <4>1, <4>3 DEF Remembered
    <3> QED
      BY <2>3, <3>1, <3>2, <3>3, <3>4
      DEF Recording, Step, Lookup, Safety, Probe, NotBlocked, Humanize, Send
  <2> QED
    BY <2>2, <2>3
<1>6. CASE wire' = wire
  BY <1>5, <1>6 DEF RowInv
<1>7. CASE wire' # wire
  <2>1. /\ Send(c) /\ Waiting(c)
        /\ DOMAIN wire' = 1..(Len(wire) + 1) /\ DOMAIN wire = 1..Len(wire) /\ Len(wire) \in Nat
        /\ \A i \in 1..Len(wire) : wire'[i] = wire[i]
        /\ wire'[Len(wire) + 1] = Message(c)
    BY <1>7, WireGrows
  <2>2. Message(c).key = call[c].key
    BY DEF Message
  <2>3. ASSUME call[c].key \in Keys \ overlapped'
        PROVE  call'[c] # Idle /\ call'[c].key = call[c].key /\ Recording(call'[c])
    BY <1>1, <1>3, <1>7, <2>1, <2>3, SendEffect, IdleIsNotBusy DEF Same, Recording, Becomes
  <2>4. ASSUME NEW i \in DOMAIN wire', i = Len(wire) + 1, wire'[i].key \in Keys \ overlapped'
        PROVE  Remembered(i)'
    BY <2>1, <2>2, <2>3, <2>4 DEF Remembered
  <2>5. \A i \in DOMAIN wire' : i \in DOMAIN wire \/ i = Len(wire) + 1
    BY <2>1
  <2> QED
    BY <1>5, <2>1, <2>4, <2>5 DEF RowInv
<1> QED
  BY <1>6, <1>7

LEMMA RetryKept ==
  ASSUME SidecarInv, NEW c \in Callers, Step(c)
  PROVE  RetrySendsOnce'
<1> USE DEF SidecarInv
<1>1. overlapped \subseteq overlapped'
  BY OverlapGrows DEF Next
<1>2. CASE wire' = wire
  BY <1>1, <1>2 DEF RetrySendsOnce
<1>3. CASE wire' # wire
  <2>1. /\ Send(c) /\ call[c] # Idle /\ call[c].pc = "send"
        /\ DOMAIN wire' = 1..(Len(wire) + 1) /\ DOMAIN wire = 1..Len(wire) /\ Len(wire) \in Nat
        /\ \A i \in 1..Len(wire) : wire'[i] = wire[i]
        /\ wire'[Len(wire) + 1] = Message(c)
    BY <1>3, WireGrows
  <2>2. Message(c).key = call[c].key /\ Message(c).at = call[c].at
    BY DEF Message
  <2> SUFFICES ASSUME NEW i \in DOMAIN wire', NEW j \in DOMAIN wire', i < j,
                      wire'[i].key = wire'[j].key, wire'[i].key \in Keys \ overlapped'
               PROVE  wire'[j].at >= wire'[i].at + TTL
    BY DEF RetrySendsOnce
  <2>3. CASE j \in 1..Len(wire)
    BY <1>1, <2>1, <2>3 DEF RetrySendsOnce
  <2>4. CASE j = Len(wire) + 1
    <3>1. i \in DOMAIN wire /\ wire'[i] = wire[i]
      BY <2>1, <2>4
    <3> QED
      BY <1>1, <2>1, <2>2, <2>4, <3>1 DEF FreshInv, Outside
  <2> QED
    BY <2>1, <2>3, <2>4
<1> QED
  BY <1>2, <1>3

LEMMA SidecarKept == SidecarInv /\ [Next]_vars => SidecarInv'
<1> SUFFICES ASSUME SidecarInv, [Next]_vars PROVE SidecarInv'
  OBVIOUS
<1>1. TypeInv'
  BY TypeKept DEF SidecarInv
<1>2. ASSUME NEW c \in Callers, Step(c) PROVE SidecarInv'
  BY <1>1, <1>2, KeyKept, FreshKept, RowKept, RetryKept DEF SidecarInv
<1>3. CASE UNCHANGED <<call, wire, overlapped>>
  <2>1. KeyInv' /\ FreshInv' /\ RetrySendsOnce'
    BY <1>3, Zenon DEF SidecarInv, KeyInv, FreshInv, RetrySendsOnce
  <2>2. ASSUME NEW i \in DOMAIN wire, wire[i].key \in Keys \ overlapped
        PROVE  Remembered(i)'
    <3>1. Remembered(i) /\ wire[i].at \in Nat /\ TTL \in Nat
      BY <2>2, WireFields, SendPathAssumption DEF SendPathAssumption, SidecarInv, RowInv
    <3>2. CASE table' = table /\ now' = now
      BY <1>3, <3>1, <3>2 DEF Remembered
    <3>3. CASE Tick
      BY <1>3, <3>1, <3>3, SendPathAssumption
      DEF SendPathAssumption, Remembered, Tick, SidecarInv, TypeInv, TypeOK, Times
    <3>4. CASE Sweep
      <4>1. table[wire[i].key] \in Nat /\ now \in Nat /\ wire[i].key \in Keys
        BY <2>2, SendPathAssumption DEF SendPathAssumption, SidecarInv, TypeInv, TypeOK, Times
      <4>2. table'[wire[i].key] = IF table[wire[i].key] <= now THEN NoRow ELSE table[wire[i].key]
        BY <3>4, <4>1 DEF Sweep, Expired
      <4>3. now' = now
        BY <3>4 DEF Sweep
      <4> QED
        BY <1>3, <3>1, <4>1, <4>2, <4>3 DEF Remembered
    <3>5. ASSUME NEW c \in Callers, Step(c) PROVE Remembered(i)'
      BY <1>2, <1>3, <2>2, <3>5 DEF SidecarInv, RowInv
    <3> QED
      BY <3>2, <3>3, <3>4, <3>5, Zenon DEF Next, vars, Regrant, Block, OtherRow
  <2>3. RowInv'
    BY <1>3, <2>2 DEF RowInv
  <2> QED
    BY <1>1, <2>1, <2>3 DEF SidecarInv
<1> QED
  BY <1>2, <1>3, Zenon DEF Next, vars, Tick, Regrant, Block, Sweep, OtherRow

\* Two messages under one idempotency key are a row's life apart, unless two
\* calls with the key overlapped or one of them was cut off, for any number of
\* calls and any interleaving of their look-ups, sends and inserts.
THEOREM RetrySendsOnceHolds == Spec => []RetrySendsOnce
<1>1. Init => SidecarInv
  <2>1. Init => TypeInv
    BY TypeInit
  <2> QED
    BY <2>1 DEF Init, SidecarInv, KeyInv, FreshInv, RowInv, RetrySendsOnce
<1>2. SidecarInv => RetrySendsOnce
  BY DEF SidecarInv
<1> QED
  BY <1>1, <1>2, SidecarKept, PTL DEF Spec

-----------------------------------------------------------------------------
(* The audit rows *)

\* A call that has sent and whose event cannot be written any more was overtaken.
EventInv ==
    \A c \in Callers : call[c] # Idle /\ call[c].pc = "sent" =>
        c \in Range(stamped) \/ call[c].to \in overtaken

AuditInv == TypeInv /\ EventInv /\ SentIsAudited

LEMMA CloseRange ==
  ASSUME NEW S, NEW q \in Seq(S), NEW n \in 0..Len(q), NEW d \in Range(q)
  PROVE  d \in Range(SubSeq(q, n + 1, Len(q))) \/ \E k \in 1..n : q[k] = d
<1>1. PICK k \in 1..Len(q) : q[k] = d
  BY DEF Range
<1> DEFINE r == SubSeq(q, n + 1, Len(q))
<1>2. DOMAIN r = 1..(Len(q) - n) /\ \A i \in 1..(Len(q) - n) : r[i] = q[n + i]
  BY CloseSeq
<1> HIDE DEF r
<1>3. CASE k > n
  <2>1. k - n \in DOMAIN r /\ n + (k - n) = k
    BY <1>2, <1>3
  <2>2. r[k - n] = d
    BY <1>1, <1>2, <2>1
  <2> QED
    BY <2>1, <2>2 DEF Range, r
<1> QED
  BY <1>1, <1>3

LEMMA RemoveRange ==
  ASSUME NEW S, NEW q \in Seq(S), NEW n \in 1..Len(q), NEW d \in Range(q), d # q[n]
  PROVE  d \in Range(RemoveAt(q, n))
<1>1. PICK k \in 1..Len(q) : q[k] = d
  BY DEF Range
<1> DEFINE r == RemoveAt(q, n)
<1>2. /\ DOMAIN r = 1..(Len(q) - 1)
      /\ \A i \in 1..(Len(q) - 1) : r[i] = IF i < n THEN q[i] ELSE q[i + 1]
  <2>1. /\ r \in Seq(S) /\ Len(r) = Len(q) - 1
        /\ \A i \in 1..Len(r) : r[i] = IF i < n THEN q[i] ELSE q[i + 1]
    BY RemoveSeq, Zenon
  <2> QED
    BY <2>1
<1> HIDE DEF r
<1> DEFINE i == IF k < n THEN k ELSE k - 1
<1>3. i \in DOMAIN r /\ r[i] = d
  BY <1>1, <1>2
<1> QED
  BY <1>3, Zenon DEF Range, r

\* An event leaves the line only when it is written, fails or is overtaken.
LEMMA EventKept ==
  ASSUME TypeInv, EventInv, NEW c \in Callers, Step(c)
  PROVE  EventInv' /\ overtaken \subseteq overtaken'
<1>1. /\ \A d \in Callers \ {c} : call'[d] = call[d]
      /\ Ends(c) => call'[c] = Idle
      /\ \A s : Becomes(c, s) => call'[c] = s
      /\ call[c] # Idle => Waiting(c)
      /\ call[c] = Idle => HandleSend(c)
      /\ call \in [Callers -> Busy \cup {Idle}]
  BY StepFacts, Zenon DEF TypeInv, TypeOK
<1>2. stamped \in Seq(Callers)
  BY Zenon DEF TypeInv, TypeOK
<1>3. CASE Send(c) /\ call[c] # Idle
  <2>1. stamped' = Append(stamped, c) /\ overtaken' = overtaken
    BY <1>3 DEF Send
  <2>2. c \in Range(stamped') /\ Range(stamped) \subseteq Range(stamped')
    <3>1. /\ DOMAIN stamped' = 1..(Len(stamped) + 1) /\ Len(stamped) + 1 \in DOMAIN stamped'
          /\ \A i \in DOMAIN stamped : i \in DOMAIN stamped' /\ stamped'[i] = stamped[i]
          /\ stamped'[Len(stamped) + 1] = c
      BY <1>2, <2>1
    <3> QED
      BY <3>1, Zenon DEF Range
  <2> QED
    BY <1>1, <2>1, <2>2 DEF EventInv
<1>4. CASE RecordAudit(c) /\ call[c] # Idle
  <2>1. call'[c] = Idle \/ call'[c].pc # "sent"
    BY <1>1, <1>4, RecordAuditEffect
  <2>2. CASE stamped' = stamped /\ overtaken' = overtaken
    BY <1>1, <2>1, <2>2 DEF EventInv
  <2>3. ASSUME NEW i \in DOMAIN stamped, stamped[i] = c, Close(i), Overtake(i - 1)
        PROVE  EventInv' /\ overtaken \subseteq overtaken'
    <3>1. i \in 0..Len(stamped)
      BY <1>2
    <3>2. overtaken' = overtaken \cup {call[stamped[k]].to : k \in 1..(i - 1)}
      BY <2>3 DEF Overtake
    <3>3. ASSUME NEW d \in Callers \ {c}, d \in Range(stamped)
          PROVE  d \in Range(stamped') \/ call[d].to \in overtaken'
      <4>1. CASE d \in Range(stamped')
        BY <4>1
      <4>2. ASSUME NEW k \in 1..i, stamped[k] = d PROVE call[d].to \in overtaken'
        <5>1. k \in 1..(i - 1)
          BY <2>3, <3>1, <3>3, <4>2
        <5> QED
          BY <3>2, <4>2, <5>1
      <4> QED
        BY <1>2, <2>3, <3>1, <3>3, <4>1, <4>2, CloseRange DEF Close
    <3> QED
      BY <1>1, <2>1, <3>2, <3>3 DEF EventInv
  <2>4. ASSUME NEW i \in DOMAIN stamped, stamped[i] = c, stamped' = RemoveAt(stamped, i),
               overtaken' = overtaken
        PROVE  EventInv' /\ overtaken \subseteq overtaken'
    <3>1. i \in 1..Len(stamped)
      BY <1>2
    <3>2. \A d \in Callers \ {c} : d \in Range(stamped) => d \in Range(stamped')
      BY <1>2, <2>4, <3>1, RemoveRange
    <3> QED
      BY <1>1, <2>1, <2>4, <3>2 DEF EventInv
  <2> QED
    BY <1>4, <2>2, <2>3, <2>4, Zenon DEF RecordAudit, auditVars
<1>5. CASE HangUp(c)
  <2>1. call'[c].pc = call[c].pc /\ call'[c].to = call[c].to /\ call[c] # Idle
    BY <1>1, <1>5, HangUpEffect DEF SameGates, HangUp
  <2>2. stamped' = stamped /\ overtaken' = overtaken
    BY <1>5 DEF HangUp, auditVars
  <2> QED
    BY <1>1, <2>1, <2>2 DEF EventInv
<1>6. CASE \/ HandleSend(c)
           \/ call[c] # Idle /\ (\/ Lookup(c) \/ Safety(c) \/ Probe(c) \/ NotBlocked(c)
                                 \/ Humanize(c) \/ Record(c))
  <2>1. call'[c] = Idle \/ call'[c].pc # "sent"
    <3>1. CASE HandleSend(c)
      BY <1>1, <3>1, HandleSendEffect, SendPathAssumption
    <3>2. CASE Waiting(c) /\ Lookup(c)
      BY <1>1, <3>2, LookupEffect
    <3>3. CASE Waiting(c) /\ Safety(c)
      BY <1>1, <3>3, SafetyEffect
    <3>4. CASE Waiting(c) /\ Probe(c)
      BY <1>1, <3>4, ProbeEffect, SendPathAssumption
    <3>5. CASE Waiting(c) /\ NotBlocked(c)
      BY <1>1, <3>5, NotBlockedEffect
    <3>6. CASE Humanize(c) \/ Record(c)
      BY <1>1, <3>6 DEF Humanize, Record, Return, Ends
    <3> QED
      BY <1>1, <1>6, <3>1, <3>2, <3>3, <3>4, <3>5, <3>6
  <2>2. stamped' = stamped /\ overtaken' = overtaken
    BY <1>6 DEF HandleSend, Lookup, Safety, Probe, NotBlocked, Humanize, Record, auditVars
  <2> QED
    BY <1>1, <2>1, <2>2 DEF EventInv
<1> QED
  BY <1>3, <1>4, <1>5, <1>6, Zenon DEF Step

LEMMA AuditedKept ==
  ASSUME AuditInv, NEW c \in Callers, Step(c)
  PROVE  SentIsAudited'
<1> USE DEF AuditInv
<1> SUFFICES ASSUME errors' = 0
             PROVE  \A i \in DOMAIN wire' :
                      \/ wire'[i].to \in audit' \cup overtaken'
                      \/ \E d \in Callers :
                           call'[d] # Idle /\ call'[d].pc = "sent" /\ call'[d].to = wire'[i].to
  BY DEF SentIsAudited
<1>1. /\ \A d \in Callers \ {c} : call'[d] = call[d]
      /\ \A s : Becomes(c, s) => call'[c] = s
      /\ call[c] # Idle => Waiting(c)
      /\ call \in [Callers -> Busy \cup {Idle}]
  BY StepFacts, Zenon DEF TypeInv, TypeOK
<1>2. errors = 0
  <2>1. errors \in Nat /\ errors' \in {errors, errors + 1}
    BY SendPathAssumption
    DEF SendPathAssumption, TypeInv, TypeOK, Step, HandleSend, HangUp, Lookup, Safety, Probe,
        NotBlocked, Humanize, Send, RecordAudit, Record, Works, Fails
  <2> QED
    BY <2>1
<1>3. audit \subseteq audit' /\ overtaken \subseteq overtaken'
  <2>1. audit \subseteq audit'
    BY DEF Step, HandleSend, HangUp, Lookup, Safety, Probe, NotBlocked, Humanize, Send,
           RecordAudit, Record, auditVars
  <2> QED
    BY <2>1, EventKept
<1>4. ASSUME NEW i \in DOMAIN wire
      PROVE  \/ wire[i].to \in audit' \cup overtaken'
             \/ \E d \in Callers :
                  call'[d] # Idle /\ call'[d].pc = "sent" /\ call'[d].to = wire[i].to
  <2>1. CASE wire[i].to \in audit \cup overtaken
    BY <1>3, <2>1
  <2>2. ASSUME NEW d \in Callers \ {c},
               call[d] # Idle, call[d].pc = "sent", call[d].to = wire[i].to
        PROVE  call'[d] # Idle /\ call'[d].pc = "sent" /\ call'[d].to = wire[i].to
    BY <1>1, <2>2
  <2>3. CASE call[c] # Idle /\ call[c].pc = "sent" /\ call[c].to = wire[i].to
    <3>1. CASE HangUp(c)
      BY <1>1, <2>3, <3>1, HangUpEffect, IdleIsNotBusy DEF SameGates, Becomes
    <3>2. CASE RecordAudit(c)
      <4>1. errors' # errors + 1
        BY <1>2
      <4>2. audit' = audit \cup AuditRow(c) \/ c \notin Range(stamped)
        BY <3>2, <4>1, Zenon DEF RecordAudit
      <4> QED
        BY <1>3, <2>3, <4>2 DEF AuditRow, EventInv
    <3> QED
      BY <2>3, <3>1, <3>2
      DEF Step, HandleSend, Lookup, Safety, Probe, NotBlocked, Humanize, Send, Record
  <2> QED
    BY <1>2, <2>1, <2>2, <2>3 DEF SentIsAudited
<1>5. CASE wire' = wire
  BY <1>4, <1>5
<1>6. CASE wire' # wire
  <2>1. /\ Send(c) /\ Waiting(c)
        /\ DOMAIN wire' = 1..(Len(wire) + 1) /\ DOMAIN wire = 1..Len(wire) /\ Len(wire) \in Nat
        /\ \A i \in 1..Len(wire) : wire'[i] = wire[i]
        /\ wire'[Len(wire) + 1] = Message(c)
    BY <1>6, WireGrows
  <2>2. Message(c).to = call[c].to
    BY DEF Message
  <2>3. call'[c] # Idle /\ call'[c].pc = "sent" /\ call'[c].to = call[c].to
    BY <1>1, <2>1, SendEffect, IdleIsNotBusy DEF SameGates, Becomes
  <2>4. \A i \in DOMAIN wire' : i \in DOMAIN wire \/ i = Len(wire) + 1
    BY <2>1
  <2> QED
    BY <1>4, <2>1, <2>2, <2>3, <2>4
<1> QED
  BY <1>5, <1>6

LEMMA AuditKept == AuditInv /\ [Next]_vars => AuditInv'
<1> SUFFICES ASSUME AuditInv, [Next]_vars PROVE AuditInv'
  OBVIOUS
<1>1. TypeInv'
  BY TypeKept DEF AuditInv
<1>2. ASSUME NEW c \in Callers, Step(c) PROVE AuditInv'
  BY <1>1, <1>2, EventKept, AuditedKept DEF AuditInv
<1>3. CASE OtherRow
  <2>1. PICK n \in DOMAIN stamped : Close(n) /\ Overtake(n)
    BY <1>3 DEF OtherRow
  <2>2. stamped \in Seq(Callers) /\ n \in 0..Len(stamped)
    BY DEF AuditInv, TypeInv, TypeOK
  <2>3. overtaken' = overtaken \cup {call[stamped[k]].to : k \in 1..n}
    BY <2>1 DEF Overtake
  <2>4. \A d \in Range(stamped) : d \in Range(stamped') \/ call[d].to \in overtaken'
    <3> SUFFICES ASSUME NEW d \in Range(stamped)
                 PROVE  d \in Range(stamped') \/ call[d].to \in overtaken'
      OBVIOUS
    <3>1. d \in Range(SubSeq(stamped, n + 1, Len(stamped))) \/ \E k \in 1..n : stamped[k] = d
      BY <2>2, CloseRange, Zenon
    <3>2. ASSUME NEW k \in 1..n, stamped[k] = d PROVE call[d].to \in overtaken'
      BY <2>3, <3>2
    <3> QED
      BY <2>1, <3>1, <3>2 DEF Close
  <2>5. call' = call /\ wire' = wire /\ audit' = audit /\ errors' = errors
    BY <1>3 DEF OtherRow
  <2>6. EventInv'
    BY <2>3, <2>4, <2>5 DEF AuditInv, EventInv
  <2>7. SentIsAudited'
    BY <2>3, <2>5 DEF AuditInv, SentIsAudited
  <2> QED
    BY <1>1, <2>6, <2>7 DEF AuditInv
<1>4. CASE UNCHANGED <<call, wire, auditVars, errors>>
  BY <1>1, <1>4, Zenon DEF auditVars, AuditInv, EventInv, SentIsAudited
<1> QED
  BY <1>2, <1>3, <1>4, Zenon DEF Next, vars, Tick, Regrant, Block, Sweep

\* While no call to the log fails, every message that left is named by an audit
\* row, or its call has still to write it, or a row with a later TS came first:
\* no interleaving of calls loses a row in any other way.
THEOREM SentIsAuditedHolds == Spec => []SentIsAudited
<1>1. Init => AuditInv
  <2>1. Init => TypeInv
    BY TypeInit
  <2> QED
    BY <2>1 DEF Init, AuditInv, EventInv, SentIsAudited
<1>2. AuditInv => SentIsAudited
  BY DEF AuditInv
<1> QED
  BY <1>1, <1>2, AuditKept, PTL DEF Spec

-----------------------------------------------------------------------------
(* The limiter *)

\* The tokens taken in the ticks from t to u that have become a message, or
\* still may.
Left(t, u) == {i \in DOMAIN wire : wire[i].granted \in t..u}
Granted(t, u) ==
    {c \in Callers : /\ call[c] # Idle /\ call[c].pc \in {"probe", "block", "send"}
                     /\ call[c].granted \in t..u}
Taken(t, u) == Cardinality(Left(t, u)) + Cardinality(Granted(t, u))

\* A bucket: over a span that has ended the tokens taken, over one that lasts
\* those and the ones in the bucket, are within the burst and the refills.
BucketInv(tokens, burst, refill) ==
    \A t \in Times, u \in Times : t <= u /\ u <= now =>
        Taken(t, u) + (IF u = now THEN tokens ELSE 0) <= burst + refill * (u - t)

\* No token is from the future.
GrantInv ==
    /\ \A c \in Callers : call[c] # Idle => call[c].granted <= now
    /\ \A i \in DOMAIN wire : wire[i].granted <= now

RateInv ==
    /\ TypeInv /\ GrantInv
    /\ BucketInv(second, SecondBurst, SecondRefill)
    /\ BucketInv(minute, MinuteBurst, MinuteRefill)

LEMMA CountsAreFinite ==
  ASSUME TypeInv, NEW t, NEW u
  PROVE  /\ IsFiniteSet(Left(t, u)) /\ Cardinality(Left(t, u)) \in Nat
         /\ IsFiniteSet(Granted(t, u)) /\ Cardinality(Granted(t, u)) \in Nat
<1>1. wire \in Seq(Messages)
  BY Zenon DEF TypeInv, TypeOK
<1>2. IsFiniteSet(DOMAIN wire) /\ IsFiniteSet(Callers)
  BY <1>1, FS_Interval, SendPathAssumption DEF SendPathAssumption
<1>3. Left(t, u) \subseteq DOMAIN wire /\ Granted(t, u) \subseteq Callers
  BY DEF Left, Granted
<1> QED
  BY <1>2, <1>3, FS_Subset, FS_CardinalityType

\* What a step does to the record that holds a token.
LEMMA TokenMoves ==
  ASSUME TypeInv, NEW c \in Callers, Step(c), call'[c] # Idle,
         call'[c].pc \in {"probe", "block", "send"}
  PROVE  \/ /\ call[c] # Idle /\ call[c].pc \in {"probe", "block", "send"} /\ ~Send(c)
            /\ call'[c].granted = call[c].granted
         \/ /\ call[c] # Idle /\ call[c].pc = "safety" /\ Safety(c)
            /\ second' = second - 1 /\ minute' = minute - 1
            /\ call'[c].granted = now
<1>1. /\ Ends(c) => call'[c] = Idle
      /\ \A s : Becomes(c, s) => call'[c] = s
      /\ call[c] # Idle => Waiting(c)
      /\ call[c] = Idle => HandleSend(c)
      /\ call \in [Callers -> Busy \cup {Idle}]
  BY StepFacts, Zenon DEF TypeInv, TypeOK
<1>2. CASE call[c] = Idle
  BY <1>1, <1>2, HandleSendEffect, SendPathAssumption
<1>3. CASE call[c] # Idle
  <2> USE DEF SameTimes
  <2>1. Waiting(c)
    BY <1>1, <1>3
  <2>2. CASE HangUp(c)
    <3>1. wire' = wire /\ call'[c].pc = call[c].pc /\ call'[c].granted = call[c].granted
      BY <1>1, <2>1, <2>2, HangUpEffect DEF HangUp
    <3>2. ~Send(c)
      <4>1. stamped' = stamped
        BY <2>2 DEF HangUp, auditVars
      <4>2. stamped \in Seq(Callers)
        BY Zenon DEF TypeInv, TypeOK
      <4> QED
        BY <4>1, <4>2 DEF Send
    <3> QED
      BY <1>3, <3>1, <3>2
  <2>3. CASE Lookup(c)
    BY <1>1, <2>1, <2>3, LookupEffect
  <2>4. CASE Safety(c)
    BY <1>1, <1>3, <2>1, <2>4, SafetyEffect
  <2>5. CASE Probe(c)
    <3>1. call[c].pc = "probe" /\ ~Send(c)
      BY <2>5 DEF Probe, Send
    <3> QED
      BY <1>1, <1>3, <2>1, <2>5, <3>1, ProbeEffect, SendPathAssumption
  <2>6. CASE NotBlocked(c)
    <3>1. call[c].pc = "block" /\ ~Send(c)
      BY <2>6 DEF NotBlocked, Send
    <3> QED
      BY <1>1, <1>3, <2>1, <2>6, <3>1, NotBlockedEffect
  <2>7. CASE Humanize(c) \/ Record(c)
    BY <1>1, <2>7 DEF Humanize, Record, Return, Ends
  <2>8. CASE Send(c)
    BY <1>1, <2>1, <2>8, SendEffect
  <2>9. CASE RecordAudit(c)
    BY <1>1, <2>1, <2>9, RecordAuditEffect
  <2> QED
    BY <1>3, <2>2, <2>3, <2>4, <2>5, <2>6, <2>7, <2>8, <2>9, Zenon DEF Step, HandleSend
<1> QED
  BY <1>2, <1>3

\* A step takes one token more, now, or none.
LEMMA TakenBound ==
  ASSUME TypeInv, NEW c \in Callers, Step(c), NEW t \in Times, NEW u \in Times
  PROVE  /\ Taken(t, u) \in Nat /\ Taken(t, u)' \in Nat
         /\ \/ Taken(t, u)' <= Taken(t, u)
            \/ /\ Taken(t, u)' = Taken(t, u) + 1 /\ now \in t..u
               /\ second' = second - 1 /\ minute' = minute - 1
<1>1. /\ \A d \in Callers \ {c} : call'[d] = call[d]
      /\ \A s : Becomes(c, s) => call'[c] = s
  BY StepFacts, Zenon DEF TypeInv
<1>2. /\ IsFiniteSet(Left(t, u)) /\ Cardinality(Left(t, u)) \in Nat
      /\ IsFiniteSet(Granted(t, u)) /\ Cardinality(Granted(t, u)) \in Nat
  BY CountsAreFinite
<1>3. Granted(t, u)' \subseteq Granted(t, u) \cup {c}
  BY <1>1 DEF Granted
<1>4. CASE wire' = wire
  <2>1. Left(t, u)' = Left(t, u)
    BY <1>4 DEF Left
  <2>2. CASE Granted(t, u)' \subseteq Granted(t, u)
    <3>1. Cardinality(Granted(t, u)') <= Cardinality(Granted(t, u))
      BY <1>2, <2>2, FS_Subset
    <3>2. Cardinality(Granted(t, u)') \in Nat
      BY <1>2, <2>2, FS_Subset, FS_CardinalityType
    <3> QED
      BY <1>2, <2>1, <3>1, <3>2 DEF Taken
  <2>3. CASE ~(Granted(t, u)' \subseteq Granted(t, u))
    <3>1. c \in Granted(t, u)' /\ c \notin Granted(t, u)
      BY <1>3, <2>3
    <3>2. /\ call'[c] # Idle /\ call'[c].pc \in {"probe", "block", "send"}
          /\ call'[c].granted \in t..u
      BY <3>1 DEF Granted
    <3>3. now \in t..u /\ second' = second - 1 /\ minute' = minute - 1
      BY <3>1, <3>2, TokenMoves DEF Granted
    <3>4. Granted(t, u)' = Granted(t, u) \cup {c}
      BY <1>1, <1>3, <3>1 DEF Granted
    <3>5. Cardinality(Granted(t, u)') = Cardinality(Granted(t, u)) + 1
      BY <1>2, <3>1, <3>4, FS_AddElement
    <3> QED
      BY <1>2, <2>1, <3>3, <3>5 DEF Taken
  <2> QED
    BY <2>2, <2>3
<1>5. CASE wire' # wire
  <2>1. /\ Send(c) /\ Waiting(c) /\ call[c] # Idle /\ call[c].pc = "send"
        /\ DOMAIN wire' = 1..(Len(wire) + 1) /\ DOMAIN wire = 1..Len(wire) /\ Len(wire) \in Nat
        /\ \A i \in 1..Len(wire) : wire'[i] = wire[i]
        /\ wire'[Len(wire) + 1] = Message(c)
    BY <1>5, WireGrows
  <2>2. Message(c).granted = call[c].granted
    BY DEF Message
  <2>3. call'[c].pc = "sent"
    BY <1>1, <2>1, SendEffect
  <2>4. Granted(t, u)' = Granted(t, u) \ {c}
    BY <1>1, <2>3 DEF Granted
  <2>5. CASE call[c].granted \in t..u
    <3>1. c \in Granted(t, u)
      BY <2>1, <2>5 DEF Granted
    <3>2. /\ Cardinality(Granted(t, u)') = Cardinality(Granted(t, u)) - 1
          /\ Cardinality(Granted(t, u)') \in Nat
      BY <1>2, <2>4, <3>1, FS_RemoveElement, FS_CardinalityType
    <3>3. Left(t, u)' = Left(t, u) \cup {Len(wire) + 1} /\ Len(wire) + 1 \notin Left(t, u)
      BY <2>1, <2>2, <2>5 DEF Left
    <3>4. Cardinality(Left(t, u)') = Cardinality(Left(t, u)) + 1
      BY <1>2, <3>3, FS_AddElement
    <3> QED
      BY <1>2, <3>2, <3>4 DEF Taken
  <2>6. CASE call[c].granted \notin t..u
    <3>1. Granted(t, u)' = Granted(t, u)
      BY <2>4, <2>6 DEF Granted
    <3>2. Left(t, u)' = Left(t, u)
      BY <2>1, <2>2, <2>6 DEF Left
    <3> QED
      BY <1>2, <3>1, <3>2 DEF Taken
  <2> QED
    BY <2>5, <2>6
<1> QED
  BY <1>4, <1>5

LEMMA GrantKept ==
  ASSUME TypeInv, GrantInv, [Next]_vars
  PROVE  GrantInv'
<1>1. now \in Nat /\ now' \in Nat /\ now <= now'
  <2>1. now' \in {now, now + 1} /\ now \in Times
    BY Zenon DEF TypeInv, TypeOK, Next, vars, Tick, Regrant, Block, Sweep, OtherRow, Step,
                 HandleSend, HangUp, Lookup, Safety, Probe, NotBlocked, Humanize, Send,
                 RecordAudit, Record
  <2> QED
    BY <2>1, SendPathAssumption DEF SendPathAssumption, Times
<1>2. /\ \A d \in Callers : call[d] # Idle => call[d].granted \in Nat
      /\ \A i \in DOMAIN wire : wire[i].granted \in Nat
  BY CallFields, WireFields
<1>3. CASE call' = call /\ wire' = wire
  BY <1>1, <1>2, <1>3 DEF GrantInv
<1>4. ASSUME NEW c \in Callers, Step(c) PROVE GrantInv'
  <2>1. /\ \A d \in Callers \ {c} : call'[d] = call[d]
        /\ Ends(c) => call'[c] = Idle
        /\ \A s : Becomes(c, s) => call'[c] = s
        /\ call[c] # Idle => Waiting(c)
        /\ call[c] = Idle => HandleSend(c)
        /\ call \in [Callers -> Busy \cup {Idle}]
    BY <1>4, StepFacts, Zenon DEF TypeInv, TypeOK
  <2>2. CASE call[c] = Idle
    <3>1. call'[c].granted = 0
      BY <2>1, <2>2, HandleSendEffect, SendPathAssumption
    <3>2. wire' = wire
      BY <2>1, <2>2 DEF HandleSend
    <3> QED
      BY <1>1, <1>2, <2>1, <3>1, <3>2 DEF GrantInv
  <2>3. CASE call[c] # Idle
    <3>1. Waiting(c) /\ call[c].granted <= now
      BY <2>1, <2>3 DEF GrantInv
    <3>2. call'[c] # Idle => call'[c].granted \in {call[c].granted, now}
      <4> USE DEF SameTimes
      <4>1. CASE HangUp(c)
        BY <2>1, <3>1, <4>1, HangUpEffect
      <4>2. CASE Lookup(c)
        BY <2>1, <3>1, <4>2, LookupEffect
      <4>3. CASE Safety(c)
        BY <2>1, <3>1, <4>3, SafetyEffect
      <4>4. CASE Probe(c)
        BY <2>1, <3>1, <4>4, ProbeEffect, SendPathAssumption
      <4>5. CASE NotBlocked(c)
        BY <2>1, <3>1, <4>5, NotBlockedEffect
      <4>6. CASE Humanize(c) \/ Record(c)
        BY <2>1, <4>6 DEF Humanize, Record, Return, Ends
      <4>7. CASE Send(c)
        BY <2>1, <3>1, <4>7, SendEffect
      <4>8. CASE RecordAudit(c)
        BY <2>1, <3>1, <4>8, RecordAuditEffect
      <4> QED
        BY <1>4, <2>3, <4>1, <4>2, <4>3, <4>4, <4>5, <4>6, <4>7, <4>8, Zenon DEF Step, HandleSend
    <3>3. \A i \in DOMAIN wire' : wire'[i].granted <= now
      <4>1. CASE wire' = wire
        BY <4>1 DEF GrantInv
      <4>2. CASE wire' # wire
        <5>1. Message(c).granted = call[c].granted
          BY DEF Message
        <5> QED
          BY <1>4, <3>1, <4>2, <5>1, WireGrows DEF GrantInv
      <4> QED
        BY <4>1, <4>2
    <3>4. now' = now
      BY <1>4 DEF Step, HandleSend, HangUp, Lookup, Safety, Probe, NotBlocked, Humanize, Send,
                  RecordAudit, Record
    <3> QED
      BY <1>1, <1>2, <2>1, <3>1, <3>2, <3>3, <3>4 DEF GrantInv
  <2> QED
    BY <2>2, <2>3
<1> QED
  BY <1>3, <1>4, Zenon DEF Next, vars, Tick, Regrant, Block, Sweep, OtherRow

\* A step of a call takes a token out of the bucket for every one it holds.
LEMMA BucketStep ==
  ASSUME TypeInv, TypeInv', NEW c \in Callers, Step(c),
         BucketInv(second, SecondBurst, SecondRefill),
         BucketInv(minute, MinuteBurst, MinuteRefill)
  PROVE  /\ BucketInv(second, SecondBurst, SecondRefill)'
         /\ BucketInv(minute, MinuteBurst, MinuteRefill)'
<1>1. now' = now /\ now \in Nat /\ Times \subseteq Nat
  <2>1. now' = now /\ now \in Times
    BY Zenon DEF TypeInv, TypeOK, Step, HandleSend, HangUp, Lookup, Safety, Probe, NotBlocked,
                 Humanize, Send, RecordAudit, Record
  <2> QED
    BY <2>1, SendPathAssumption DEF SendPathAssumption, Times
<1>2. /\ second \in Nat /\ minute \in Nat /\ second' \in Nat /\ minute' \in Nat
      /\ SecondBurst \in Nat /\ MinuteBurst \in Nat /\ SecondRefill \in Nat /\ MinuteRefill \in Nat
  BY SendPathAssumption DEF SendPathAssumption, TypeInv, TypeOK
<1>3. second' <= second /\ minute' <= minute
  <2>1. second' \in {second, second - 1} /\ minute' \in {minute, minute - 1}
    BY Zenon DEF Step, HandleSend, HangUp, Lookup, Safety, Probe, NotBlocked, Humanize, Send,
           RecordAudit, Record
  <2> QED
    BY <1>2, <2>1
<1>4. ASSUME NEW t \in Times, NEW u \in Times, t <= u, u <= now
      PROVE  /\ Taken(t, u)' + (IF u = now THEN second' ELSE 0)
                    <= SecondBurst + SecondRefill * (u - t)
             /\ Taken(t, u)' + (IF u = now THEN minute' ELSE 0)
                    <= MinuteBurst + MinuteRefill * (u - t)
  <2>1. Taken(t, u) \in Nat /\ Taken(t, u)' \in Nat
    BY TakenBound
  <2>2. /\ Taken(t, u) + (IF u = now THEN second ELSE 0) <= SecondBurst + SecondRefill * (u - t)
        /\ Taken(t, u) + (IF u = now THEN minute ELSE 0) <= MinuteBurst + MinuteRefill * (u - t)
    BY <1>4 DEF BucketInv
  <2>3. SecondRefill * (u - t) \in Int /\ MinuteRefill * (u - t) \in Int
    BY <1>1, <1>2
  <2>4. \/ Taken(t, u)' <= Taken(t, u)
        \/ /\ Taken(t, u)' = Taken(t, u) + 1 /\ u = now
           /\ second' = second - 1 /\ minute' = minute - 1
    BY <1>1, <1>4, TakenBound
  <2> QED
    BY <1>1, <1>2, <1>3, <2>1, <2>2, <2>3, <2>4
<1> QED
  BY <1>1, <1>4 DEF BucketInv

LEMMA TickSpan ==
  ASSUME TypeInv, GrantInv, NEW t \in Times, NEW u \in Times, u > now
  PROVE  IF t <= now THEN Left(t, u) = Left(t, now) /\ Granted(t, u) = Granted(t, now)
         ELSE Left(t, u) = {} /\ Granted(t, u) = {}
<1>1. /\ \A d \in Callers : call[d] # Idle => call[d].granted \in Nat
      /\ \A i \in DOMAIN wire : wire[i].granted \in Nat
  BY CallFields, WireFields
<1>2. now \in Nat /\ t \in Nat /\ u \in Nat
  BY SendPathAssumption DEF SendPathAssumption, TypeInv, TypeOK, Times
<1> QED
  BY <1>1, <1>2 DEF GrantInv, Left, Granted

\* A tick adds at most the refill, up to the burst.
LEMMA BucketTick ==
  ASSUME RateInv, TypeInv', Tick
  PROVE  /\ BucketInv(second, SecondBurst, SecondRefill)'
         /\ BucketInv(minute, MinuteBurst, MinuteRefill)'
<1> USE DEF RateInv
<1>1. now' = now + 1 /\ now \in Nat /\ Times \subseteq Nat /\ now \in Times
  BY SendPathAssumption DEF SendPathAssumption, TypeInv, TypeOK, Times, Tick
<1>2. /\ second \in Nat /\ minute \in Nat /\ second' \in Nat /\ minute' \in Nat
      /\ SecondBurst \in Nat /\ MinuteBurst \in Nat /\ SecondRefill \in Nat /\ MinuteRefill \in Nat
  BY SendPathAssumption DEF SendPathAssumption, TypeInv, TypeOK
<1>3. /\ second' <= second + SecondRefill /\ second' <= SecondBurst
      /\ minute' <= minute + MinuteRefill /\ minute' <= MinuteBurst
  BY <1>2 DEF Tick, Refill, Least
<1>4. ASSUME NEW t \in Times, NEW u \in Times, t <= u, u <= now + 1
      PROVE  /\ Taken(t, u)' + (IF u = now + 1 THEN second' ELSE 0)
                    <= SecondBurst + SecondRefill * (u - t)
             /\ Taken(t, u)' + (IF u = now + 1 THEN minute' ELSE 0)
                    <= MinuteBurst + MinuteRefill * (u - t)
  <2>1. Taken(t, u)' = Taken(t, u) /\ Taken(t, u) \in Nat /\ Taken(t, now) \in Nat
    <3>1. call' = call /\ wire' = wire
      BY DEF Tick
    <3>2. Taken(t, u)' = Taken(t, u)
      BY <3>1 DEF Taken, Left, Granted
    <3> QED
      BY <3>2, CountsAreFinite DEF Taken
  <2>2. t \in Nat /\ u \in Nat
    BY <1>1
  <2>3. CASE u <= now
    <3>1. /\ Taken(t, u) + (IF u = now THEN second ELSE 0) <= SecondBurst + SecondRefill * (u - t)
          /\ Taken(t, u) + (IF u = now THEN minute ELSE 0) <= MinuteBurst + MinuteRefill * (u - t)
      BY <1>4, <2>3 DEF BucketInv
    <3>2. SecondRefill * (u - t) \in Int /\ MinuteRefill * (u - t) \in Int
      BY <1>2, <2>2
    <3> QED
      BY <1>1, <1>2, <2>1, <2>2, <2>3, <3>1, <3>2
  <2>4. CASE u = now + 1 /\ t <= now
    <3>1. Taken(t, u) = Taken(t, now)
      BY <1>1, <2>2, <2>4, TickSpan DEF Taken
    <3>2. /\ Taken(t, now) + second <= SecondBurst + SecondRefill * (now - t)
          /\ Taken(t, now) + minute <= MinuteBurst + MinuteRefill * (now - t)
      BY <1>1, <2>4 DEF BucketInv
    <3>3. /\ SecondRefill * (u - t) = SecondRefill * (now - t) + SecondRefill
          /\ MinuteRefill * (u - t) = MinuteRefill * (now - t) + MinuteRefill
          /\ SecondRefill * (now - t) \in Int /\ MinuteRefill * (now - t) \in Int
      BY <1>1, <1>2, <2>2, <2>4
    <3> QED
      BY <1>2, <1>3, <2>1, <2>4, <3>1, <3>2, <3>3
  <2>5. CASE u = now + 1 /\ t = now + 1
    <3>1. Taken(t, u) = 0
      <4>1. Left(t, u) = {} /\ Granted(t, u) = {}
        BY <1>1, <2>2, <2>5, TickSpan
      <4> QED
        BY <4>1, FS_EmptySet DEF Taken
    <3>2. SecondRefill * (u - t) = 0 /\ MinuteRefill * (u - t) = 0
      BY <1>1, <1>2, <2>5
    <3> QED
      BY <1>2, <1>3, <2>1, <2>5, <3>1, <3>2
  <2> QED
    BY <1>1, <1>4, <2>2, <2>3, <2>4, <2>5
<1> QED
  BY <1>1, <1>4 DEF BucketInv

LEMMA RateKept == RateInv /\ [Next]_vars => RateInv'
<1> SUFFICES ASSUME RateInv, [Next]_vars PROVE RateInv'
  OBVIOUS
<1>1. TypeInv' /\ GrantInv'
  BY TypeKept, GrantKept DEF RateInv
<1>2. ASSUME NEW c \in Callers, Step(c) PROVE RateInv'
  BY <1>1, <1>2, BucketStep DEF RateInv
<1>3. CASE Tick
  BY <1>1, <1>3, BucketTick DEF RateInv
<1>4. CASE UNCHANGED <<call, wire, now, second, minute>>
  BY <1>1, <1>4, Zenon DEF RateInv, BucketInv, Taken, Left, Granted
<1> QED
  BY <1>2, <1>3, <1>4, Zenon DEF Next, vars, Regrant, Block, Sweep, OtherRow

LEMMA RateInitOK == Init => RateInv
<1> SUFFICES ASSUME Init PROVE RateInv
  OBVIOUS
<1>1. TypeInv /\ GrantInv
  BY TypeInit DEF Init, GrantInv
<1>2. \A t, u : Taken(t, u) = 0
  BY FS_EmptySet DEF Init, Taken, Left, Granted
<1>3. ASSUME NEW t \in Times, NEW u \in Times, t <= u, u <= now
      PROVE  /\ Taken(t, u) + (IF u = now THEN second ELSE 0) <= SecondBurst + SecondRefill * (u - t)
             /\ Taken(t, u) + (IF u = now THEN minute ELSE 0) <= MinuteBurst + MinuteRefill * (u - t)
  <2>1. t = 0 /\ u = 0 /\ now = 0 /\ second = SecondBurst /\ minute = MinuteBurst
    BY <1>3, SendPathAssumption DEF SendPathAssumption, Times, Init
  <2> QED
    BY <1>2, <2>1, SendPathAssumption DEF SendPathAssumption
<1> QED
  BY <1>1, <1>3 DEF RateInv, BucketInv

\* Over no span of ticks do more messages leave than the bursts of the two
\* buckets and the refills of that span, however many calls race for the tokens.
THEOREM RateHoldsHolds == Spec => []RateHolds
<1>1. RateInv => RateHolds
  <2> SUFFICES ASSUME RateInv, NEW t \in Times, NEW u \in Times, t <= u
               PROVE  /\ Cardinality(Left(t, u)) <= SecondBurst + SecondRefill * (u - t)
                      /\ Cardinality(Left(t, u)) <= MinuteBurst + MinuteRefill * (u - t)
    BY DEF RateHolds, Left
  <2> USE DEF RateInv
  <2>1. /\ now \in Nat /\ now \in Times /\ t \in Nat /\ u \in Nat /\ second \in Nat /\ minute \in Nat
        /\ SecondBurst \in Nat /\ MinuteBurst \in Nat /\ SecondRefill \in Nat /\ MinuteRefill \in Nat
    BY SendPathAssumption DEF SendPathAssumption, TypeInv, TypeOK, Times
  <2>2. \A v \in Times : /\ Cardinality(Left(t, v)) \in Nat /\ Taken(t, v) \in Nat
                         /\ Cardinality(Left(t, v)) <= Taken(t, v)
    BY CountsAreFinite DEF Taken
  <2>3. ASSUME NEW v \in Times, t <= v, v <= now
        PROVE  /\ Cardinality(Left(t, v)) <= SecondBurst + SecondRefill * (v - t)
               /\ Cardinality(Left(t, v)) <= MinuteBurst + MinuteRefill * (v - t)
    <3>1. /\ Taken(t, v) + (IF v = now THEN second ELSE 0) <= SecondBurst + SecondRefill * (v - t)
          /\ Taken(t, v) + (IF v = now THEN minute ELSE 0) <= MinuteBurst + MinuteRefill * (v - t)
      BY <2>3 DEF BucketInv
    <3>2. v \in Nat /\ SecondRefill * (v - t) \in Int /\ MinuteRefill * (v - t) \in Int
      BY <2>1, SendPathAssumption DEF SendPathAssumption, Times
    <3> QED
      BY <2>1, <2>2, <3>1, <3>2
  <2>4. CASE u <= now
    BY <2>3, <2>4
  <2>5. CASE u > now /\ t <= now
    <3>1. Left(t, u) = Left(t, now)
      BY <2>5, TickSpan
    <3>2. /\ SecondRefill * (now - t) <= SecondRefill * (u - t)
          /\ MinuteRefill * (now - t) <= MinuteRefill * (u - t)
          /\ SecondRefill * (u - t) \in Int /\ MinuteRefill * (u - t) \in Int
          /\ SecondRefill * (now - t) \in Int /\ MinuteRefill * (now - t) \in Int
      BY <2>1, <2>5
    <3> QED
      BY <2>1, <2>2, <2>3, <2>5, <3>1, <3>2
  <2>6. CASE u > now /\ t > now
    <3>1. Cardinality(Left(t, u)) = 0
      BY <2>1, <2>6, TickSpan, FS_EmptySet
    <3>2. SecondRefill * (u - t) \in Nat /\ MinuteRefill * (u - t) \in Nat
      BY <2>1
    <3> QED
      BY <2>1, <3>1, <3>2
  <2> QED
    BY <2>1, <2>4, <2>5, <2>6
<1> QED
  BY <1>1, RateInitOK, RateKept, PTL DEF Spec
=============================================================================
