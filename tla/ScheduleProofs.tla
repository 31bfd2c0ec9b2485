--------------------------- MODULE ScheduleProofs ---------------------------
(* What Schedule guarantees for any number of schedules, timers, calls,     *)
(* lives and I/O errors.                                                    *)
EXTENDS Schedule, TLAPS

-----------------------------------------------------------------------------
(* Records *)

\* A slot that is not idle belongs to a schedule; a call too.
LEMMA BusySlots ==
    ASSUME NEW x \in Slot, x.pc # "idle"
    PROVE  /\ x \in BusySlot
           /\ x.id \in Ids /\ x.at \in Times
           /\ x.pc = "persist" => x.out \in {"fired", "failed"}
  BY DEF Slot, BusySlot, IdleSlot

LEMMA BusyCalls ==
    ASSUME NEW x \in Call, x.pc # "idle"
    PROVE  x \in BusyCall /\ x.id \in Ids /\ x.fireAt \in Times
  BY DEF Call, BusyCall, IdleCall

\* A fire has an outcome exactly when it comes to store it.
Outcome(pc, out) ==
    \/ pc \in {"armed", "expired", "get", "check", "act"} /\ out = "none"
    \/ pc = "persist" /\ out \in {"fired", "failed"}

LEMMA SlotRecord ==
    ASSUME NEW pc, NEW id \in Ids, NEW at \in Times, NEW out,
           Outcome(pc, out)
    PROVE  [pc |-> pc, id |-> id, at |-> at, out |-> out] \in Slot
  BY DEF Slot, BusySlot, Outcome

LEMMA CallRecord ==
    ASSUME NEW pc \in {"cancelPut", "cancelTimer", "updatePut", "arm"},
           NEW id \in Ids, NEW f \in Times
    PROVE  [pc |-> pc, id |-> id, fireAt |-> f] \in Call
  BY DEF Call, BusyCall

LEMMA RowRecord ==
    ASSUME NEW st \in {"absent", "pending"} \cup Terminal, NEW f \in Times
    PROVE  [state |-> st, fireAt |-> f] \in Row
  BY DEF Row

LEMMA IdleTypes == IdleSlot \in Slot /\ IdleCall \in Call
  BY DEF Slot, Call

LEMMA BecomeType ==
    ASSUME TypeOK, NEW s \in Slots, slot[s].pc # "idle",
           NEW pc, NEW at \in Times, NEW out, Outcome(pc, out),
           Become(s, pc, at, out)
    PROVE  slot' \in [Slots -> Slot]
<1>1. slot[s] \in Slot
  BY DEF TypeOK
<1>2. slot[s].id \in Ids
  BY <1>1, BusySlots
<1>3. [pc |-> pc, id |-> slot[s].id, at |-> at, out |-> out] \in Slot
  BY <1>2, SlotRecord
<1>4. QED
  BY <1>3 DEF TypeOK, Become

LEMMA FinishType ==
    ASSUME TypeOK, NEW s \in Slots, Finish(s)
    PROVE  slot' \in [Slots -> Slot]
  BY IdleTypes DEF TypeOK, Finish

LEMMA ArmType ==
    ASSUME TypeOK, NEW id \in Ids, NEW f \in Times, Arm(id, f)
    PROVE  /\ timers' \in [Ids -> Slots \cup {NoSlot}]
           /\ slot' \in [Slots -> Slot]
<1>1. CASE stopped
  BY <1>1 DEF Arm, TypeOK, runnerVars
<1>2. CASE ~stopped
  <2>1. PICK s \in Slots :
          /\ timers' = [timers EXCEPT ![id] = s]
          /\ slot' = [StopTimer(id) EXCEPT
                        ![s] = [pc |-> "armed", id |-> id,
                                at |-> ExpiryOf(f), out |-> "none"]]
    BY <1>2 DEF Arm
  <2>2. ExpiryOf(f) \in Times
    BY DEF ExpiryOf, TypeOK
  <2>3. [pc |-> "armed", id |-> id, at |-> ExpiryOf(f), out |-> "none"] \in Slot
    BY <2>2, SlotRecord DEF Outcome
  <2>4. StopTimer(id) \in [Slots -> Slot]
    BY IdleTypes DEF StopTimer, TypeOK
  <2>5. QED
    BY <2>1, <2>3, <2>4 DEF TypeOK
<1>3. QED
  BY <1>1, <1>2

-----------------------------------------------------------------------------
(* Type correctness *)

LEMMA FireStepType ==
    ASSUME TypeOK, NEW s \in Slots, Expire(s) \/ Callback(s) \/ Fire(s)
    PROVE  TypeOK'
<1> USE BoundsAssumption
<1>0. 0 \in Times
  BY DEF Times
<1>1. CASE Expire(s)
  <2>1. slot' \in [Slots -> Slot]
    BY <1>0, <1>1, BecomeType DEF Expire, Outcome
  <2>2. QED
    BY <1>1, <2>1 DEF Expire, TypeOK, envVars
<1>2. CASE Callback(s)
  <2>1. slot' \in [Slots -> Slot]
    BY <1>0, <1>2, BecomeType, FinishType DEF Callback, Finish, Outcome
  <2>2. timers' \in [Ids -> Slots \cup {NoSlot}]
    BY <1>2 DEF Callback, TypeOK, DropEntry
  <2>3. QED
    BY <1>2, <2>1, <2>2 DEF Callback, TypeOK, envVars
<1>3. CASE FireGet(s)
  <2>1. slot[s].id \in Ids
    BY <1>3, BusySlots DEF FireGet, TypeOK
  <2>2. row[slot[s].id].fireAt \in Times
    BY <2>1 DEF TypeOK, Row
  <2>3. slot' \in [Slots -> Slot]
    BY <1>3, <2>2, BecomeType, FinishType DEF FireGet, Outcome
  <2>4. errors' \in 0..MaxErrors
    BY <1>3 DEF FireGet, IOError, TypeOK
  <2>5. QED
    BY <1>3, <2>3, <2>4 DEF FireGet, TypeOK
<1>4. CASE FireCheck(s)
  <2>1. slot[s].at \in Times
    BY <1>4, BusySlots DEF FireCheck, TypeOK
  <2>2. slot' \in [Slots -> Slot]
    BY <1>4, <2>1, BecomeType DEF FireCheck, Outcome
  <2>3. QED
    BY <1>4, <2>2 DEF FireCheck, TypeOK, envVars
<1>5. CASE FireAct(s)
  <2>1. slot[s].at \in Times /\ slot[s].id \in Ids
    BY <1>5, BusySlots DEF FireAct, TypeOK
  <2>2. slot' \in [Slots -> Slot]
    BY <1>5, <2>1, BecomeType DEF FireAct, Outcome
  <2>3. effects' \in [Ids -> [1..MaxLives -> Nat]]
    <3>1. Counted(slot[s].id) \in [Ids -> [1..MaxLives -> Nat]]
      <4>1. effects[slot[s].id] \in [1..MaxLives -> Nat]
        BY <2>1 DEF TypeOK
      <4>2. [effects[slot[s].id] EXCEPT ![life] = effects[slot[s].id][life] + 1]
              \in [1..MaxLives -> Nat]
        <5> DEFINE f == effects[slot[s].id]
        <5>1. f \in [1..MaxLives -> Nat]
          BY <4>1
        <5> HIDE DEF f
        <5>2. life \in 1..MaxLives => f[life] \in Nat
          BY <5>1
        <5> DEFINE g == f[life] + 1
        <5>3. life \in 1..MaxLives => g \in Nat
          BY <5>2
        <5> HIDE DEF g
        <5>4. [f EXCEPT ![life] = g] \in [1..MaxLives -> Nat]
          BY <5>1, <5>3
        <5>5. QED
          BY <5>4 DEF f, g
      <4>3. QED
        BY <2>1, <4>2 DEF Counted, TypeOK
    <3>2. QED
      BY <1>5, <3>1 DEF FireAct, TypeOK
  <2>4. QED
    BY <1>5, <2>2, <2>3 DEF FireAct, TypeOK, envVars
<1>6. CASE FirePersist(s)
  <2>1. slot' \in [Slots -> Slot]
    BY <1>6, FinishType DEF FirePersist
  <2>2. row' \in [Ids -> Row]
    <3>1. slot[s].at \in Times /\ slot[s].out \in {"fired", "failed"}
      BY <1>6, BusySlots DEF FirePersist, TypeOK
    <3>2. QED
      BY <1>6, <3>1, RowRecord DEF FirePersist, TypeOK, StateFor, Terminal
  <2>3. errors' \in 0..MaxErrors
    BY <1>6 DEF FirePersist, IOError, TypeOK
  <2>4. QED
    BY <1>6, <2>1, <2>2, <2>3 DEF FirePersist, TypeOK
<1>7. QED
  BY <1>1, <1>2, <1>3, <1>4, <1>5, <1>6 DEF Fire

LEMMA HandlerType ==
    ASSUME TypeOK, NEW c \in Callers, Handler(c)
    PROVE  TypeOK'
<1>1. ASSUME NEW id \in Ids, NEW f \in Times, SendPut(c, id, f)
      PROVE  TypeOK'
  BY <1>1, CallRecord, RowRecord DEF SendPut, TypeOK, envVars
<1>2. ASSUME NEW id \in Ids, NEW f \in Times, SendRefused(c, id, f)
      PROVE  TypeOK'
  BY <1>2 DEF SendRefused, TypeOK, vars
<1>3. ASSUME NEW id \in Ids, NEW f \in Times, UpdateGet(c, id, f)
      PROVE  TypeOK'
  BY <1>3, CallRecord DEF UpdateGet, TypeOK, envVars
<1>4. ASSUME NEW id \in Ids, CancelGet(c, id) PROVE TypeOK'
  <2>1. row[id].fireAt \in Times
    BY DEF TypeOK, Row
  <2>2. QED
    BY <1>4, <2>1, CallRecord DEF CancelGet, TypeOK, envVars
<1>5. CASE CancelPut(c)
  <2>1. call[c].id \in Ids /\ call[c].fireAt \in Times /\ 0 \in Times
    BY <1>5, BusyCalls, BoundsAssumption DEF CancelPut, TypeOK, Times
  <2>2. QED
    BY <1>5, <2>1, CallRecord, RowRecord
    DEF CancelPut, TypeOK, Terminal, envVars
<1>6. CASE CancelDone(c)
  <2>1. call[c].id \in Ids
    BY <1>6, BusyCalls DEF CancelDone, TypeOK
  <2>2. slot' \in [Slots -> Slot]
    BY <1>6, IdleTypes DEF CancelDone, CancelTimer, StopTimer, TypeOK
  <2>3. QED
    BY <1>6, <2>1, <2>2, IdleTypes DEF CancelDone, CancelTimer, TypeOK, envVars
<1>7. CASE UpdatePut(c)
  <2>1. call[c].id \in Ids /\ call[c].fireAt \in Times
    BY <1>7, BusyCalls DEF UpdatePut, TypeOK
  <2>2. QED
    BY <1>7, <2>1, CallRecord, RowRecord DEF UpdatePut, TypeOK, envVars
<1>8. CASE PutFails(c)
  BY <1>8, IdleTypes DEF PutFails, TypeOK, envVars
<1>9. CASE CallArm(c)
  <2>1. call[c].id \in Ids /\ call[c].fireAt \in Times
    BY <1>9, BusyCalls DEF CallArm, TypeOK
  <2>2. QED
    BY <1>9, <2>1, ArmType, IdleTypes DEF CallArm, TypeOK, envVars
<1>10. QED
  BY <1>1, <1>2, <1>3, <1>4, <1>5, <1>6, <1>7, <1>8, <1>9 DEF Handler

LEMMA LifecycleType ==
    ASSUME TypeOK, Lifecycle
    PROVE  TypeOK'
<1>1. CASE StartList
  <2>1. \A id \in Ids : row[id].fireAt \in Times
    BY DEF TypeOK, Row
  <2>2. startq' \in [Ids -> Times \cup {NoId}]
    BY <1>1, <2>1 DEF StartList
  <2>3. life' \in 0..MaxLives
    BY <1>1, BoundsAssumption DEF StartList, TypeOK
  <2>4. QED
    BY <1>1, <2>2, <2>3 DEF StartList, TypeOK, Phases
<1>2. ASSUME NEW id \in Ids, StartArm(id) PROVE TypeOK'
  <2>1. startq[id] \in Times
    BY <1>2 DEF StartArm, TypeOK
  <2>2. QED
    BY <1>2, <2>1, ArmType DEF StartArm, TypeOK, envVars
<1>3. CASE StartReturns \/ Signal \/ StopReturns
  BY <1>3 DEF StartReturns, Signal, StopReturns, TypeOK, Phases, envVars
<1>4. CASE Stop
  <2>1. slot' \in [Slots -> Slot]
    BY <1>4, IdleTypes DEF Stop, TypeOK
  <2>2. QED
    BY <1>4, <2>1 DEF Stop, TypeOK, Phases, envVars
<1>5. CASE LoseMemory
  BY <1>5, IdleTypes DEF LoseMemory, TypeOK, Phases, envVars
<1>6. QED
  BY <1>1, <1>2, <1>3, <1>4, <1>5 DEF Lifecycle, Exit, Crash

\* Type correctness of every step of the runner, the firer, the handlers and
\* the daemon's life: no fire works without a schedule or stores a missing
\* outcome.
THEOREM TypeCorrect == Spec => []TypeOK
<1>1. Init => TypeOK
  BY IdleTypes, RowRecord, BoundsAssumption DEF Init, TypeOK, Times, Phases
<1>2. TypeOK /\ [Next]_vars => TypeOK'
  <2> SUFFICES ASSUME TypeOK, [Next]_vars PROVE TypeOK'
    OBVIOUS
  <2>1. CASE Tick
    BY <2>1, BoundsAssumption DEF Tick, TypeOK, Times
  <2>2. CASE UNCHANGED vars
    BY <2>2 DEF TypeOK, vars
  <2>3. QED
    BY <2>1, <2>2, FireStepType, HandlerType, LifecycleType DEF Next
<1>3. QED
  BY <1>1, <1>2, PTL DEF Spec

-----------------------------------------------------------------------------
(* The join of Stop *)

LEMMA StopTimerAt ==
    ASSUME NEW id, NEW s \in Slots
    PROVE  \/ StopTimer(id)[s] = slot[s]
           \/ /\ StopTimer(id)[s] = IdleSlot
              /\ s = timers[id] /\ slot[s].pc = "armed"
  BY DEF StopTimer

\* CON-05: after Stop has returned no fire touches a store, whatever timers,
\* callbacks, calls and shutdowns interleave. The invariant is inductive by
\* itself: a callback that runs after Stop sees stopped under mu.
THEOREM ClosedStoreUntouchedHolds == Spec => []ClosedStoreUntouched
<1>1. Init => ClosedStoreUntouched
  BY DEF Init, ClosedStoreUntouched
<1>2. TypeOK /\ ClosedStoreUntouched /\ [Next]_vars => ClosedStoreUntouched'
  <2> SUFFICES ASSUME TypeOK, ClosedStoreUntouched, [Next]_vars,
                      proc' = "closed", NEW t \in Slots
               PROVE  slot'[t].pc \notin InFlight
    BY DEF ClosedStoreUntouched
  <2>1. CASE StopReturns
    BY <2>1 DEF StopReturns, FiresJoined
  <2>2. CASE proc = "closed" /\ slot' = slot
    BY <2>2 DEF ClosedStoreUntouched
  <2>3. ASSUME NEW s \in Slots, Expire(s) PROVE slot'[t].pc \notin InFlight
    BY <2>3 DEF Expire, Become, ClosedStoreUntouched, TypeOK, InFlight
  <2>4. ASSUME NEW s \in Slots, Callback(s) PROVE slot'[t].pc \notin InFlight
    BY <2>4
    DEF Callback, stopped, ClosedStoreUntouched, TypeOK, InFlight, IdleSlot
  <2>5. ASSUME NEW s \in Slots, Fire(s) PROVE slot'[t].pc \notin InFlight
    BY <2>5 DEF Fire, FireGet, FireCheck, FireAct, FirePersist, InFlight,
                ClosedStoreUntouched
  <2>6. ASSUME NEW c \in Callers, Handler(c) PROVE slot'[t].pc \notin InFlight
    <3>1. CASE CancelDone(c)
      BY <3>1, StopTimerAt
      DEF CancelDone, CancelTimer, ClosedStoreUntouched, InFlight, IdleSlot
    <3>2. CASE CallArm(c)
      BY <3>2 DEF CallArm, Arm, stopped, runnerVars, ClosedStoreUntouched
    <3>3. CASE UNCHANGED <<proc, slot>>
      BY <3>3, <2>2
    <3>4. QED
      BY <2>6, <3>1, <3>2, <3>3
      DEF Handler, SendPut, SendRefused, UpdateGet, CancelGet, CancelPut,
          UpdatePut, PutFails, vars
  <2>7. CASE Lifecycle
    BY <2>1, <2>7
    DEF Lifecycle, StartList, StartArm, StartReturns, Signal, Stop, Exit, Crash,
        LoseMemory
  <2>8. CASE Tick \/ UNCHANGED vars
    BY <2>2, <2>8 DEF Tick, vars
  <2>9. QED
    BY <2>3, <2>4, <2>5, <2>6, <2>7, <2>8 DEF Next
<1>3. QED
  BY <1>1, <1>2, TypeCorrect, PTL DEF Spec

-----------------------------------------------------------------------------
(* The runner's map *)

\* Stop empties the map and a stopped runner arms nothing: the callback that
\* gives up after Stop leaves no entry behind.
StoppedMapEmpty == stopped => \A id \in Ids : timers[id] = NoSlot

LEMMA ArmKeepsMap ==
    ASSUME TypeOK, MapNamesLiveTimers, NEW id \in Ids, NEW f \in Times,
           Arm(id, f)
    PROVE  MapNamesLiveTimers'
<1>1. CASE stopped
  BY <1>1 DEF Arm, runnerVars, MapNamesLiveTimers
<1>2. CASE ~stopped
  <2>1. PICK s \in Slots :
          /\ slot[s].pc = "idle"
          /\ timers' = [timers EXCEPT ![id] = s]
          /\ slot' = [StopTimer(id) EXCEPT
                        ![s] = [pc |-> "armed", id |-> id,
                                at |-> ExpiryOf(f), out |-> "none"]]
    BY <1>2 DEF Arm
  <2>2. ASSUME NEW i \in Ids, timers'[i] # NoSlot
        PROVE  /\ slot'[timers'[i]].id = i
               /\ slot'[timers'[i]].pc \in {"armed", "expired"}
    <3>1. CASE i = id
      BY <2>1, <3>1 DEF TypeOK, StopTimer
    <3>2. CASE i # id
      <4>1. timers'[i] = timers[i] /\ timers[i] \in Slots
        BY <2>1, <2>2, <3>2 DEF TypeOK
      <4>2. slot[timers[i]].id = i /\ slot[timers[i]].pc \in {"armed", "expired"}
        BY <2>2, <4>1 DEF MapNamesLiveTimers
      <4>3. timers[i] # s
        BY <2>1, <4>2
      <4>4. timers[i] # timers[id]
        <5>1. timers[id] # NoSlot => slot[timers[id]].id = id
          BY DEF MapNamesLiveTimers
        <5>2. QED
          BY <2>2, <3>2, <4>1, <4>2, <5>1
      <4>5. slot'[timers[i]] = slot[timers[i]]
        BY <2>1, <4>1, <4>3, <4>4 DEF StopTimer
      <4>6. QED
        BY <4>1, <4>2, <4>5
    <3>3. QED
      BY <3>1, <3>2
  <2>3. QED
    BY <2>2 DEF MapNamesLiveTimers
<1>3. QED
  BY <1>1, <1>2

\* The runner's map never names a finished fire or the timer of another
\* schedule, whatever re-arms, cancels and expiries interleave.
THEOREM MapNamesLiveTimersHolds == Spec => []MapNamesLiveTimers
<1> DEFINE MapInv == MapNamesLiveTimers /\ StoppedMapEmpty
<1>1. Init => MapInv
  BY DEF Init, MapNamesLiveTimers, StoppedMapEmpty
<1>0. TypeOK /\ StoppedMapEmpty /\ [Next]_vars => StoppedMapEmpty'
  <2> SUFFICES ASSUME TypeOK, StoppedMapEmpty, [Next]_vars, stopped',
                      NEW i \in Ids
               PROVE  timers'[i] = NoSlot
    BY DEF StoppedMapEmpty
  <2>1. CASE timers' = timers /\ proc' = proc
    BY <2>1 DEF StoppedMapEmpty, stopped
  <2>2. ASSUME NEW s \in Slots, Callback(s) PROVE timers'[i] = NoSlot
    BY <2>2 DEF Callback, StoppedMapEmpty, stopped
  <2>3. ASSUME NEW c \in Callers, Handler(c) PROVE timers'[i] = NoSlot
    BY <2>1, <2>3
    DEF Handler, SendPut, SendRefused, UpdateGet, CancelGet, CancelPut,
        CancelDone, CancelTimer, UpdatePut, PutFails, CallArm, Arm, runnerVars,
        vars, StoppedMapEmpty, stopped, TypeOK
  <2>4. CASE Lifecycle
    BY <2>4
    DEF Lifecycle, StartList, StartArm, StartReturns, Signal, Stop, StopReturns,
        Exit, Crash, LoseMemory, StoppedMapEmpty, stopped
  <2>5. QED
    BY <2>1, <2>2, <2>3, <2>4
    DEF Next, Tick, Expire, Fire, FireGet, FireCheck, FireAct, FirePersist, vars
<1>2. TypeOK /\ MapInv /\ [Next]_vars => MapNamesLiveTimers'
  <2> SUFFICES ASSUME TypeOK, MapNamesLiveTimers, StoppedMapEmpty, [Next]_vars
               PROVE  MapNamesLiveTimers'
    OBVIOUS
  <2>1. CASE UNCHANGED runnerVars
    BY <2>1 DEF runnerVars, MapNamesLiveTimers
  <2>2. ASSUME NEW s \in Slots, Expire(s) PROVE MapNamesLiveTimers'
    BY <2>2 DEF Expire, Become, MapNamesLiveTimers, TypeOK
  <2>3. ASSUME NEW s \in Slots, Callback(s) PROVE MapNamesLiveTimers'
    <3>1. slot[s].id \in Ids
      BY <2>3, BusySlots DEF Callback, TypeOK
    <3>2. CASE stopped
      <4>1. slot' = [slot EXCEPT ![s] = IdleSlot] /\ timers' = timers
        BY <2>3, <3>2 DEF Callback
      <4>2. \A i \in Ids : timers[i] = NoSlot
        BY <3>2 DEF StoppedMapEmpty
      <4>3. QED
        BY <4>1, <4>2 DEF MapNamesLiveTimers
    <3>3. CASE ~stopped
      <4>1. timers' = [timers EXCEPT ![slot[s].id] = NoSlot]
        BY <2>3, <3>3 DEF Callback, DropEntry
      <4>2. \A u \in Slots : u # s => slot'[u] = slot[u]
        BY <2>3, <3>3 DEF Callback, Become, TypeOK
      <4>3. ASSUME NEW i \in Ids, timers'[i] # NoSlot
            PROVE  timers'[i] = timers[i] /\ timers[i] \in Slots \ {s}
        BY <3>1, <4>1, <4>3 DEF MapNamesLiveTimers, TypeOK
      <4>4. QED
        BY <4>2, <4>3 DEF MapNamesLiveTimers
    <3>4. QED
      BY <3>2, <3>3
  <2>4. ASSUME NEW s \in Slots, Fire(s) PROVE MapNamesLiveTimers'
    <3>1. slot[s].pc \in InFlight /\ timers' = timers
      BY <2>4 DEF Fire, FireGet, FireCheck, FireAct, FirePersist, InFlight
    <3>2. \A u \in Slots : u # s => slot'[u] = slot[u]
      BY <2>4 DEF Fire, FireGet, FireCheck, FireAct, FirePersist, Become,
                  Finish,
                  TypeOK
    <3>3. QED
      BY <3>1, <3>2 DEF MapNamesLiveTimers, InFlight, TypeOK
  <2>5. ASSUME NEW c \in Callers, Handler(c) PROVE MapNamesLiveTimers'
    <3>1. CASE CancelDone(c)
      <4>1. call[c].id \in Ids
        BY <3>1, BusyCalls DEF CancelDone, TypeOK
      <4>2. QED
        BY <3>1, <4>1, StopTimerAt
        DEF CancelDone, CancelTimer, MapNamesLiveTimers, TypeOK
    <3>2. CASE CallArm(c)
      <4>1. call[c].id \in Ids /\ call[c].fireAt \in Times
        BY <3>2, BusyCalls DEF CallArm, TypeOK
      <4>2. QED
        BY <3>2, <4>1, ArmKeepsMap DEF CallArm
    <3>3. QED
      BY <2>1, <2>5, <3>1, <3>2
      DEF Handler, SendPut, SendRefused, UpdateGet, CancelGet, CancelPut,
          UpdatePut, PutFails, vars, runnerVars
  <2>6. CASE Lifecycle
    <3>1. CASE \E id \in Ids : StartArm(id)
      <4>1. PICK id \in Ids : StartArm(id)
        BY <3>1
      <4>2. startq[id] \in Times
        BY <4>1 DEF StartArm, TypeOK
      <4>3. QED
        BY <4>1, <4>2, ArmKeepsMap DEF StartArm
    <3>2. CASE Stop \/ LoseMemory
      BY <3>2 DEF Stop, LoseMemory, MapNamesLiveTimers
    <3>3. QED
      BY <2>1, <2>6, <3>1, <3>2
      DEF Lifecycle, StartList, StartReturns, Signal, StopReturns, Exit, Crash,
          runnerVars
  <2>7. CASE Tick \/ UNCHANGED vars
    BY <2>1, <2>7 DEF Tick, vars, runnerVars
  <2>8. QED
    BY <2>2, <2>3, <2>4, <2>5, <2>6, <2>7 DEF Next
<1>3. QED
  BY <1>0, <1>1, <1>2, TypeCorrect, PTL DEF Spec

-----------------------------------------------------------------------------
(* At most once per life, when clients neither reschedule nor use REST *)

Busy(s) == slot[s].pc # "idle"
Arming(c) == call[c].pc = "arm"

\* What is in memory in each phase of the daemon's life.
PhaseInv ==
    /\ proc # "down" => life >= 1
    /\ proc \in {"down", "starting"} =>
         \A c \in Callers : call[c].pc = "idle"
    /\ proc = "down" => \A s \in Slots : ~Busy(s)
    /\ proc # "starting" => \A id \in Ids : startq[id] = NoId

\* Without schedule.update a schedule is never on its way to the timers twice:
\* it is listed by Start, carried by one schedule.send, or in one slot.
OneTokenInv ==
    /\ \A c \in Callers : call[c].pc # "updatePut"
    /\ \A s, t \in Slots :
         Busy(s) /\ Busy(t) /\ slot[s].id = slot[t].id => s = t
    /\ \A c, d \in Callers :
         Arming(c) /\ Arming(d) /\ call[c].id = call[d].id => c = d
    /\ \A c \in Callers, s \in Slots :
         Arming(c) /\ Busy(s) => slot[s].id # call[c].id
    /\ \A s \in Slots : Busy(s) => startq[slot[s].id] = NoId

\* A row that was never put is unknown to everyone.
AbsentInv ==
    \A id \in Ids : row[id].state = "absent" =>
        /\ startq[id] = NoId
        /\ \A s \in Slots : Busy(s) => slot[s].id # id
        /\ \A c \in Callers : call[c].pc # "idle" => call[c].id # id
        /\ \A l \in 1..MaxLives : effects[id][l] = 0

\* What has not yet come to its send has sent nothing in this life.
UnspentInv ==
    /\ \A id \in Ids, l \in 1..MaxLives : l > life => effects[id][l] = 0
    /\ \A id \in Ids : startq[id] # NoId => effects[id][life] = 0
    /\ \A c \in Callers : Arming(c) => effects[call[c].id][life] = 0
    /\ \A s \in Slots : Busy(s) /\ slot[s].pc # "persist" =>
         effects[slot[s].id][life] = 0

TokenInv == OneTokenInv /\ AbsentInv /\ UnspentInv /\ AtMostOncePerLife

OnceInv == PhaseInv /\ TokenInv

\* A step that puts nothing new on its way: busy slots stay with their
\* schedule and past their send, calls only leave the way to the timers, and
\* no row becomes absent.
SlotsKept ==
    \A s \in Slots : Busy(s)' =>
        /\ Busy(s) /\ slot'[s].id = slot[s].id
        /\ slot[s].pc = "persist" => slot'[s].pc = "persist"
CallsKept ==
    \A c \in Callers :
        /\ Arming(c)' => Arming(c) /\ call'[c].id = call[c].id
        /\ call'[c].pc # "updatePut"
        /\ call'[c].pc # "idle" =>
             \/ call[c].pc # "idle" /\ call'[c].id = call[c].id
             \/ row[call'[c].id].state # "absent"
RowsKept ==
    \A id \in Ids : row'[id].state = "absent" => row[id].state = "absent"

StartqKept == \A id \in Ids : startq'[id] # NoId => startq[id] # NoId

LEMMA QuietStep ==
    ASSUME TypeOK, TypeOK', OnceInv, SlotsKept, CallsKept, RowsKept,
           StartqKept, effects' = effects, life' = life
    PROVE  TokenInv'
<1>1. OneTokenInv'
  <2>1. \A s \in Slots : Busy(s)' => startq'[slot'[s].id] = NoId
    <3> SUFFICES ASSUME NEW s \in Slots, Busy(s)'
                 PROVE  startq'[slot'[s].id] = NoId
      OBVIOUS
    <3>1. Busy(s) /\ slot'[s].id = slot[s].id
      BY DEF SlotsKept
    <3>2. slot[s].id \in Ids
      BY <3>1, BusySlots DEF TypeOK, Busy
    <3>3. QED
      BY <3>1, <3>2 DEF OnceInv, TokenInv, OneTokenInv, StartqKept
  <2>2. QED
    BY <2>1 DEF OnceInv, TokenInv, OneTokenInv, SlotsKept, CallsKept, Busy,
                Arming
<1>2. AbsentInv'
  <2> SUFFICES ASSUME NEW id \in Ids, row'[id].state = "absent"
               PROVE  /\ startq'[id] = NoId
                      /\ \A s \in Slots : Busy(s)' => slot'[s].id # id
                      /\ \A c \in Callers :
                           call'[c].pc # "idle" => call'[c].id # id
                      /\ \A l \in 1..MaxLives : effects'[id][l] = 0
    BY DEF AbsentInv, Busy
  <2>1. row[id].state = "absent"
    BY DEF RowsKept
  <2>2. QED
    BY <2>1 DEF OnceInv, TokenInv, AbsentInv, SlotsKept, CallsKept, StartqKept
<1>3. UnspentInv'
  BY DEF OnceInv, TokenInv, UnspentInv, SlotsKept, CallsKept, StartqKept,
         Busy, Arming
<1>4. AtMostOncePerLife'
  BY DEF OnceInv, TokenInv, AtMostOncePerLife
<1>5. QED
  BY <1>1, <1>2, <1>3, <1>4 DEF TokenInv

LEMMA PhaseStep ==
    ASSUME TypeOK, PhaseInv, [Next]_vars, RestEnabled = FALSE
    PROVE  PhaseInv'
<1>1. CASE /\ proc' = proc /\ life' = life /\ startq' = startq /\ call' = call
           /\ proc # "down" \/ slot' = slot
  BY <1>1 DEF PhaseInv, Busy
<1>2. ASSUME NEW s \in Slots, Expire(s) \/ Callback(s) \/ Fire(s)
      PROVE  PhaseInv'
  <2>1. Busy(s)
    BY <1>2 DEF Expire, Callback, Fire, FireGet, FireCheck, FireAct,
                FirePersist,
                Busy
  <2>2. proc # "down"
    BY <2>1 DEF PhaseInv
  <2>3. QED
    BY <1>1, <1>2, <2>2
    DEF Expire, Callback, Fire, FireGet, FireCheck, FireAct, FirePersist,
        envVars
<1>3. ASSUME NEW c \in Callers, Handler(c) PROVE PhaseInv'
  <2>1. CASE UNCHANGED vars
    BY <2>1 DEF vars, PhaseInv, Busy
  <2>2. CASE /\ proc' = proc /\ life' = life /\ startq' = startq
             /\ proc \notin {"down", "starting"}
    BY <2>2 DEF PhaseInv
  <2>3. CASE call[c].pc # "idle"
    <3>1. proc \notin {"down", "starting"}
      BY <2>3 DEF PhaseInv
    <3>2. QED
      BY <1>3, <2>2, <2>3, <3>1
      DEF Handler, SendPut, SendRefused, UpdateGet, CancelGet, CancelPut,
          CancelDone, UpdatePut, PutFails, CallArm, envVars
  <2>4. CASE call[c].pc = "idle"
    BY <1>3, <2>1, <2>2, <2>4
    DEF Handler, SendPut, SendRefused, UpdateGet, CancelGet, CancelPut,
        CancelDone, UpdatePut, PutFails, CallArm, Serving, envVars
  <2>5. QED
    BY <2>3, <2>4
<1>4. CASE Lifecycle
  <2>1. CASE StartList
    BY <2>1 DEF StartList, PhaseInv, TypeOK
  <2>2. ASSUME NEW id \in Ids, StartArm(id) PROVE PhaseInv'
    BY <2>2 DEF StartArm, PhaseInv, envVars
  <2>3. CASE StartReturns \/ Signal \/ Stop \/ StopReturns
    BY <2>3 DEF StartReturns, Signal, Stop, StopReturns, PhaseInv, envVars
  <2>4. CASE LoseMemory
    BY <2>4 DEF LoseMemory, PhaseInv, Busy, IdleSlot, IdleCall, envVars
  <2>5. QED
    BY <1>4, <2>1, <2>2, <2>3, <2>4 DEF Lifecycle, Exit, Crash
<1>5. CASE Tick \/ UNCHANGED vars
  BY <1>1, <1>5 DEF Tick, vars
<1>6. QED
  BY <1>2, <1>3, <1>4, <1>5 DEF Next

\* runner.Schedule of a schedule that is nowhere else on its way.
LEMMA ArmStep ==
    ASSUME TypeOK, TypeOK', OnceInv, NEW id \in Ids, NEW f, Arm(id, f),
           \A s \in Slots : Busy(s) => slot[s].id # id,
           effects[id][life] = 0, row[id].state # "absent",
           CallsKept, \A c \in Callers : Arming(c)' => call'[c].id # id,
           StartqKept, startq'[id] = NoId,
           row' = row, effects' = effects, life' = life
    PROVE  TokenInv'
<1>0. RowsKept
  BY DEF RowsKept
<1>1. CASE slot' = slot
  <2>1. SlotsKept
    BY <1>1 DEF SlotsKept, Busy
  <2>2. QED
    BY <1>0, <2>1, QuietStep
<1>2. CASE ~stopped
  <2>1. PICK s \in Slots :
          slot' = [StopTimer(id) EXCEPT
                     ![s] = [pc |-> "armed", id |-> id,
                             at |-> ExpiryOf(f), out |-> "none"]]
    BY <1>2 DEF Arm
  <2>2. slot'[s].id = id /\ slot'[s].pc = "armed"
    BY <2>1 DEF StopTimer
  <2>3. \A u \in Slots : u # s /\ Busy(u)' => Busy(u) /\ slot'[u] = slot[u]
    BY <2>1, StopTimerAt DEF StopTimer, Busy, IdleSlot
  <2>4. \A u \in Slots : Busy(u)' =>
          u = s \/ (Busy(u) /\ slot'[u] = slot[u] /\ slot'[u].id # id)
    BY <2>3
  <2>5. OneTokenInv'
    <3>1. \A u \in Slots : Busy(u)' => startq'[slot'[u].id] = NoId
      <4> SUFFICES ASSUME NEW u \in Slots, Busy(u)'
                   PROVE  startq'[slot'[u].id] = NoId
        OBVIOUS
      <4>1. CASE u = s
        BY <2>2, <4>1
      <4>2. CASE Busy(u) /\ slot'[u] = slot[u]
        <5>1. slot[u].id \in Ids
          BY <4>2, BusySlots DEF TypeOK, Busy
        <5>2. QED
          BY <4>2, <5>1 DEF OnceInv, TokenInv, OneTokenInv, StartqKept
      <4>3. QED
        BY <2>4, <4>1, <4>2
    <3>2. \A u, v \in Slots :
            Busy(u)' /\ Busy(v)' /\ slot'[u].id = slot'[v].id => u = v
      BY <2>2, <2>4 DEF OnceInv, TokenInv, OneTokenInv
    <3>3. \A c \in Callers, u \in Slots :
            Arming(c)' /\ Busy(u)' => slot'[u].id # call'[c].id
      BY <2>2, <2>4 DEF OnceInv, TokenInv, OneTokenInv, CallsKept
    <3>4. \A c, d \in Callers :
            Arming(c)' /\ Arming(d)' /\ call'[c].id = call'[d].id => c = d
      BY DEF OnceInv, TokenInv, OneTokenInv, CallsKept
    <3>5. \A c \in Callers : call'[c].pc # "updatePut"
      BY DEF CallsKept
    <3>6. QED
      BY <3>1, <3>2, <3>3, <3>4, <3>5 DEF OneTokenInv, Busy, Arming
  <2>6. AbsentInv'
    <3> SUFFICES ASSUME NEW i \in Ids, row'[i].state = "absent"
                 PROVE  /\ startq'[i] = NoId
                        /\ \A u \in Slots : Busy(u)' => slot'[u].id # i
                        /\ \A c \in Callers :
                             call'[c].pc # "idle" => call'[c].id # i
                        /\ \A l \in 1..MaxLives : effects'[i][l] = 0
      BY DEF AbsentInv, Busy
    <3>1. row[i].state = "absent" /\ i # id
      OBVIOUS
    <3>2. \A u \in Slots : Busy(u)' => slot'[u].id # i
      BY <2>2, <2>4, <3>1 DEF OnceInv, TokenInv, AbsentInv
    <3>3. QED
      BY <3>1, <3>2 DEF OnceInv, TokenInv, AbsentInv, CallsKept, StartqKept
  <2>7. UnspentInv'
    <3>1. \A u \in Slots : Busy(u)' /\ slot'[u].pc # "persist" =>
            effects'[slot'[u].id][life'] = 0
      BY <2>2, <2>4 DEF OnceInv, TokenInv, UnspentInv
    <3>2. QED
      BY <3>1 DEF OnceInv, TokenInv, UnspentInv, CallsKept, StartqKept, Busy,
                  Arming
  <2>8. QED
    BY <2>5, <2>6, <2>7 DEF OnceInv, TokenInv, AtMostOncePerLife
<1>3. QED
  BY <1>1, <1>2 DEF Arm, runnerVars

LEMMA FireActOnce ==
    ASSUME TypeOK, TypeOK', OnceInv, NEW s \in Slots, FireAct(s)
    PROVE  TokenInv'
<1> DEFINE i == slot[s].id
<1>1. Busy(s) /\ slot[s].pc = "act"
  BY DEF FireAct, Busy
<1>2. i \in Ids
  BY <1>1, BusySlots DEF TypeOK, Busy
<1>3. /\ slot'[s].id = i /\ slot'[s].pc = "persist"
      /\ \A u \in Slots : u # s => slot'[u] = slot[u]
  BY DEF FireAct, Become, TypeOK
<1>4. /\ row' = row /\ call' = call /\ startq' = startq /\ life' = life
      /\ effects' = effects \/ effects' = Counted(i)
  BY DEF FireAct, envVars
<1>5. SlotsKept /\ CallsKept /\ RowsKept /\ StartqKept
  <2>1. SlotsKept
    BY <1>1, <1>3 DEF SlotsKept, Busy
  <2>2. QED
    BY <1>4, <2>1
    DEF CallsKept, RowsKept, StartqKept, OnceInv, TokenInv, OneTokenInv, Arming
<1>6. CASE effects' = effects
  BY <1>4, <1>5, <1>6, QuietStep
<1>7. CASE effects' = Counted(i)
  <2>1. proc # "down"
    BY <1>1 DEF OnceInv, TokenInv, PhaseInv
  <2>2. life \in 1..MaxLives
    BY <2>1 DEF OnceInv, TokenInv, PhaseInv, TypeOK
  <2>3. effects[i][life] = 0
    BY <1>1 DEF OnceInv, TokenInv, UnspentInv
  <2>4. \A j \in Ids : j # i => effects'[j] = effects[j]
    BY <1>7 DEF Counted, TypeOK
  <2>5. effects'[i] = [effects[i] EXCEPT ![life] = effects[i][life] + 1]
    BY <1>2, <1>7 DEF Counted, TypeOK
  <2>6. effects[i] \in [1..MaxLives -> Nat]
    BY <1>2 DEF TypeOK
  <2>7. effects'[i][life] = 1
    <3> DEFINE f == effects[i]
               g == effects'[i]
    <3>1. /\ g = [f EXCEPT ![life] = f[life] + 1]
          /\ f \in [1..MaxLives -> Nat] /\ f[life] = 0
      BY <2>3, <2>5, <2>6
    <3> HIDE DEF f, g
    <3>2. g[life] = 1
      BY <2>2, <3>1
    <3>3. QED
      BY <3>2 DEF g
  <2>8. \A l \in 1..MaxLives : l # life => effects'[i][l] = effects[i][l]
    BY <2>5, <2>6
  <2> HIDE DEF i
  <2>9. AtMostOncePerLife'
    <3> SUFFICES ASSUME NEW j \in Ids, NEW l \in 1..MaxLives
                 PROVE  effects'[j][l] <= 1
      BY DEF AtMostOncePerLife
    <3>1. CASE j = i /\ l = life
      BY <2>7, <3>1
    <3>2. CASE ~(j = i /\ l = life)
      <4>1. effects'[j][l] = effects[j][l]
        BY <2>4, <2>8, <3>2
      <4>2. QED
        BY <4>1 DEF OnceInv, TokenInv, AtMostOncePerLife
    <3>3. QED
      BY <3>1, <3>2
  <2>10. OneTokenInv'
    BY <1>4, <1>5 DEF OnceInv, TokenInv, OneTokenInv, SlotsKept, CallsKept,
                      StartqKept,
                      Busy, Arming
  <2>11. AbsentInv'
    <3> SUFFICES ASSUME NEW j \in Ids, row'[j].state = "absent"
                 PROVE  /\ startq'[j] = NoId
                        /\ \A u \in Slots : Busy(u)' => slot'[u].id # j
                        /\ \A c \in Callers :
                             call'[c].pc # "idle" => call'[c].id # j
                        /\ \A l \in 1..MaxLives : effects'[j][l] = 0
      BY DEF AbsentInv, Busy
    <3>1. row[j].state = "absent"
      BY <1>4
    <3>2. j # i
      BY <1>1, <3>1 DEF OnceInv, TokenInv, AbsentInv, i
    <3>3. QED
      BY <1>4, <1>5, <2>4, <3>1, <3>2
      DEF OnceInv, TokenInv, AbsentInv, SlotsKept, CallsKept
  <2>12. UnspentInv'
    <3>1. \A j \in Ids, l \in 1..MaxLives : l > life => effects'[j][l] = 0
      <4> SUFFICES ASSUME NEW j \in Ids, NEW l \in 1..MaxLives, l > life
                   PROVE  effects'[j][l] = 0
        OBVIOUS
      <4>1. effects'[j][l] = effects[j][l]
        BY <2>2, <2>4, <2>8
      <4>2. QED
        BY <4>1 DEF OnceInv, TokenInv, UnspentInv
    <3>2. \A j \in Ids : startq[j] # NoId => effects'[j][life] = 0
      <4>1. startq[i] = NoId
        BY <1>1 DEF OnceInv, TokenInv, OneTokenInv, i
      <4>2. QED
        BY <2>4, <4>1 DEF OnceInv, TokenInv, UnspentInv
    <3>3. \A c \in Callers : Arming(c) => effects'[call[c].id][life] = 0
      <4> SUFFICES ASSUME NEW c \in Callers, Arming(c)
                   PROVE  effects'[call[c].id][life] = 0
        OBVIOUS
      <4>1. call[c].id # i /\ call[c].id \in Ids
        BY <1>1, BusyCalls DEF OnceInv, TokenInv, OneTokenInv, i, Arming, TypeOK
      <4>2. QED
        BY <2>4, <4>1 DEF OnceInv, TokenInv, UnspentInv
    <3>4. \A u \in Slots : Busy(u)' /\ slot'[u].pc # "persist" =>
            effects'[slot'[u].id][life] = 0
      <4> SUFFICES ASSUME NEW u \in Slots, Busy(u)', slot'[u].pc # "persist"
                   PROVE  effects'[slot'[u].id][life] = 0
        OBVIOUS
      <4>1. u # s /\ slot'[u] = slot[u] /\ Busy(u)
        BY <1>3 DEF Busy
      <4>2. slot[u].id # i /\ slot[u].id \in Ids
        BY <1>1, <4>1, BusySlots DEF OnceInv, TokenInv, OneTokenInv, i, Busy,
                                     TypeOK
      <4>3. QED
        BY <2>4, <4>1, <4>2 DEF OnceInv, TokenInv, UnspentInv
    <3>5. QED
      BY <1>4, <3>1, <3>2, <3>3, <3>4 DEF UnspentInv, Busy, Arming
  <2>13. QED
    BY <2>9, <2>10, <2>11, <2>12 DEF TokenInv
<1>8. QED
  BY <1>4, <1>6, <1>7
-----------------------------------------------------------------------------
LEMMA SendPutOnce ==
    ASSUME TypeOK, TypeOK', OnceInv, RestEnabled = FALSE,
           NEW c \in Callers, NEW id \in Ids, NEW f \in Times,
           SendPut(c, id, f)
    PROVE  TokenInv'
<1>1. proc = "up"
  BY DEF SendPut, Serving
<1>2. life \in 1..MaxLives
  BY <1>1 DEF OnceInv, TokenInv, PhaseInv, TypeOK
<1>3. /\ row[id].state = "absent"
      /\ slot' = slot /\ startq' = startq /\ effects' = effects /\ life' = life
  BY DEF SendPut, Insertable, envVars
<1>4. /\ call'[c].pc = "arm" /\ call'[c].id = id
      /\ \A d \in Callers : d # c => call'[d] = call[d]
  BY DEF SendPut, TypeOK
<1>5. /\ row'[id].state = "pending"
      /\ \A j \in Ids : j # id => row'[j] = row[j]
  BY DEF SendPut, TypeOK
<1>6. /\ \A s \in Slots : Busy(s) => slot[s].id # id
      /\ \A d \in Callers : call[d].pc # "idle" => call[d].id # id
      /\ effects[id][life] = 0
  BY <1>2, <1>3 DEF OnceInv, TokenInv, AbsentInv
<1>7. OneTokenInv'
  <2>1. \A d \in Callers : Arming(d) => call[d].id # id
    BY <1>6 DEF Arming
  <2>2. \A d \in Callers : call'[d].pc # "updatePut"
    BY <1>4 DEF OnceInv, TokenInv, OneTokenInv
  <2>3. \A d, e \in Callers :
          Arming(d)' /\ Arming(e)' /\ call'[d].id = call'[e].id => d = e
    BY <1>4, <2>1 DEF OnceInv, TokenInv, OneTokenInv, Arming
  <2>4. \A d \in Callers, s \in Slots :
          Arming(d)' /\ Busy(s) => slot[s].id # call'[d].id
    BY <1>4, <1>6 DEF OnceInv, TokenInv, OneTokenInv, Arming
  <2>5. QED
    BY <1>3, <2>2, <2>3, <2>4 DEF OnceInv, TokenInv, OneTokenInv, Busy, Arming
<1>8. AbsentInv'
  <2> SUFFICES ASSUME NEW j \in Ids, row'[j].state = "absent"
               PROVE  /\ startq'[j] = NoId
                      /\ \A u \in Slots : Busy(u)' => slot'[u].id # j
                      /\ \A d \in Callers :
                           call'[d].pc # "idle" => call'[d].id # j
                      /\ \A l \in 1..MaxLives : effects'[j][l] = 0
    BY DEF AbsentInv, Busy
  <2>1. j # id /\ row[j].state = "absent"
    BY <1>5
  <2>2. QED
    BY <1>3, <1>4, <2>1 DEF OnceInv, TokenInv, AbsentInv, Busy
<1>9. UnspentInv'
  <2>1. \A d \in Callers : Arming(d)' => effects[call'[d].id][life] = 0
    BY <1>4, <1>6 DEF OnceInv, TokenInv, UnspentInv, Arming
  <2>2. QED
    BY <1>3, <2>1 DEF OnceInv, TokenInv, UnspentInv, Busy, Arming
<1>10. QED
  BY <1>3, <1>7, <1>8, <1>9 DEF OnceInv, TokenInv, AtMostOncePerLife

LEMMA StartListOnce ==
    ASSUME TypeOK, TypeOK', OnceInv, StartList
    PROVE  TokenInv'
<1>1. /\ \A c \in Callers : call'[c].pc = "idle"
      /\ \A s \in Slots : slot'[s].pc = "idle"
  BY DEF StartList, OnceInv, TokenInv, PhaseInv, Busy
<1>2. /\ row' = row /\ effects' = effects /\ life' = life + 1
      /\ life' \in 1..MaxLives
  BY DEF StartList, TypeOK
<1>3. \A id \in Ids : startq'[id] # NoId => row[id].state = "pending"
  BY DEF StartList, Listed
<1>4. OneTokenInv'
  BY <1>1 DEF OneTokenInv, Busy, Arming
<1>5. AbsentInv'
  BY <1>1, <1>2, <1>3 DEF OnceInv, TokenInv, AbsentInv, Busy
<1>6. \A id \in Ids, l \in 1..MaxLives : l >= life' => effects'[id][l] = 0
  BY <1>2, BoundsAssumption DEF OnceInv, TokenInv, UnspentInv, TypeOK
<1>7. UnspentInv'
  BY <1>1, <1>2, <1>6 DEF UnspentInv, Busy, Arming
<1>8. QED
  BY <1>2, <1>4, <1>5, <1>7 DEF OnceInv, TokenInv, AtMostOncePerLife

LEMMA HandlerOnce ==
    ASSUME TypeOK, TypeOK', OnceInv, RestEnabled = FALSE, "update" \notin Ops,
           NEW c \in Callers, Handler(c)
    PROVE  TokenInv'
<1>1. ASSUME NEW id \in Ids, NEW f \in Times,
             SendPut(c, id, f) \/ SendRefused(c, id, f) \/ UpdateGet(c, id, f)
      PROVE  TokenInv'
  <2>1. CASE SendRefused(c, id, f)
    <3>1. SlotsKept /\ CallsKept /\ RowsKept /\ StartqKept
      BY <2>1 DEF SendRefused, vars, SlotsKept, CallsKept, RowsKept, StartqKept,
                  Busy, Arming, OnceInv, TokenInv, OneTokenInv
    <3>2. QED
      BY <2>1, <3>1, QuietStep DEF SendRefused, vars
  <2>2. QED
    BY <1>1, <2>1, SendPutOnce DEF UpdateGet, Serving
<1>2. CASE CallArm(c)
  <2>1. call[c].pc = "arm" /\ Arming(c)
    BY <1>2 DEF CallArm, Arming
  <2>2. call[c].id \in Ids
    BY <2>1, BusyCalls DEF TypeOK
  <2>3. proc # "starting" /\ startq[call[c].id] = NoId
    BY <2>1, <2>2 DEF OnceInv, TokenInv, PhaseInv
  <2>4. /\ call'[c].pc = "idle"
        /\ \A d \in Callers : d # c => call'[d] = call[d]
    BY <1>2 DEF CallArm, IdleCall, TypeOK
  <2>5. CallsKept
    BY <2>4 DEF CallsKept, OnceInv, TokenInv, OneTokenInv, Arming
  <2>6. \A d \in Callers : Arming(d)' => call'[d].id # call[c].id
    BY <2>1, <2>4 DEF OnceInv, TokenInv, OneTokenInv, Arming
  <2>7. /\ \A s \in Slots : Busy(s) => slot[s].id # call[c].id
        /\ effects[call[c].id][life] = 0
        /\ row[call[c].id].state # "absent"
    BY <2>1, <2>2 DEF OnceInv, TokenInv, OneTokenInv, UnspentInv, AbsentInv,
                      Arming
  <2>8. /\ startq' = startq /\ row' = row /\ effects' = effects /\ life' = life
        /\ Arm(call[c].id, call[c].fireAt)
    BY <1>2 DEF CallArm, envVars
  <2>9. StartqKept /\ startq'[call[c].id] = NoId
    BY <2>3, <2>8 DEF StartqKept
  <2>10. QED
    BY <2>2, <2>5, <2>6, <2>7, <2>8, <2>9, ArmStep
<1>3. ASSUME \/ \E id \in Ids : CancelGet(c, id)
             \/ CancelPut(c) \/ PutFails(c) \/ CancelDone(c)
      PROVE  TokenInv'
  <2>1. startq' = startq /\ effects' = effects /\ life' = life
    BY <1>3 DEF CancelGet, CancelPut, PutFails, CancelDone, envVars
  <2>2. SlotsKept
    BY <1>3 DEF CancelGet, CancelPut, PutFails, CancelDone, CancelTimer,
                StopTimer, IdleSlot, SlotsKept, Busy
  <2>3. CallsKept
    <3>1. CASE \E id \in Ids : CancelGet(c, id)
      BY <3>1 DEF CancelGet, CallsKept, OnceInv, TokenInv, OneTokenInv,
                  Arming, TypeOK
    <3>2. CASE CancelPut(c)
      BY <3>2 DEF CancelPut, CallsKept, OnceInv, TokenInv, OneTokenInv,
                  Arming, TypeOK
    <3>3. CASE PutFails(c) \/ CancelDone(c)
      BY <3>3 DEF PutFails, CancelDone, IdleCall, CallsKept, OnceInv, TokenInv,
                  OneTokenInv, Arming, TypeOK
    <3>4. QED
      BY <1>3, <3>1, <3>2, <3>3
  <2>4. RowsKept
    BY <1>3 DEF CancelGet, CancelPut, PutFails, CancelDone, RowsKept, TypeOK
  <2>5. QED
    BY <2>1, <2>2, <2>3, <2>4, QuietStep DEF StartqKept
<1>4. ~UpdatePut(c)
  BY DEF UpdatePut, OnceInv, TokenInv, OneTokenInv
<1>5. QED
  BY <1>1, <1>2, <1>3, <1>4 DEF Handler

\* One life of the daemon sends a scheduled message, or puts its draft, at
\* most once, for every number of schedules, timers, handlers, restarts and
\* I/O errors: Fire's pending check and the INSERT of schedule.send suffice
\* as long as clients call neither schedule.update nor the REST listener.
THEOREM AtMostOncePerLifeHolds ==
    ASSUME RestEnabled = FALSE, "update" \notin Ops
    PROVE  Spec => []AtMostOncePerLife
<1>1. Init => OnceInv
  BY DEF Init, OnceInv, TokenInv, PhaseInv, OneTokenInv, AbsentInv, UnspentInv,
         AtMostOncePerLife, Busy, Arming, IdleSlot, IdleCall
<1>2. TypeOK /\ TypeOK' /\ OnceInv /\ [Next]_vars => OnceInv'
  <2> SUFFICES ASSUME TypeOK, TypeOK', OnceInv, [Next]_vars
               PROVE  TokenInv'
    BY PhaseStep DEF OnceInv
  <2> USE DEF envVars
  <2>1. CASE Tick \/ UNCHANGED vars
    <3>1. SlotsKept /\ CallsKept /\ RowsKept /\ StartqKept
      BY <2>1 DEF Tick, vars, SlotsKept, CallsKept, RowsKept, StartqKept, Busy,
                  Arming, OnceInv, TokenInv, OneTokenInv
    <3>2. QED
      BY QuietStep, <2>1, <3>1 DEF Tick, vars
  <2>2. ASSUME NEW s \in Slots, Expire(s) \/ Callback(s) \/ Fire(s)
        PROVE  TokenInv'
    <3>1. CASE FireAct(s)
      BY <3>1, FireActOnce
    <3>2. CASE Expire(s) \/ Callback(s) \/ FireGet(s) \/ FireCheck(s)
                 \/ FirePersist(s)
      <4>1. SlotsKept
        BY <3>2 DEF Expire, Callback, FireGet, FireCheck, FirePersist, Become,
                    Finish, IdleSlot, SlotsKept, Busy, TypeOK
      <4>2. RowsKept
        <5>1. CASE FirePersist(s) /\ row' # row
          <6>1. slot[s].pc = "persist" /\ Busy(s)
            BY <5>1 DEF FirePersist, Busy
          <6>2. slot[s].id \in Ids
            BY <6>1, BusySlots DEF Busy, TypeOK
          <6>3. row[slot[s].id].state # "absent"
            BY <6>1, <6>2 DEF OnceInv, TokenInv, AbsentInv
          <6>4. \A j \in Ids : j # slot[s].id => row'[j] = row[j]
            BY <5>1 DEF FirePersist, TypeOK
          <6>5. row'[slot[s].id].state # "absent"
            <7>1. slot[s].out # "absent"
              BY <6>1, BusySlots DEF TypeOK
            <7>2. QED
              BY <5>1, <6>2, <7>1 DEF FirePersist, StateFor, TypeOK
          <6>6. QED
            BY <6>4, <6>5 DEF RowsKept
        <5>2. CASE row' = row
          BY <5>2 DEF RowsKept
        <5>3. QED
          BY <3>2, <5>1, <5>2 DEF Expire, Callback, FireGet, FireCheck
      <4>3. CallsKept /\ StartqKept /\ effects' = effects /\ life' = life
        BY <3>2 DEF Expire, Callback, FireGet, FireCheck, FirePersist,
                    CallsKept, StartqKept, OnceInv, TokenInv, OneTokenInv, Arming
      <4>4. QED
        BY QuietStep, <4>1, <4>2, <4>3
    <3>3. QED
      BY <2>2, <3>1, <3>2 DEF Fire
  <2>3. ASSUME NEW c \in Callers, Handler(c) PROVE TokenInv'
    BY <2>3, HandlerOnce
  <2>4. CASE Lifecycle
    <3>1. CASE StartList
      BY <3>1, StartListOnce
    <3>2. ASSUME NEW id \in Ids, StartArm(id) PROVE TokenInv'
      <4>1. /\ Arm(id, startq[id]) /\ startq'[id] = NoId
            /\ \A j \in Ids : j # id => startq'[j] = startq[j]
            /\ row' = row /\ effects' = effects /\ life' = life /\ call' = call
        BY <3>2 DEF StartArm, TypeOK
      <4>2. StartqKept
        BY <4>1 DEF StartqKept
      <4>3. \A c \in Callers : call[c].pc = "idle"
        BY <3>2 DEF StartArm, OnceInv, TokenInv, PhaseInv
      <4>4. CallsKept /\ \A c \in Callers : ~Arming(c)'
        BY <4>1, <4>3 DEF CallsKept, Arming
      <4>5. /\ startq[id] # NoId
            /\ \A s \in Slots : Busy(s) => slot[s].id # id
            /\ effects[id][life] = 0 /\ row[id].state # "absent"
        BY <3>2 DEF StartArm, OnceInv, TokenInv, OneTokenInv, UnspentInv,
                    AbsentInv
      <4>6. QED
        BY <4>1, <4>2, <4>4, <4>5, ArmStep
    <3>3. CASE StartReturns \/ Signal \/ Stop \/ StopReturns
      <4>1. SlotsKept
        BY <3>3 DEF StartReturns, Signal, Stop, StopReturns, SlotsKept, Busy,
                    IdleSlot
      <4>2. CallsKept /\ RowsKept /\ StartqKept
        BY <3>3 DEF StartReturns, Signal, Stop, StopReturns, CallsKept,
                    RowsKept, StartqKept, Arming, OnceInv, TokenInv, OneTokenInv
      <4>3. QED
        BY QuietStep, <3>3, <4>1, <4>2
        DEF StartReturns, Signal, Stop, StopReturns
    <3>4. CASE LoseMemory
      <4>1. SlotsKept /\ CallsKept
        BY <3>4 DEF LoseMemory, SlotsKept, CallsKept, Busy, Arming, IdleSlot,
                    IdleCall
      <4>2. RowsKept /\ StartqKept
        BY <3>4 DEF LoseMemory, RowsKept, StartqKept
      <4>3. QED
        BY QuietStep, <3>4, <4>1, <4>2 DEF LoseMemory
    <3>5. QED
      BY <2>4, <3>1, <3>2, <3>3, <3>4 DEF Lifecycle, Exit, Crash
  <2>5. QED
    BY <2>1, <2>2, <2>3, <2>4 DEF Next
<1>3. OnceInv => AtMostOncePerLife
  BY DEF OnceInv, TokenInv
<1>4. QED
  BY <1>1, <1>2, <1>3, TypeCorrect, PTL DEF Spec

-----------------------------------------------------------------------------
(* Acknowledged cancels *)

\* Without schedule.update no call rewrites a settled row as pending, and a
\* call that is about to stop the timer has stored its cancellation.
CallsInv ==
    \A c \in Callers :
        /\ call[c].pc # "updatePut"
        /\ call[c].pc = "cancelTimer" => row[call[c].id].state \in Terminal

\* A settled row stays settled.
LEMMA SettledStays ==
    ASSUME TypeOK, CallsInv, [Next]_vars, NEW id \in Ids, row[id].state \in Terminal
    PROVE  row'[id].state \in Terminal
<1>1. CASE row' = row
  BY <1>1
<1>2. ASSUME NEW s \in Slots, FirePersist(s) PROVE row'[id].state \in Terminal
  <2>1. slot[s].out \in {"fired", "failed"} /\ slot[s].id \in Ids
    BY <1>2, BusySlots DEF FirePersist, TypeOK
  <2>2. QED
    BY <1>2, <2>1 DEF FirePersist, StateFor, Terminal, TypeOK
<1>3. ASSUME NEW c \in Callers, Handler(c) PROVE row'[id].state \in Terminal
  <2>1. ASSUME NEW i \in Ids, NEW f \in Times, SendPut(c, i, f) PROVE row'[id].state \in Terminal
    <3>1. i # id
      BY <2>1 DEF SendPut, Insertable, Terminal
    <3>2. QED
      BY <2>1, <3>1 DEF SendPut, TypeOK
  <2>2. CASE CancelPut(c)
    <3>1. call[c].id \in Ids
      BY <2>2, BusyCalls DEF CancelPut, TypeOK
    <3>2. QED
      BY <2>2, <3>1 DEF CancelPut, Terminal, TypeOK
  <2>3. ~UpdatePut(c)
    BY DEF UpdatePut, CallsInv
  <2>4. QED
    BY <1>1, <1>3, <2>1, <2>2, <2>3
    DEF Handler, SendRefused, UpdateGet, CancelGet, CancelDone, PutFails, CallArm, vars
<1>4. CASE Lifecycle
  BY <1>1, <1>4
  DEF Lifecycle, StartList, StartArm, StartReturns, Signal, Stop, StopReturns, Exit, Crash, LoseMemory
<1>5. QED
  BY <1>1, <1>2, <1>3, <1>4
  DEF Next, Tick, Expire, Callback, Fire, FireGet, FireCheck, FireAct, vars

LEMMA CallsStep ==
    ASSUME TypeOK, CallsInv, "update" \notin Ops, [Next]_vars
    PROVE  CallsInv'
<1> SUFFICES ASSUME NEW d \in Callers
             PROVE  /\ call'[d].pc # "updatePut"
                    /\ call'[d].pc = "cancelTimer" => row'[call'[d].id].state \in Terminal
  BY DEF CallsInv
<1>1. CASE call'[d] = call[d]
  <2>1. call[d].pc = "cancelTimer" => call[d].id \in Ids
    BY BusyCalls DEF TypeOK
  <2>2. QED
    BY <1>1, <2>1, SettledStays DEF CallsInv
<1>2. CASE call'[d].pc = "idle"
  BY <1>2
<1>3. ASSUME NEW c \in Callers, Handler(c), call'[d] # call[d], call'[d].pc # "idle"
      PROVE  /\ call'[d].pc # "updatePut"
             /\ call'[d].pc = "cancelTimer" => row'[call'[d].id].state \in Terminal
  <2>1. CASE CancelPut(c)
    <3>1. call[c].id \in Ids /\ d = c
      BY <1>3, <2>1, BusyCalls DEF CancelPut, TypeOK
    <3>2. QED
      BY <2>1, <3>1 DEF CancelPut, Terminal, TypeOK
  <2>2. ASSUME NEW i \in Ids, NEW f \in Times, SendPut(c, i, f)
        PROVE  call'[d].pc \notin {"updatePut", "cancelTimer"}
    BY <1>3, <2>2 DEF SendPut, TypeOK
  <2>3. ASSUME NEW i \in Ids, CancelGet(c, i)
        PROVE  call'[d].pc \notin {"updatePut", "cancelTimer"}
    BY <1>3, <2>3 DEF CancelGet, TypeOK
  <2>4. ~UpdatePut(c) /\ \A i \in Ids, f \in Times : ~UpdateGet(c, i, f)
    BY DEF UpdatePut, CallsInv, UpdateGet, Serving
  <2>5. ~(CancelDone(c) \/ PutFails(c) \/ CallArm(c))
    BY <1>3 DEF CancelDone, PutFails, CallArm, IdleCall, TypeOK
  <2>6. ~\E i \in Ids, f \in Times : SendRefused(c, i, f)
    BY <1>3 DEF SendRefused, vars
  <2>7. QED
    BY <1>3, <2>1, <2>2, <2>3, <2>4, <2>5, <2>6 DEF Handler
<1>4. CASE Lifecycle
  BY <1>1, <1>2, <1>4
  DEF Lifecycle, StartList, StartArm, StartReturns, Signal, Stop, StopReturns, Exit, Crash,
      LoseMemory, IdleCall
<1>5. CASE call' = call
  BY <1>1, <1>5
<1>6. QED
  BY <1>1, <1>2, <1>3, <1>4, <1>5
  DEF Next, Tick, Expire, Callback, Fire, FireGet, FireCheck, FireAct, FirePersist, vars

LEMMA CallsInvHolds ==
    ASSUME "update" \notin Ops
    PROVE  Spec => []CallsInv
<1>1. Init => CallsInv
  BY DEF Init, CallsInv, IdleCall
<1>2. TypeOK /\ CallsInv /\ [Next]_vars => CallsInv'
  BY CallsStep
<1>3. QED
  BY <1>1, <1>2, TypeCorrect, PTL DEF Spec

\* A schedule.cancel that was answered "cancelled" is durable over every
\* interleaving with fires, other calls, shutdowns, crashes and boots, the
\* REST listener's calls included: whatever a fire in flight still stores,
\* the row is never pending again. Clients that call schedule.update can
\* bring it back: its store.Update writes the copy it read before.
THEOREM CancelIsDurableHolds ==
    ASSUME "update" \notin Ops
    PROVE  Spec => []CancelIsDurable
<1>1. Init => CancelIsDurable
  BY DEF Init, CancelIsDurable
<1>2. TypeOK /\ CallsInv /\ CancelIsDurable /\ [Next]_vars => CancelIsDurable'
  <2> SUFFICES ASSUME TypeOK, CallsInv, CancelIsDurable, [Next]_vars, NEW id \in acked'
               PROVE  row'[id].state \in Terminal
    BY DEF CancelIsDurable
  <2>1. CASE id \in acked
    BY <2>1, SettledStays DEF CancelIsDurable, TypeOK
  <2>2. ASSUME NEW c \in Callers, CancelDone(c), id = call[c].id PROVE row'[id].state \in Terminal
    <3>1. id \in Ids /\ row[id].state \in Terminal
      BY <2>2, BusyCalls DEF CancelDone, CallsInv, TypeOK
    <3>2. QED
      BY <3>1, SettledStays
  <2>3. id \in acked \/ \E c \in Callers : CancelDone(c) /\ id = call[c].id
    <3>1. ASSUME NEW c \in Callers, Handler(c)
          PROVE  acked' = acked \/ (CancelDone(c) /\ acked' = acked \cup {call[c].id})
      BY <3>1 DEF Handler, SendPut, SendRefused, UpdateGet, CancelGet, CancelPut, CancelDone,
                  UpdatePut, PutFails, CallArm, vars
    <3>2. CASE Lifecycle
      BY <3>2
      DEF Lifecycle, StartList, StartArm, StartReturns, Signal, Stop, StopReturns, Exit, Crash, LoseMemory
    <3>3. QED
      BY <3>1, <3>2
      DEF Next, Tick, Expire, Callback, Fire, FireGet, FireCheck, FireAct, FirePersist, vars
  <2>4. QED
    BY <2>1, <2>2, <2>3
<1>3. QED
  BY <1>1, <1>2, CallsInvHolds, TypeCorrect, PTL DEF Spec

-----------------------------------------------------------------------------
(* Stranded rows *)

\* Something in the daemon's memory still stands for the schedule: its timer
\* or fire, its place in Start's list, or the call that will arm it.
Awaited(id) ==
    \/ \E s \in Slots : slot[s].id = id
    \/ startq[id] # NoId
    \/ \E c \in Callers : call[c].pc = "arm" /\ call[c].id = id

StrandInv ==
    /\ proc \in {"starting", "up"} /\ errors = 0 =>
         \A id \in Ids : row[id].state = "pending" => Awaited(id)
    /\ proc = "up" => \A id \in Ids : startq[id] = NoId

\* Arming one schedule leaves the others' timers alone.
LEMMA ArmAwaits ==
    ASSUME TypeOK, MapNamesLiveTimers, NEW id \in Ids, NEW f \in Times, Arm(id, f), ~stopped
    PROVE  /\ \E s \in Slots : slot'[s].id = id
           /\ \A j \in Ids, s \in Slots : j # id /\ slot[s].id = j => slot'[s].id = j
<1>1. PICK t \in Slots :
        /\ slot[t].pc = "idle"
        /\ timers' = [timers EXCEPT ![id] = t]
        /\ slot' = [StopTimer(id) EXCEPT
                      ![t] = [pc |-> "armed", id |-> id,
                              at |-> ExpiryOf(f), out |-> "none"]]
  BY DEF Arm
<1>2. slot'[t].id = id
  BY <1>1 DEF StopTimer
<1>3. ASSUME NEW j \in Ids, NEW s \in Slots, j # id, slot[s].id = j PROVE slot'[s].id = j
  <2>1. s # t
    <3>1. slot[t] = IdleSlot
      BY <1>1 DEF TypeOK, Slot, BusySlot
    <3>2. QED
      BY <1>3, <3>1, BoundsAssumption DEF IdleSlot
  <2>2. s # timers[id]
    BY <1>3, BoundsAssumption DEF MapNamesLiveTimers
  <2>3. slot'[s] = slot[s]
    BY <1>1, <2>1, <2>2 DEF StopTimer
  <2>4. QED
    BY <1>3, <2>3
<1>4. QED
  BY <1>2, <1>3

LEMMA StrandFire ==
    ASSUME TypeOK, StrandInv, NEW s \in Slots, Expire(s) \/ Callback(s) \/ Fire(s),
           proc \in {"starting", "up"}, errors' = 0, errors = 0,
           NEW j \in Ids, row'[j].state = "pending"
    PROVE  Awaited(j)'
<1>1. ~stopped /\ ~ctxDone
  BY DEF stopped, ctxDone
<1>2. startq' = startq /\ call' = call /\ proc' = proc
  BY DEF Expire, Callback, Fire, FireGet, FireCheck, FireAct, FirePersist
<1>3. row[j].state = "pending"
  <2>1. CASE row' = row
    BY <2>1
  <2>2. CASE FirePersist(s)
    <3>1. slot[s].out \in {"fired", "failed"} /\ slot[s].id \in Ids
      BY <2>2, BusySlots DEF FirePersist, TypeOK
    <3>2. QED
      BY <2>2, <3>1 DEF FirePersist, StateFor, TypeOK
  <2>3. QED
    BY <2>1, <2>2 DEF Expire, Callback, Fire, FireGet, FireCheck, FireAct
<1>4. Awaited(j)
  BY <1>3 DEF StrandInv
<1>5. CASE \E u \in Slots : slot[u].id = j
  <2>1. PICK u \in Slots : slot[u].id = j
    BY <1>5
  <2>2. slot'[u].id = j
    <3>1. CASE u # s
      BY <2>1, <3>1
      DEF Expire, Callback, Fire, FireGet, FireCheck, FireAct, FirePersist, Become, Finish, TypeOK
    <3>2. CASE u = s
      <4>1. ASSUME NEW pc, NEW at, NEW out, Become(s, pc, at, out) PROVE slot'[s].id = slot[s].id
        BY <4>1 DEF Become, TypeOK
      <4>2. CASE FireGet(s)
        <5>1. row[slot[s].id].state = "pending"
          BY <1>3, <2>1, <3>2
        <5>2. QED
          BY <1>1, <2>1, <3>2, <4>1, <4>2, <5>1 DEF FireGet, IOError
      <4>3. CASE FirePersist(s)
        <5>1. row' = [row EXCEPT ![slot[s].id] =
                       [state |-> StateFor(slot[s].out), fireAt |-> slot[s].at]]
          BY <1>1, <4>3 DEF FirePersist, IOError
        <5>2. row'[j].state = slot[s].out
          BY <2>1, <3>2, <5>1 DEF StateFor, TypeOK
        <5>3. slot[s].out \in {"fired", "failed"}
          BY <4>3, BusySlots DEF FirePersist, TypeOK
        <5>4. QED
          BY <5>2, <5>3
      <4>4. CASE Expire(s) \/ Callback(s) \/ FireCheck(s) \/ FireAct(s)
        BY <1>1, <2>1, <3>2, <4>1, <4>4 DEF Expire, Callback, FireCheck, FireAct
      <4>5. QED
        BY <4>2, <4>3, <4>4 DEF Fire
    <3>3. QED
      BY <3>1, <3>2
  <2>3. QED
    BY <2>2 DEF Awaited
<1>6. QED
  BY <1>2, <1>4, <1>5 DEF Awaited

LEMMA StrandHandler ==
    ASSUME TypeOK, MapNamesLiveTimers, CallsInv, StrandInv, NEW c \in Callers, Handler(c),
           proc \in {"starting", "up"}, errors = 0, NEW j \in Ids, row'[j].state = "pending"
    PROVE  Awaited(j)'
<1>1. ~stopped
  BY DEF stopped
<1>2. startq' = startq
  BY DEF Handler, SendPut, SendRefused, UpdateGet, CancelGet, CancelPut, CancelDone, UpdatePut,
         PutFails, CallArm, vars
<1>3. ASSUME row[j].state = "pending",
             \A s \in Slots : slot[s].id = j => slot'[s].id = j,
             \A d \in Callers : call[d].pc = "arm" /\ call[d].id = j => call'[d] = call[d]
      PROVE  Awaited(j)'
  <2>1. Awaited(j)
    BY <1>3 DEF StrandInv
  <2>2. QED
    BY <1>2, <1>3, <2>1 DEF Awaited
<1>4. ASSUME NEW i \in Ids, NEW f \in Times, SendPut(c, i, f) PROVE Awaited(j)'
  <2>1. CASE j = i
    <3>1. call'[c].pc = "arm" /\ call'[c].id = j
      BY <1>4, <2>1 DEF SendPut, TypeOK
    <3>2. QED
      BY <3>1 DEF Awaited
  <2>2. CASE j # i
    <3>1. row[j].state = "pending"
      BY <1>4, <2>2 DEF SendPut, TypeOK
    <3>2. \A d \in Callers : call[d].pc = "arm" => call'[d] = call[d]
      BY <1>4 DEF SendPut, TypeOK
    <3>3. QED
      BY <1>3, <1>4, <3>1, <3>2 DEF SendPut
  <2>3. QED
    BY <2>1, <2>2
<1>5. ASSUME NEW i \in Ids, CancelGet(c, i) PROVE Awaited(j)'
  <2>1. \A d \in Callers : call[d].pc = "arm" => call'[d] = call[d]
    BY <1>5 DEF CancelGet, TypeOK
  <2>2. QED
    BY <1>3, <1>5, <2>1 DEF CancelGet
<1>6. ASSUME NEW i \in Ids, NEW f \in Times, UpdateGet(c, i, f) PROVE Awaited(j)'
  <2>1. \A d \in Callers : call[d].pc = "arm" => call'[d] = call[d]
    BY <1>6 DEF UpdateGet, TypeOK
  <2>2. QED
    BY <1>3, <1>6, <2>1 DEF UpdateGet
<1>7. ASSUME NEW i \in Ids, NEW f \in Times, SendRefused(c, i, f) PROVE Awaited(j)'
  BY <1>3, <1>7 DEF SendRefused, vars
<1>8. CASE CancelPut(c)
  <2>1. call[c].id \in Ids
    BY <1>8, BusyCalls DEF CancelPut, TypeOK
  <2>2. row[j].state = "pending"
    BY <1>8, <2>1 DEF CancelPut, TypeOK
  <2>3. \A d \in Callers : call[d].pc = "arm" => call'[d] = call[d]
    BY <1>8 DEF CancelPut, TypeOK
  <2>4. QED
    BY <1>3, <1>8, <2>2, <2>3 DEF CancelPut
<1>9. CASE PutFails(c)
  <2>1. \A d \in Callers : call[d].pc = "arm" => call'[d] = call[d]
    BY <1>9 DEF PutFails, TypeOK
  <2>2. QED
    BY <1>3, <1>9, <2>1 DEF PutFails
<1>10. CASE CancelDone(c)
  <2>1. call[c].id \in Ids /\ row[call[c].id].state \in Terminal
    BY <1>10, BusyCalls DEF CancelDone, CallsInv, TypeOK
  <2>2. j # call[c].id /\ row[j].state = "pending"
    BY <1>10, <2>1 DEF CancelDone, Terminal
  <2>3. ASSUME NEW s \in Slots, slot[s].id = j PROVE slot'[s].id = j
    <3>1. s # timers[call[c].id]
      BY <2>1, <2>2, <2>3, BoundsAssumption DEF MapNamesLiveTimers
    <3>2. QED
      BY <1>10, <2>3, <3>1 DEF CancelDone, CancelTimer, StopTimer
  <2>4. \A d \in Callers : call[d].pc = "arm" => call'[d] = call[d]
    BY <1>10 DEF CancelDone, TypeOK
  <2>5. QED
    BY <1>3, <2>2, <2>3, <2>4
<1>11. CASE CallArm(c)
  <2>1. call[c].id \in Ids /\ call[c].fireAt \in Times /\ Arm(call[c].id, call[c].fireAt)
    BY <1>11, BusyCalls DEF CallArm, TypeOK
  <2>2. /\ \E s \in Slots : slot'[s].id = call[c].id
        /\ \A k \in Ids, s \in Slots : k # call[c].id /\ slot[s].id = k => slot'[s].id = k
    BY <1>1, <2>1, ArmAwaits
  <2>3. CASE j = call[c].id
    BY <2>2, <2>3 DEF Awaited
  <2>4. CASE j # call[c].id
    <3>1. \A d \in Callers : call[d].id = j => call'[d] = call[d]
      BY <1>11, <2>4 DEF CallArm, TypeOK
    <3>2. QED
      BY <1>3, <1>11, <2>2, <2>4, <3>1 DEF CallArm
  <2>5. QED
    BY <2>3, <2>4
<1>12. ~UpdatePut(c)
  BY DEF UpdatePut, CallsInv
<1>13. QED
  BY <1>4, <1>5, <1>6, <1>7, <1>8, <1>9, <1>10, <1>11, <1>12 DEF Handler

LEMMA StrandStep ==
    ASSUME TypeOK, MapNamesLiveTimers, CallsInv, StrandInv, [Next]_vars
    PROVE  StrandInv'
<1>1. proc' = "up" => \A id \in Ids : startq'[id] = NoId
  <2>1. ASSUME NEW c \in Callers, Handler(c) PROVE proc' = proc /\ startq' = startq
    BY <2>1 DEF Handler, SendPut, SendRefused, UpdateGet, CancelGet, CancelPut, CancelDone,
                UpdatePut, PutFails, CallArm, vars
  <2>2. CASE Lifecycle
    BY <2>2
    DEF Lifecycle, StartList, StartArm, StartReturns, Signal, Stop, StopReturns, Exit, Crash,
        LoseMemory, StrandInv
  <2>3. CASE proc' = proc /\ startq' = startq
    BY <2>3 DEF StrandInv
  <2>4. QED
    BY <2>1, <2>2, <2>3
    DEF Next, Tick, Expire, Callback, Fire, FireGet, FireCheck, FireAct, FirePersist, vars
<1>2. ASSUME proc' \in {"starting", "up"}, errors' = 0, NEW j \in Ids, row'[j].state = "pending"
      PROVE  Awaited(j)'
  <2>1. errors = 0
    <3>1. errors \in Nat
      BY BoundsAssumption DEF TypeOK
    <3>2. errors' = errors \/ errors' = errors + 1
      <4>1. ASSUME NEW c \in Callers, Handler(c) PROVE errors' = errors
        BY <4>1 DEF Handler, SendPut, SendRefused, UpdateGet, CancelGet, CancelPut, CancelDone,
                    UpdatePut, PutFails, CallArm, vars, envVars
      <4>2. CASE Lifecycle
        BY <4>2
        DEF Lifecycle, StartList, StartArm, StartReturns, Signal, Stop, StopReturns, Exit, Crash,
            LoseMemory, envVars
      <4>3. QED
        BY <4>1, <4>2
        DEF Next, Tick, Expire, Callback, Fire, FireGet, FireCheck, FireAct, FirePersist, IOError,
            vars, envVars
    <3>3. QED
      BY <1>2, <3>1, <3>2
  <2>2. ASSUME NEW s \in Slots, Expire(s) \/ Callback(s) \/ Fire(s) PROVE Awaited(j)'
    <3>1. proc' = proc
      BY <2>2 DEF Expire, Callback, Fire, FireGet, FireCheck, FireAct, FirePersist
    <3>2. QED
      BY <1>2, <2>1, <2>2, <3>1, StrandFire
  <2>3. ASSUME NEW c \in Callers, Handler(c) PROVE Awaited(j)'
    <3>1. proc' = proc
      BY <2>3 DEF Handler, SendPut, SendRefused, UpdateGet, CancelGet, CancelPut, CancelDone,
                  UpdatePut, PutFails, CallArm, vars
    <3>2. QED
      BY <1>2, <2>1, <2>3, <3>1, StrandHandler
  <2>4. CASE StartList
    <3>1. startq'[j] = row[j].fireAt /\ row[j].fireAt \in Times
      BY <1>2, <2>4 DEF StartList, Listed, TypeOK, Row
    <3>2. startq'[j] # NoId
      BY <3>1, BoundsAssumption
    <3>3. QED
      BY <3>2 DEF Awaited
  <2>5. ASSUME NEW id \in Ids, StartArm(id) PROVE Awaited(j)'
    <3>1. proc = "starting" /\ row' = row /\ call' = call
      BY <2>5 DEF StartArm
    <3>2. Awaited(j)
      BY <1>2, <2>1, <3>1 DEF StrandInv
    <3>3. startq[id] \in Times /\ Arm(id, startq[id]) /\ ~stopped
      BY <2>5, <3>1 DEF StartArm, TypeOK, stopped
    <3>4. /\ \E s \in Slots : slot'[s].id = id
          /\ \A k \in Ids, s \in Slots : k # id /\ slot[s].id = k => slot'[s].id = k
      BY <3>3, ArmAwaits
    <3>5. CASE j = id
      BY <3>4, <3>5 DEF Awaited
    <3>6. CASE j # id
      <4>1. startq'[j] = startq[j]
        BY <2>5, <3>6 DEF StartArm, TypeOK
      <4>2. QED
        BY <3>1, <3>2, <3>4, <3>6, <4>1 DEF Awaited
    <3>7. QED
      BY <3>5, <3>6
  <2>6. CASE StartReturns \/ Tick \/ UNCHANGED vars
    <3>1. /\ row' = row /\ startq' = startq /\ slot' = slot /\ call' = call
          /\ proc \in {"starting", "up"}
      BY <1>2, <2>6 DEF StartReturns, Tick, vars
    <3>2. Awaited(j)
      BY <1>2, <2>1, <3>1 DEF StrandInv
    <3>3. QED
      BY <3>1, <3>2 DEF Awaited
  <2>7. ~(Signal \/ Stop \/ StopReturns \/ Exit \/ Crash)
    BY <1>2 DEF Signal, Stop, StopReturns, Exit, Crash, LoseMemory
  <2>8. QED
    BY <2>2, <2>3, <2>4, <2>5, <2>6, <2>7 DEF Next, Lifecycle
<1>3. QED
  BY <1>1, <1>2 DEF StrandInv

\* While the daemon is up and no store call has failed, a pending row that no
\* call is working on has its timer or its fire: Start's list, the INSERT
\* followed by Schedule, the callback's critical section and Fire's early
\* returns never drop one, over any number of schedules and boots and with
\* the REST listener calling while Start still runs.
THEOREM NoStrandedRowHolds ==
    ASSUME "update" \notin Ops
    PROVE  Spec => []NoStrandedRow
<1>1. Init => StrandInv
  BY DEF Init, StrandInv
<1>2. TypeOK /\ MapNamesLiveTimers /\ CallsInv /\ StrandInv /\ [Next]_vars => StrandInv'
  BY StrandStep
<1>3. StrandInv => NoStrandedRow
  BY DEF StrandInv, NoStrandedRow, Awaited
<1>4. QED
  BY <1>1, <1>2, <1>3, TypeCorrect, MapNamesLiveTimersHolds, CallsInvHolds, PTL DEF Spec

-----------------------------------------------------------------------------
(* The time of a send *)

\* A timer is set for its row's fire_at or later, and the callback it starts
\* runs when that has passed; from FireGet on the copy holds the same fire_at.
DueSlot(s) ==
    slot[s].pc # "idle" =>
        /\ row[slot[s].id].state # "absent"
        /\ slot[s].pc = "armed" => row[slot[s].id].fireAt <= slot[s].at
        /\ slot[s].pc # "armed" => row[slot[s].id].fireAt <= now
        /\ slot[s].pc \in {"check", "act", "persist"} => slot[s].at = row[slot[s].id].fireAt

\* Every copy of a row in a call or in Start's list has the row's fire_at.
DueCall(c) ==
    call[c].pc \in {"cancelPut", "arm"} =>
        row[call[c].id].state # "absent" /\ call[c].fireAt = row[call[c].id].fireAt

DueListed(id) == startq[id] # NoId => row[id].state # "absent" /\ startq[id] = row[id].fireAt

DueInv ==
    /\ \A s \in Slots : DueSlot(s)
    /\ \A c \in Callers : DueCall(c)
    /\ \A id \in Ids : DueListed(id)

\* Without schedule.update a row's fire_at never changes.
LEMMA FireAtStays ==
    ASSUME TypeOK, CallsInv, DueInv, [Next]_vars, NEW id \in Ids, row[id].state # "absent"
    PROVE  row'[id].state # "absent" /\ row'[id].fireAt = row[id].fireAt
<1>1. CASE row' = row
  BY <1>1
<1>2. ASSUME NEW s \in Slots, FirePersist(s)
      PROVE  row'[id].state # "absent" /\ row'[id].fireAt = row[id].fireAt
  <2>1. slot[s].out \in {"fired", "failed"} /\ slot[s].id \in Ids
    BY <1>2, BusySlots DEF FirePersist, TypeOK
  <2>2. slot[s].at = row[slot[s].id].fireAt
    BY <1>2 DEF FirePersist, DueInv, DueSlot
  <2>3. QED
    BY <1>2, <2>1, <2>2 DEF FirePersist, StateFor, TypeOK
<1>3. ASSUME NEW c \in Callers, Handler(c)
      PROVE  row'[id].state # "absent" /\ row'[id].fireAt = row[id].fireAt
  <2>1. ASSUME NEW i \in Ids, NEW f \in Times, SendPut(c, i, f)
        PROVE  row'[id] = row[id]
    BY <2>1 DEF SendPut, Insertable, TypeOK
  <2>2. CASE CancelPut(c)
    <3>1. call[c].id \in Ids /\ call[c].fireAt = row[call[c].id].fireAt
      BY <2>2, BusyCalls DEF CancelPut, TypeOK, DueInv, DueCall
    <3>2. QED
      BY <2>2, <3>1 DEF CancelPut, TypeOK
  <2>3. ~UpdatePut(c)
    BY DEF UpdatePut, CallsInv
  <2>4. QED
    BY <1>1, <1>3, <2>1, <2>2, <2>3
    DEF Handler, SendRefused, UpdateGet, CancelGet, CancelDone, PutFails, CallArm, vars
<1>4. CASE Lifecycle
  BY <1>1, <1>4
  DEF Lifecycle, StartList, StartArm, StartReturns, Signal, Stop, StopReturns, Exit, Crash, LoseMemory
<1>5. QED
  BY <1>1, <1>2, <1>3, <1>4
  DEF Next, Tick, Expire, Callback, Fire, FireGet, FireCheck, FireAct, vars

LEMMA ClockAdvances == TypeOK /\ [Next]_vars => now' = now \/ now' = now + 1
<1> SUFFICES ASSUME [Next]_vars PROVE now' = now \/ now' = now + 1
  OBVIOUS
<1>1. ASSUME NEW c \in Callers, Handler(c) PROVE now' = now
  BY <1>1 DEF Handler, SendPut, SendRefused, UpdateGet, CancelGet, CancelPut, CancelDone,
              UpdatePut, PutFails, CallArm, vars, envVars
<1>2. CASE Lifecycle
  BY <1>2
  DEF Lifecycle, StartList, StartArm, StartReturns, Signal, Stop, StopReturns, Exit, Crash,
      LoseMemory, envVars
<1>3. QED
  BY <1>1, <1>2
  DEF Next, Tick, Expire, Callback, Fire, FireGet, FireCheck, FireAct, FirePersist, vars, envVars

\* A slot the step leaves alone.
LEMMA DueSlotKept ==
    ASSUME TypeOK, CallsInv, DueInv, [Next]_vars, NEW t \in Slots,
           slot'[t] = slot[t] \/ slot'[t].pc = "idle"
    PROVE  DueSlot(t)'
<1>1. CASE slot'[t].pc = "idle"
  BY <1>1 DEF DueSlot
<1>2. CASE slot'[t] = slot[t] /\ slot[t].pc # "idle"
  <2>1. slot[t].id \in Ids /\ DueSlot(t)
    BY <1>2, BusySlots DEF TypeOK, DueInv
  <2>2. row[slot[t].id].state # "absent" /\ row[slot[t].id].fireAt \in Times /\ now \in Times
    BY <1>2, <2>1 DEF DueSlot, TypeOK, Row
  <2>3. row'[slot[t].id].state # "absent" /\ row'[slot[t].id].fireAt = row[slot[t].id].fireAt
    BY <2>1, <2>2, FireAtStays
  <2>4. row[slot[t].id].fireAt <= now => row[slot[t].id].fireAt <= now'
    BY <2>2, ClockAdvances DEF Times
  <2>5. QED
    BY <1>2, <2>1, <2>3, <2>4 DEF DueSlot
<1>3. QED
  BY <1>1, <1>2

LEMMA DueArmed ==
    ASSUME TypeOK, CallsInv, DueInv, [Next]_vars, NEW id \in Ids,
           row[id].state # "absent", Arm(id, row[id].fireAt), NEW t \in Slots
    PROVE  DueSlot(t)'
<1>1. CASE slot' = slot
  BY <1>1, DueSlotKept
<1>2. CASE slot' # slot
  <2>1. PICK s \in Slots :
          slot' = [StopTimer(id) EXCEPT
                      ![s] = [pc |-> "armed", id |-> id,
                              at |-> ExpiryOf(row[id].fireAt), out |-> "none"]]
    BY <1>2 DEF Arm, runnerVars
  <2>2. CASE t = s
    <3>1. slot'[t] = [pc |-> "armed", id |-> id, at |-> ExpiryOf(row[id].fireAt), out |-> "none"]
      BY <2>1, <2>2 DEF StopTimer
    <3>2. row[id].fireAt \in Times /\ now \in Times
      BY DEF TypeOK, Row
    <3>3. row[id].fireAt <= ExpiryOf(row[id].fireAt)
      BY <3>2 DEF ExpiryOf, Times
    <3>4. row'[id].state # "absent" /\ row'[id].fireAt = row[id].fireAt
      BY FireAtStays
    <3>5. QED
      BY <3>1, <3>3, <3>4 DEF DueSlot
  <2>3. CASE t # s
    <3>1. slot'[t] = slot[t] \/ slot'[t].pc = "idle"
      BY <2>1, <2>3, StopTimerAt DEF IdleSlot, StopTimer
    <3>2. QED
      BY <3>1, DueSlotKept
  <2>4. QED
    BY <2>2, <2>3
<1>3. QED
  BY <1>1, <1>2

LEMMA DueFire ==
    ASSUME TypeOK, CallsInv, DueInv, [Next]_vars,
           NEW s \in Slots, Expire(s) \/ Callback(s) \/ Fire(s), NEW t \in Slots
    PROVE  DueSlot(t)'
<1>1. CASE t # s
  <2>1. slot'[t] = slot[t]
    BY <1>1
    DEF Expire, Callback, Fire, FireGet, FireCheck, FireAct, FirePersist, Become, Finish, TypeOK
  <2>2. QED
    BY <2>1, DueSlotKept
<1>2. CASE t = s /\ slot'[s].pc # "idle"
  <2>1. slot[s].pc # "idle" /\ slot[s].id \in Ids /\ now' = now
    BY <1>2, BusySlots
    DEF Expire, Callback, Fire, FireGet, FireCheck, FireAct, FirePersist, envVars, TypeOK
  <2>2. DueSlot(s) /\ row[slot[s].id].state # "absent"
    BY <2>1 DEF DueInv, DueSlot
  <2>3. /\ row'[slot[s].id].state # "absent" /\ row'[slot[s].id].fireAt = row[slot[s].id].fireAt
        /\ row[slot[s].id].fireAt \in Times /\ slot[s].at \in Times /\ now \in Times
    BY <2>1, <2>2, FireAtStays, BusySlots DEF TypeOK, Row
  <2>4. ASSUME NEW pc, NEW at, NEW out, Become(s, pc, at, out)
        PROVE  slot'[s].pc = pc /\ slot'[s].id = slot[s].id /\ slot'[s].at = at
    BY <2>4 DEF Become, TypeOK
  <2>5. row[slot[s].id].fireAt <= now
    <3>1. CASE Expire(s)
      BY <2>2, <2>3, <3>1 DEF Expire, DueSlot, Times
    <3>2. CASE ~Expire(s)
      BY <2>2, <3>2
      DEF Callback, Fire, FireGet, FireCheck, FireAct, FirePersist, DueSlot
    <3>3. QED
      BY <3>1, <3>2
  <2>6. /\ slot'[s].id = slot[s].id /\ slot'[s].pc # "armed"
        /\ slot'[s].pc \in {"check", "act", "persist"} => slot'[s].at = row[slot[s].id].fireAt
    <3>0. ~Finish(s)
      BY <1>2 DEF Finish, IdleSlot, TypeOK
    <3>1. CASE Expire(s)
      BY <2>4, <3>1 DEF Expire
    <3>2. CASE Callback(s)
      BY <2>4, <3>2, <1>2 DEF Callback, IdleSlot, TypeOK
    <3>3. CASE FireGet(s)
      BY <2>4, <3>0, <3>3 DEF FireGet
    <3>4. CASE FireCheck(s)
      BY <2>2, <2>4, <3>4 DEF FireCheck, DueSlot
    <3>5. CASE FireAct(s)
      BY <2>2, <2>4, <3>5 DEF FireAct, DueSlot
    <3>6. CASE FirePersist(s)
      BY <3>0, <3>6 DEF FirePersist
    <3>7. QED
      BY <3>1, <3>2, <3>3, <3>4, <3>5, <3>6 DEF Fire
  <2>7. QED
    BY <1>2, <2>1, <2>3, <2>5, <2>6 DEF DueSlot
<1>3. CASE slot'[t].pc = "idle"
  BY <1>3, DueSlotKept
<1>4. QED
  BY <1>1, <1>2, <1>3

LEMMA DueStep ==
    ASSUME TypeOK, CallsInv, DueInv, "update" \notin Ops, [Next]_vars
    PROVE  DueInv'
<1>1. ASSUME NEW t \in Slots PROVE DueSlot(t)'
  <2>1. ASSUME NEW s \in Slots, Expire(s) \/ Callback(s) \/ Fire(s) PROVE DueSlot(t)'
    BY <2>1, DueFire
  <2>2. ASSUME NEW c \in Callers, Handler(c) PROVE DueSlot(t)'
    <3>1. CASE CallArm(c)
      <4>1. call[c].id \in Ids /\ row[call[c].id].state # "absent"
            /\ Arm(call[c].id, row[call[c].id].fireAt)
        BY <3>1, BusyCalls DEF CallArm, TypeOK, DueInv, DueCall
      <4>2. QED
        BY <4>1, DueArmed
    <3>2. CASE CancelDone(c)
      <4>1. slot'[t] = slot[t] \/ slot'[t].pc = "idle"
        BY <3>2, StopTimerAt DEF CancelDone, CancelTimer, IdleSlot
      <4>2. QED
        BY <4>1, DueSlotKept
    <3>3. CASE slot' = slot
      BY <3>3, DueSlotKept
    <3>4. QED
      BY <2>2, <3>1, <3>2, <3>3
      DEF Handler, SendPut, SendRefused, UpdateGet, CancelGet, CancelPut, UpdatePut, PutFails, vars
  <2>3. ASSUME NEW id \in Ids, StartArm(id) PROVE DueSlot(t)'
    <3>1. row[id].state # "absent" /\ Arm(id, row[id].fireAt)
      BY <2>3 DEF StartArm, DueInv, DueListed
    <3>2. QED
      BY <3>1, DueArmed
  <2>4. CASE slot' = slot \/ Stop \/ LoseMemory
    <3>1. slot'[t] = slot[t] \/ slot'[t].pc = "idle"
      BY <2>4 DEF Stop, LoseMemory, IdleSlot
    <3>2. QED
      BY <3>1, DueSlotKept
  <2>5. QED
    BY <2>1, <2>2, <2>3, <2>4
    DEF Next, Lifecycle, Tick, StartList, StartReturns, Signal, StopReturns, Exit, Crash, vars
<1>2. ASSUME NEW d \in Callers PROVE DueCall(d)'
  <2>1. CASE call'[d] = call[d]
    <3>1. call[d].pc \in {"cancelPut", "arm"} => call[d].id \in Ids
      BY BusyCalls DEF TypeOK
    <3>2. QED
      BY <2>1, <3>1, FireAtStays DEF DueInv, DueCall
  <2>2. CASE call'[d].pc \notin {"cancelPut", "arm"}
    BY <2>2 DEF DueCall
  <2>3. ASSUME NEW c \in Callers, Handler(c), call'[d] # call[d] PROVE DueCall(d)'
    <3>1. ASSUME NEW i \in Ids, NEW f \in Times, SendPut(c, i, f) PROVE DueCall(d)'
      <4>1. d = c /\ call'[d].id = i /\ call'[d].fireAt = f
        BY <2>3, <3>1 DEF SendPut, TypeOK
      <4>2. row'[i].state = "pending" /\ row'[i].fireAt = f
        BY <3>1 DEF SendPut, TypeOK
      <4>3. QED
        BY <4>1, <4>2 DEF DueCall
    <3>2. ASSUME NEW i \in Ids, CancelGet(c, i) PROVE DueCall(d)'
      <4>1. d = c /\ call'[d].id = i /\ call'[d].fireAt = row[i].fireAt /\ row[i].state # "absent"
        BY <2>3, <3>2 DEF CancelGet, TypeOK
      <4>2. row' = row
        BY <3>2 DEF CancelGet
      <4>3. QED
        BY <4>1, <4>2 DEF DueCall
    <3>3. CASE CancelPut(c) \/ CancelDone(c) \/ PutFails(c) \/ CallArm(c)
      <4>1. call'[d].pc \in {"cancelTimer", "idle"}
        BY <2>3, <3>3 DEF CancelPut, CancelDone, PutFails, CallArm, IdleCall, TypeOK
      <4>2. QED
        BY <2>2, <4>1
    <3>4. ~UpdatePut(c) /\ \A i \in Ids, f \in Times : ~UpdateGet(c, i, f) /\ ~SendRefused(c, i, f)
      BY <2>3 DEF UpdatePut, CallsInv, UpdateGet, Serving, SendRefused, vars
    <3>5. QED
      BY <2>3, <3>1, <3>2, <3>3, <3>4 DEF Handler
  <2>4. CASE call' = call
    BY <2>1, <2>4
  <2>5. CASE Lifecycle
    <3>1. call' = call \/ call'[d].pc = "idle"
      BY <2>5
      DEF Lifecycle, StartList, StartArm, StartReturns, Signal, Stop, StopReturns, Exit, Crash,
          LoseMemory, IdleCall
    <3>2. QED
      BY <2>2, <2>4, <3>1
  <2>6. QED
    BY <2>1, <2>3, <2>4, <2>5
    DEF Next, Tick, Expire, Callback, Fire, FireGet, FireCheck, FireAct, FirePersist, vars
<1>3. ASSUME NEW id \in Ids PROVE DueListed(id)'
  <2>1. CASE startq'[id] = startq[id]
    BY <2>1, FireAtStays DEF DueInv, DueListed
  <2>2. CASE startq'[id] = NoId
    BY <2>2 DEF DueListed
  <2>3. CASE StartList
    BY <2>3 DEF StartList, Listed, DueListed
  <2>4. ASSUME NEW i \in Ids, StartArm(i) PROVE startq'[id] = startq[id] \/ startq'[id] = NoId
    BY <2>4 DEF StartArm, TypeOK
  <2>5. CASE LoseMemory
    BY <2>2, <2>5 DEF LoseMemory
  <2>6. ASSUME NEW c \in Callers, Handler(c) PROVE startq' = startq
    BY <2>6 DEF Handler, SendPut, SendRefused, UpdateGet, CancelGet, CancelPut, CancelDone,
                UpdatePut, PutFails, CallArm, vars
  <2>7. QED
    BY <2>1, <2>2, <2>3, <2>4, <2>5, <2>6
    DEF Next, Lifecycle, Tick, Expire, Callback, Fire, FireGet, FireCheck, FireAct, FirePersist,
        StartReturns, Signal, Stop, StopReturns, Exit, Crash, vars
<1>4. QED
  BY <1>1, <1>2, <1>3 DEF DueInv

\* A message or draft never goes out before its row's fire_at, whether the
\* timer was set by the handler, by Start for a row that became due while
\* the daemon was down, or re-armed: arm's delay is never negative and a
\* callback never runs early.
THEOREM NeverEarlyHolds ==
    ASSUME "update" \notin Ops
    PROVE  Spec => NeverEarly
<1>1. Init => DueInv
  BY DEF Init, DueInv, DueSlot, DueCall, DueListed, IdleSlot, IdleCall
<1>2. TypeOK /\ CallsInv /\ DueInv /\ [Next]_vars => DueInv'
  BY DueStep
<1>3. TypeOK /\ DueInv /\ [Next]_vars =>
        [\A id \in Ids : effects'[id] # effects[id] => row[id].fireAt <= now]_vars
  <2> SUFFICES ASSUME TypeOK, DueInv, [Next]_vars, NEW id \in Ids, effects'[id] # effects[id]
               PROVE  row[id].fireAt <= now
    OBVIOUS
  <2>1. PICK s \in Slots : FireAct(s)
    <3>1. ASSUME NEW c \in Callers, Handler(c) PROVE effects' = effects
      BY <3>1 DEF Handler, SendPut, SendRefused, UpdateGet, CancelGet, CancelPut, CancelDone,
                  UpdatePut, PutFails, CallArm, vars
    <3>2. ~Lifecycle
      BY DEF Lifecycle, StartList, StartArm, StartReturns, Signal, Stop, StopReturns, Exit, Crash,
             LoseMemory
    <3>3. QED
      BY <3>1, <3>2
      DEF Next, Tick, Expire, Callback, Fire, FireGet, FireCheck, FirePersist, vars
  <2>2. slot[s].pc = "act" /\ slot[s].id \in Ids
    BY <2>1, BusySlots DEF FireAct, TypeOK
  <2>3. id = slot[s].id
    <3>1. effects' = effects \/ effects' = Counted(slot[s].id)
      BY <2>1 DEF FireAct
    <3>2. QED
      BY <2>2, <3>1 DEF Counted, TypeOK
  <2>4. QED
    BY <2>2, <2>3 DEF DueInv, DueSlot
<1>4. QED
  BY <1>1, <1>2, <1>3, CallsInvHolds, TypeCorrect, PTL DEF Spec, NeverEarly
=============================================================================
