----------------------------- MODULE Lifecycle -----------------------------
(***************************************************************************)
(* The composition root: the order in which `wad` opens its stores and     *)
(* starts its goroutines, and the two orders in which it takes them down,  *)
(* startupCleanup.run after a failed start and gracefulShutdown after the  *)
(* socket server returned.  Each is a program of steps; a shutdown step    *)
(* whose component never came up does nothing, as the nil checks have it.  *)
(*                                                                         *)
(* An actor is a goroutine, or a family of them, that works on the stores  *)
(* it uses.  In each behaviour one of them, lively, may be at work and the *)
(* others wait for work throughout, so that a join of theirs never blocks: *)
(* actors end on their own contexts and none waits for another, so two at  *)
(* work would show nothing that each does not show alone.                  *)
(***************************************************************************)
EXTENDS Naturals, Sequences

Stores == {"session", "history", "drafts", "schedule", "webhooks", "contacts",
           "events", "audit"}

\* The stores a goroutine works on.
Uses == [
    socket    |-> Stores,
    rest      |-> Stores,
    health    |-> {"session"},
    retention |-> {"history"},
    watcher   |-> {"audit"},
    sync      |-> {"history"},
    repair    |-> {"session"},
    bridge    |-> {},
    forward   |-> {},
    schedule  |-> {"schedule", "drafts", "audit", "session"},
    pump      |-> {"events"},
    inbound   |-> {"history", "session", "contacts"},
    webhooks  |-> {"webhooks"},
    watchdog  |-> {"session"}]

Actors == DOMAIN Uses

\* Goroutines nobody waits for: the websocket's handlers, the webhook worker
\* and the watchdog.
Unjoined == {"inbound", "webhooks", "watchdog"}

VARIABLES
    todo,       \* the steps each process still has to take: main, and the
                \* closes that closeWithTimeout runs beside it
    stage,      \* of main
    opened,     \* stores
    closed,     \* stores
    actor,      \* none, idle, busy or gone
    told,       \* actors whose context is cancelled or stop channel closed
    late,       \* actors that main gave up waiting for
    signals,    \* NotifyContext is in place
    signalled,
    lively

lifeVars == <<todo, stage, opened, closed, actor, told, late, signals, signalled, lively>>
flags == <<signals, signalled, lively>>

Move(do, of) == [do |-> do, of |-> of]

\* Startup: a store that must open, one the daemon can do without, anything
\* else that may fail, with and without a call of cleanup.run, a goroutine
\* that always starts and one that depends on the configuration.
Need(store) == Move("need", {store})
Offer(store) == Move("offer", {store})
Must == Move("must", {})
MustOrDie == Move("die", {})
CanDoWithout == Move("try", {})
Launch(actors) == Move("launch", actors)
MayLaunch(a) == Move("may", {a})
NotifyContext == Move("notify", {})

\* Shutdown: cancel, wait, wait for at most shutdownTimeout, close, and close
\* in a goroutine of its own that is given shutdownTimeout.
Tell(actors) == Move("tell", actors)
Join(a) == Move("join", {a})
JoinUpTo(a) == Move("await", {a})
Shut(store) == Move("close", {store})
ShutBeside(who) == Move("beside", {who})

-----------------------------------------------------------------------------
(* Startup *)

\* The profile and the exporter; crash output is only advice.
initRuntime == <<MustOrDie, MustOrDie, CanDoWithout>>

Migrate == <<MustOrDie>>

ensureDirs == <<MustOrDie>>

\* A failure of the session store finds nothing to take down.
OpenSession == <<Need("session")>>

OpenHistory == <<Need("history")>>

OpenDrafts == <<Need("drafts")>>

OpenSchedule == <<Need("schedule")>>

OpenWebhooks == <<Offer("webhooks")>>

OpenContacts == <<Offer("contacts")>>

OpenEvents == <<Offer("events")>>

openStores ==
    ensureDirs \o OpenSession \o OpenHistory \o OpenDrafts \o OpenSchedule
    \o OpenWebhooks \o OpenContacts \o OpenEvents

OpenLogAndLists == <<Need("audit"), Must, Must, Launch({"watcher"})>>

\* Open of the adapter: the device, the client, the history-sync worker, the
\* event handlers; a failed connect is left to the client's own retries.
OpenAdapter == <<Must, Launch({"sync", "inbound", "repair"})>>

\* A port that cannot be built is left out, and its methods with it.
buildPorts == <<CanDoWithout>>

selectTranscriber == <<MustOrDie>>

NewDispatcher == <<Launch({"bridge"})>>

newDispatcherAdapter == <<Launch({"forward"})>>

\* A health listener that cannot be bound is only logged.
startHealthHTTP == <<MayLaunch("health")>>

warnIfPublicBind == <<Must>>

buildAuthenticator == <<Must>>

buildRESTOptions == <<Must>>

NewServer == <<Must>>

\* Without WAD_REST_HTTP_ADDR none of it happens, and nothing fails.
startRESTHTTP ==
    warnIfPublicBind \o buildAuthenticator \o buildRESTOptions \o NewServer
    \o <<MayLaunch("rest")>>

startHTTP == <<NotifyContext>> \o startHealthHTTP \o startRESTHTTP

startWorkers == <<MayLaunch("pump"), MayLaunch("webhooks"), MayLaunch("schedule")>>

startWatchers == <<Must, MayLaunch("watchdog"), MayLaunch("retention")>>

\* Server.Run: the lock and the listener (a failure ends Run, and the daemon
\* with it), the requests until the signal, then no new ones, and a wait for
\* those under way that is cut short after the deadline by cancelling them.
ServerRun == <<Move("listen", {}), Launch({"socket"}), Move("serve", {}),
               Tell({"socket"}), Join("socket")>>

Startup ==
    initRuntime \o Migrate \o openStores \o OpenLogAndLists \o OpenAdapter \o buildPorts
    \o selectTranscriber \o NewDispatcher \o newDispatcherAdapter
    \o startHTTP \o startWorkers \o startWatchers \o ServerRun

-----------------------------------------------------------------------------
(* Shutdown *)

daemonCancel == <<Tell({"retention"})>>

shutdownHTTP ==
    <<Tell({"schedule"}), Join("schedule"), Tell({"rest"}), JoinUpTo("rest"),
      Tell({"health"}), JoinUpTo("health")>>

\* The same three stops, logged as startup-cleanup.
runHTTPShutdown == shutdownHTTP

waitRetention == <<JoinUpTo("retention")>>

\* Mutant: da.Close, then bridgeCancel.
CloseForwardFirst == <<Join("forward"), Tell({"forward"})>>

\* bridgeCancel, da.Close.
closeForward == <<Tell({"forward"}), Join("forward")>>

\* Close of the dispatcher, and of its bridge.
closeDispatcher == <<Tell({"bridge"}), Join("bridge")>>

\* Adapter.Close.
closeAdapter ==
    <<Tell({"sync", "inbound", "repair"}), Join("sync"), Join("repair"),
      Shut("history"), Shut("session")>>

shutdownWatcher == <<Tell({"watcher"}), Join("watcher")>>

runWatcherShutdown == shutdownWatcher

stopPump == <<Tell({"pump"}), Join("pump")>>

shutdownDispatchChain == closeForward \o <<ShutBeside("dispatcher"), ShutBeside("adapter")>>

shutdownStores ==
    <<Tell({"webhooks"}), Shut("webhooks"), Shut("schedule"), Shut("drafts"), Shut("contacts")>>
    \o stopPump \o <<Shut("events"), Shut("audit")>>

\* Mutant: waitRetention is forgotten.
GracefulWithoutRetention ==
    daemonCancel \o shutdownHTTP \o shutdownDispatchChain \o shutdownWatcher \o shutdownStores

gracefulShutdown ==
    daemonCancel \o shutdownHTTP \o waitRetention \o shutdownDispatchChain
    \o shutdownWatcher \o shutdownStores

runDispatchShutdown == closeForward \o closeDispatcher \o closeAdapter

\* History and session are closed here when no adapter took them over; closing
\* a store twice does nothing.
runStoresShutdown ==
    <<Shut("audit")>> \o stopPump
    \o <<Shut("events"), Shut("contacts"), Shut("webhooks"), Shut("schedule"),
         Shut("drafts"), Shut("history"), Shut("session")>>

cleanupRun ==
    daemonCancel \o runHTTPShutdown \o waitRetention \o runDispatchShutdown
    \o runWatcherShutdown \o runStoresShutdown

CloseProgram(who) == IF who = "dispatcher" THEN closeDispatcher ELSE closeAdapter

-----------------------------------------------------------------------------
Procs == {"main", "dispatcher", "adapter"}

LifeTypeOK ==
    /\ \A p \in Procs : Len(todo[p]) <= Len(Startup)
    /\ stage \in {"startup", "cleanup", "graceful", "exited"}
    /\ closed \subseteq opened /\ opened \subseteq Stores
    /\ actor \in [Actors -> {"none", "idle", "busy", "gone"}]
    /\ late \subseteq told /\ told \subseteq Actors
    /\ signals \in BOOLEAN /\ signalled \in BOOLEAN
    /\ lively \in Actors

LifeInit ==
    /\ todo = [p \in Procs |-> IF p = "main" THEN Startup ELSE <<>>]
    /\ stage = "startup"
    /\ opened = {} /\ closed = {}
    /\ actor = [a \in Actors |-> "none"]
    /\ told = {} /\ late = {}
    /\ signals = FALSE /\ signalled = FALSE
    /\ lively \in Actors

Running(p) == stage # "exited" /\ todo[p] # <<>>
Now(p) == Head(todo[p])
Onward(p) == todo' = [todo EXCEPT ![p] = Tail(@)]
Over(a) == a = lively => actor[a] \in {"none", "gone"}

\* run returns: the process ends with every goroutine in it.
Leaving == stage' = "exited" /\ todo' = [p \in Procs |-> <<>>]

\* The rest of main's life is another program.
Turn(to, program) == stage' = to /\ todo' = [todo EXCEPT !["main"] = program]

OpenStore ==
    /\ Running("main") /\ Now("main").do \in {"need", "offer"}
    /\ opened' = opened \cup Now("main").of
    /\ Onward("main")
    /\ UNCHANGED <<stage, closed, actor, told, late, flags>>

\* A step without effect on stores and goroutines goes well.
Pass ==
    /\ Running("main") /\ Now("main").do \in {"must", "die", "try", "offer", "may", "listen"}
    /\ Onward("main")
    /\ UNCHANGED <<stage, opened, closed, actor, told, late, flags>>

\* A step of the startup fails: cleanup.run takes down what is up.
Abort ==
    /\ Running("main") /\ Now("main").do \in {"need", "must"}
    /\ Turn("cleanup", cleanupRun)
    /\ UNCHANGED <<opened, closed, actor, told, late, flags>>

\* run returns an error without cleanup.run.
Die ==
    /\ Running("main") /\ Now("main").do = "die"
    /\ Leaving
    /\ UNCHANGED <<opened, closed, actor, told, late, flags>>

\* The lock is taken or the socket cannot be bound: Run ends at once.
ListenFails ==
    /\ Running("main") /\ Now("main").do = "listen"
    /\ Turn("graceful", gracefulShutdown)
    /\ UNCHANGED <<opened, closed, actor, told, late, flags>>

\* A pump or a webhook worker needs its store.
CanLaunch(a) == a \in {"pump", "webhooks"} => Uses[a] \subseteq opened

LaunchActors ==
    /\ Running("main") /\ Now("main").do \in {"launch", "may"}
    /\ \A a \in Now("main").of : CanLaunch(a)
    /\ actor' = [a \in Actors |-> IF a = lively /\ a \in Now("main").of THEN "idle" ELSE actor[a]]
    /\ Onward("main")
    /\ UNCHANGED <<stage, opened, closed, told, late, flags>>

InstallNotify ==
    /\ Running("main") /\ Now("main").do = "notify"
    /\ signals' = TRUE
    /\ Onward("main")
    /\ UNCHANGED <<stage, opened, closed, actor, told, late, signalled, lively>>

\* SIGTERM or SIGINT: the context of the pump, the webhook worker and the
\* watchdog is cancelled.
Signal ==
    /\ signals /\ ~signalled /\ stage # "exited"
    /\ signalled' = TRUE
    /\ told' = told \cup {"pump", "webhooks", "watchdog"}
    /\ UNCHANGED <<todo, stage, opened, closed, actor, late, signals, lively>>

Serve ==
    /\ Running("main") /\ Now("main").do = "serve"
    /\ signalled
    /\ Onward("main")
    /\ UNCHANGED <<stage, opened, closed, actor, told, late, flags>>

TellActors(p) ==
    /\ Running(p) /\ Now(p).do = "tell"
    /\ told' = told \cup Now(p).of
    /\ Onward(p)
    /\ UNCHANGED <<stage, opened, closed, actor, late, flags>>

JoinActor(p) ==
    /\ Running(p) /\ Now(p).do \in {"join", "await"}
    /\ \A a \in Now(p).of : Over(a)
    /\ Onward(p)
    /\ UNCHANGED <<stage, opened, closed, actor, told, late, flags>>

\* shutdownTimeout passes: main goes on.
GiveUpOn ==
    /\ Running("main") /\ Now("main").do = "await"
    /\ \E a \in Now("main").of : ~Over(a) /\ late' = late \cup {a}
    /\ Onward("main")
    /\ UNCHANGED <<stage, opened, closed, actor, told, flags>>

CloseStore(p) ==
    /\ Running(p) /\ Now(p).do = "close"
    /\ closed' = closed \cup (Now(p).of \cap opened)
    /\ Onward(p)
    /\ UNCHANGED <<stage, opened, actor, told, late, flags>>

\* closeWithTimeout: the close starts, main waits for it or for the timeout.
closeWithTimeout ==
    /\ Running("main") /\ Now("main").do = "beside"
    /\ \E who \in Now("main").of :
        todo' = [todo EXCEPT !["main"] = <<Move("until", {who})>> \o Tail(@),
                             ![who] = CloseProgram(who)]
    /\ UNCHANGED <<stage, opened, closed, actor, told, late, flags>>

\* Its close has returned, or the timeout is over: that long it is only when
\* it waits for somebody.
CloseReturned ==
    /\ Running("main") /\ Now("main").do = "until"
    /\ \A who \in Now("main").of :
        Running(who) => Now(who).do = "join" /\ \E a \in Now(who).of : ~Over(a)
    /\ Onward("main")
    /\ UNCHANGED <<stage, opened, closed, actor, told, late, flags>>

\* Server.Run returned, or the shutdown is done.
EndProgram ==
    /\ stage # "exited" /\ todo["main"] = <<>>
    /\ IF stage = "startup" THEN Turn("graceful", gracefulShutdown) ELSE Leaving
    /\ UNCHANGED <<opened, closed, actor, told, late, flags>>

\* An actor takes work up.  The servers and the schedule take none once they
\* are told to stop; a worker's select may prefer work to its context.
BeginWork(a) ==
    /\ stage # "exited" /\ actor[a] = "idle"
    /\ a \in told => a \notin {"socket", "rest", "health", "schedule"}
    /\ actor' = [actor EXCEPT ![a] = "busy"]
    /\ UNCHANGED <<todo, stage, opened, closed, told, late, flags>>

\* It is done; one that was told to stop sees that now.
EndWork(a) ==
    /\ stage # "exited" /\ actor[a] = "busy"
    /\ actor' = [actor EXCEPT ![a] = IF a \in told THEN "gone" ELSE "idle"]
    /\ UNCHANGED <<todo, stage, opened, closed, told, late, flags>>

LeaveWork(a) ==
    /\ stage # "exited" /\ actor[a] = "idle" /\ a \in told
    /\ actor' = [actor EXCEPT ![a] = "gone"]
    /\ UNCHANGED <<todo, stage, opened, closed, told, late, flags>>

Retire == \E a \in told : EndWork(a) \/ LeaveWork(a)

MainStep ==
    \/ OpenStore \/ Pass \/ Abort \/ Die \/ ListenFails \/ LaunchActors \/ InstallNotify
    \/ Serve \/ GiveUpOn \/ closeWithTimeout \/ CloseReturned \/ EndProgram
    \/ \E p \in Procs : TellActors(p) \/ JoinActor(p) \/ CloseStore(p)

LifeNext ==
    \/ MainStep
    \/ Signal
    \/ \E a \in Actors : BeginWork(a) \/ EndWork(a) \/ LeaveWork(a)

\* The processor goes to whoever can go on, and the work of an actor that was
\* told to stop ends: its context is cancelled.  Nothing is asked of the others.
LifeFairness == WF_lifeVars(MainStep \/ Retire)

-----------------------------------------------------------------------------
(* Properties *)

\* No goroutine the daemon waits for is at work on a store that is closed,
\* neither in gracefulShutdown nor in cleanup.run, wherever the startup failed:
\* every store outlives its users, except a REST request, a probe or a
\* retention pass that outran the five seconds it was given (cleanup.go).  It is
\* about these two orders: releaseSQLiteHandles of a panic closes history and
\* session while requests are served, and is not among the steps here.
NoUseAfterClose ==
    \A a \in Actors \ (Unjoined \cup late) :
        actor[a] = "busy" => Uses[a] \cap closed = {}

\* A daemon that was told to stop, or whose startup failed, ends: no shutdown
\* step waits for a goroutine that waits for a later one (da.Close comes after
\* bridgeCancel, bridge.Close cancels before it waits).
Exits == (signalled \/ stage \in {"cleanup", "graceful"}) ~> stage = "exited"
=============================================================================
