---------------------------- MODULE MfBackendBase ----------------------------
(***************************************************************************)
(* The reconnection logic every backend plug-in inherits                   *)
(* (src/lib/mfbackendbase.cpp), for one backend.                           *)
(*                                                                         *)
(* Three actors share the state.  The MAIN THREAD runs the event loop: it  *)
(* takes one posted call at a time from `events', or lets the retry timer  *)
(* fire.  The THREAD POOL runs init(), one task per connection attempt.    *)
(* The PLUG-IN's connection to its hardware (`link') can break, and the    *)
(* plug-in then emits lostConnection() from the thread it is on.  The      *)
(* plug-in itself is not in the repository; what is assumed of it is what  *)
(* doc/src/tutorial.dox asks (init() returns true exactly when it made the *)
(* connection, every broken connection is reported) and what the two dummy *)
(* plug-ins do when they report a loss (currentState = Disconnected, then  *)
(* emit).  The tutorial also asks that init() change the state to          *)
(* Connected (tutorial.dox:51); connectionDone() does so too, and the      *)
(* dummy plug-ins leave it at that.  Callback and InitSetsState say what   *)
(* the plug-in may do, so that TRUE covers both kinds.                     *)
(***************************************************************************)
EXTENDS Integers, Sequences, FiniteSets

CONSTANTS
    Attempts,            \* identities for the runs of init() that can coexist
    NoAttempt,           \* the default-constructed QFuture
    connectionIntervals, \* the waits, in ms, the constructor lists
    Threaded,            \* TRUE: play() runs on a pool thread, not the main one
    Callback,            \* TRUE: a loss may be noticed at any time, not only by play()
    InitSetsState,       \* TRUE: the plug-in's init() may set currentState to Connected itself
    DaemonMode,          \* TRUE: the process was started with --daemon and forks
    MaxFailed,           \* bound: init() does not fail at this many failures
    MaxLosses            \* bound on the number of broken connections

ASSUME BackendAssumption ==
    /\ NoAttempt \notin Attempts
    /\ connectionIntervals \in Seq(Nat \ {0})
    /\ connectionIntervals # <<>>
    /\ Threaded \in BOOLEAN /\ Callback \in BOOLEAN
    /\ InitSetsState \in BOOLEAN /\ DaemonMode \in BOOLEAN
    /\ MaxFailed \in Nat /\ MaxLosses \in Nat

VARIABLES
    process,           \* where main() is
    currentState,      \* MfBackendBase::currentState
    failedConnections, \* MfBackendBase::failedConnections
    timer,             \* the single-shot timer: Off, or the wait it was started with
    runConnection,     \* the attempt whose future resultConnection watches
    attempt,           \* what each run of init() is doing
    link,              \* the plug-in's connection to the hardware
    events,            \* calls posted to the main thread, oldest first
    managerSaw,        \* the last signal of this backend MfManager handled
    refusals,          \* ghost: attempts that failed since the last success
    losses,            \* ghost: broken connections so far, for MaxLosses
    overtaken          \* ghost: those of them that came while a connection was being made

vars == <<process, currentState, failedConnections, timer, runConnection,
          attempt, link, events, managerSaw, refusals, losses, overtaken>>

Off == 0                     \* no interval is 0

States == {"Disconnected", "Connecting", "Connected"}
Slots == {"tryConnect", "connectionDone", "backendDisconnected", "backendConnected"}
Events == [slot : Slots, of : Attempts \cup {NoAttempt}]
Waits == {connectionIntervals[i] : i \in DOMAIN connectionIntervals}

TypeOK ==
    /\ process \in {"loading", "starting", "running", "quitting", "unloaded"}
    /\ currentState \in States
    /\ failedConnections \in Nat
    /\ timer \in {Off} \cup Waits
    /\ runConnection \in Attempts \cup {NoAttempt}
    /\ attempt \in [Attempts -> {"idle", "running", "linked", "accepted", "refused", "vanished"}]
    /\ link \in {"down", "up"}
    /\ events \in Seq(Events)
    /\ managerSaw \in {"none", "lost", "established"}
    /\ refusals \in Nat
    /\ losses \in Nat
    /\ overtaken \in Nat

Init ==
    /\ process = "loading"
    /\ currentState = "Disconnected"
    /\ failedConnections = 0
    /\ timer = Off
    /\ runConnection = NoAttempt
    /\ attempt = [a \in Attempts |-> "idle"]
    /\ link = "down"
    /\ events = <<>>
    /\ managerSaw = "none"
    /\ refusals = 0
    /\ losses = 0
    /\ overtaken = 0

-----------------------------------------------------------------------------

Call(slot) == [slot |-> slot, of |-> NoAttempt]
Finished(a) == [slot |-> "connectionDone", of |-> a]

InEventLoop == process = "running"
Posted(slot) == InEventLoop /\ events # <<>> /\ Head(events).slot = slot

\* Mutant: past the end of the list the last wait grows.
IntervalGrowing(n) ==
    IF n < Len(connectionIntervals) THEN connectionIntervals[n + 1]
    ELSE n * connectionIntervals[Len(connectionIntervals)]

\* The wait for the n-th consecutive failure; C++ indexes the list from 0.
Interval(n) ==
    IF n < Len(connectionIntervals) THEN connectionIntervals[n + 1]
    ELSE connectionIntervals[Len(connectionIntervals)]

\* The task is queued or running in the thread pool, so its future isRunning().
IsRunning(a) == a \in Attempts /\ attempt[a] \in {"running", "linked", "vanished"}

\* Mutants: an early return while already Connecting; a failure counted only when the
\* state changes.
tryConnectOnce ==
    /\ currentState' = "Connecting"
    /\ failedConnections' = failedConnections + 1
    /\ timer' = IF timer = Off /\ currentState # "Connecting"
                THEN Interval(failedConnections + 1) ELSE timer

tryConnectCountsOnce ==
    /\ currentState' = "Connecting"
    /\ failedConnections' =
         IF currentState = "Connecting" THEN failedConnections ELSE failedConnections + 1
    /\ timer' = IF timer = Off THEN Interval(failedConnections') ELSE timer

\* MfBackendBase::tryConnect: a wait already started is not started again.
tryConnect ==
    /\ currentState' = "Connecting"
    /\ failedConnections' = failedConnections + 1
    /\ timer' = IF timer = Off THEN Interval(failedConnections + 1) ELSE timer

\* MfBackendBase::connecting: a new task, and the watcher moves to its future.
\* setFuture() also drops the finished event of the future it leaves; here that
\* event stays in the queue and Discard takes it out.
connecting(a) ==
    /\ attempt[a] = "idle"
    /\ attempt' = [attempt EXCEPT ![a] = "running"]
    /\ runConnection' = a

-----------------------------------------------------------------------------
(* Start-up and shut-down: main() and the plug-in loader.                  *)

\* MfManager::loadBackendPlugins starts the first attempt, before the event loop.
LoadBackend(a) ==
    /\ process = "loading"
    /\ process' = "starting"
    /\ connecting(a)
    /\ UNCHANGED <<currentState, failedConnections, timer, link, events,
                   managerSaw, refusals, losses, overtaken>>

\* daemon(): the child of fork() has the memory of the parent and none of its
\* threads, so a task that a pool thread was running never ends.
AfterFork == [a \in Attempts |->
                IF attempt[a] \in {"running", "linked"} THEN "vanished" ELSE attempt[a]]

EnterEventLoop ==
    /\ process = "starting"
    /\ process' = "running"
    /\ attempt' = IF DaemonMode THEN AfterFork ELSE attempt
    /\ UNCHANGED <<currentState, failedConnections, timer, runConnection, link,
                   events, managerSaw, refusals, losses, overtaken>>

\* SIGTERM or SIGINT ends app.exec().
Quit ==
    /\ InEventLoop
    /\ process' = "quitting"
    /\ UNCHANGED <<currentState, failedConnections, timer, runConnection, attempt,
                   link, events, managerSaw, refusals, losses, overtaken>>

\* Mutants: cleanup() that does not wait for init(); cleanup() that waits for the
\* backend to leave Connecting.
cleanupAtOnce ==
    /\ process = "quitting"
    /\ process' = "unloaded"
    /\ timer' = Off
    /\ link' = "down"
    /\ events' = <<>>
    /\ UNCHANGED <<currentState, failedConnections, runConnection, attempt,
                   managerSaw, refusals, losses, overtaken>>

cleanupPolls ==
    /\ process = "quitting"
    /\ IF currentState = "Connecting" THEN UNCHANGED vars ELSE cleanupAtOnce

\* ~MfManager: cleanup() waits for the future it knows and stops the timer; then
\* the plug-in loader deletes the backend, which closes its connection.
cleanup ==
    /\ process = "quitting"
    /\ ~IsRunning(runConnection)
    /\ process' = "unloaded"
    /\ timer' = Off
    /\ link' = "down"
    /\ events' = <<>>
    /\ UNCHANGED <<currentState, failedConnections, runConnection, attempt,
                   managerSaw, refusals, losses, overtaken>>

Exited ==
    /\ process = "unloaded"
    /\ UNCHANGED vars

-----------------------------------------------------------------------------
(* The thread pool: one run of init().                                     *)

\* init() gets its connection to the hardware; it has still to return.
InitLinks(a) ==
    /\ attempt[a] = "running"
    /\ attempt' = [attempt EXCEPT ![a] = "linked"]
    /\ link' = "up"
    /\ \/ UNCHANGED currentState
       \/ InitSetsState /\ currentState' = "Connected"
    /\ UNCHANGED <<process, failedConnections, timer, runConnection,
                   events, managerSaw, refusals, losses, overtaken>>

\* init() returns.  Only the watched future posts a finished event.
Returns(a, result) ==
    /\ IF a = runConnection
       THEN /\ attempt' = [attempt EXCEPT ![a] = result]
            /\ events' = Append(events, Finished(a))
       ELSE /\ attempt' = [attempt EXCEPT ![a] = "idle"]
            /\ UNCHANGED events
    /\ UNCHANGED <<process, currentState, failedConnections, timer, runConnection,
                   link, managerSaw, refusals, losses, overtaken>>

InitSucceeds(a) == attempt[a] = "linked" /\ Returns(a, "accepted")

InitFails(a) ==
    /\ attempt[a] = "running"
    /\ failedConnections < MaxFailed
    /\ Returns(a, "refused")

-----------------------------------------------------------------------------
(* The connection breaks.                                                  *)

\* Mutant: the state is left alone.
EmitLostLate ==
    /\ events' = events \o <<Call("tryConnect"), Call("backendDisconnected")>>
    /\ UNCHANGED <<currentState, failedConnections, timer>>

\* lostConnection() from another thread than the main one: both slots are posted.
EmitLostFromThread ==
    /\ currentState' = "Disconnected"
    /\ events' = events \o <<Call("tryConnect"), Call("backendDisconnected")>>
    /\ UNCHANGED <<failedConnections, timer>>

\* lostConnection() from the main thread: tryConnect() is called on the spot, only
\* the manager's slot is posted.
EmitLostFromMain ==
    /\ tryConnect
    /\ events' = Append(events, Call("backendDisconnected"))

\* No wait, no posted tryConnect(), no init() and no unread result of one.
TryPending == \E i \in DOMAIN events : events[i].slot = "tryConnect"
AtRest == timer = Off /\ ~TryPending /\ \A a \in Attempts : attempt[a] = "idle"

\* A loss overtakes when it breaks a connection that is still being made, or one that
\* is announced while the retry of an earlier loss is still to come.
Breaks ==
    /\ losses < MaxLosses
    /\ losses' = losses + 1
    /\ overtaken' = IF AtRest THEN overtaken ELSE overtaken + 1
    /\ link' = "down"
    /\ UNCHANGED <<process, runConnection, attempt, managerSaw, refusals>>

\* A feedback is played on a Connected backend and the hardware does not answer.
PlayFails ==
    /\ InEventLoop
    /\ currentState = "Connected"
    /\ Breaks
    /\ IF Threaded THEN EmitLostFromThread ELSE EmitLostFromMain

\* A thread of the plug-in's own sees the connection break.
CallbackLoss ==
    /\ Callback
    /\ process \in {"starting", "running"}
    /\ link = "up"
    /\ Breaks
    /\ EmitLostFromThread

-----------------------------------------------------------------------------
(* The main thread's event loop.                                           *)

\* Mutant: no retry while an attempt is under way.
HandleTryConnectUnlessRunning ==
    /\ Posted("tryConnect")
    /\ IF IsRunning(runConnection)
       THEN UNCHANGED <<currentState, failedConnections, timer>>
       ELSE tryConnect
    /\ events' = Tail(events)
    /\ UNCHANGED <<process, runConnection, attempt, link, managerSaw, refusals, losses, overtaken>>

\* Mutant: every retry reports the loss again.
HandleTryConnectReports ==
    /\ Posted("tryConnect")
    /\ tryConnect
    /\ events' = Append(Tail(events), Call("backendDisconnected"))
    /\ UNCHANGED <<process, runConnection, attempt, link, managerSaw, refusals, losses, overtaken>>

HandleTryConnect ==
    /\ Posted("tryConnect")
    /\ tryConnect
    /\ events' = Tail(events)
    /\ UNCHANGED <<process, runConnection, attempt, link, managerSaw, refusals, losses, overtaken>>

\* connectionDone() with a false result.
DoneRefused ==
    /\ attempt[runConnection] = "refused"
    /\ tryConnect
    /\ refusals' = refusals + 1
    /\ events' = Tail(events)

\* Mutants: success stops the wait, as if it could only be its own; success without
\* establishedConnection().
DoneAcceptedStopsTimer ==
    /\ attempt[runConnection] = "accepted"
    /\ currentState' = "Connected"
    /\ failedConnections' = 0
    /\ refusals' = 0
    /\ timer' = Off
    /\ events' = Append(Tail(events), Call("backendConnected"))

DoneAcceptedSilently ==
    /\ attempt[runConnection] = "accepted"
    /\ currentState' = "Connected"
    /\ failedConnections' = 0
    /\ refusals' = 0
    /\ events' = Tail(events)
    /\ UNCHANGED timer

\* connectionDone() with a true result: nothing is asked of the timer or the link.
DoneAccepted ==
    /\ attempt[runConnection] = "accepted"
    /\ currentState' = "Connected"
    /\ failedConnections' = 0
    /\ refusals' = 0
    /\ events' = Append(Tail(events), Call("backendConnected"))
    /\ UNCHANGED timer

connectionDone ==
    /\ Posted("connectionDone")
    /\ Head(events).of = runConnection
    /\ DoneRefused \/ DoneAccepted
    /\ attempt' = [attempt EXCEPT ![runConnection] = "idle"]
    /\ UNCHANGED <<process, runConnection, link, managerSaw, losses, overtaken>>

\* The finished event of a future the watcher has left.
Discard ==
    /\ Posted("connectionDone")
    /\ Head(events).of # runConnection
    /\ attempt' = [attempt EXCEPT ![Head(events).of] = "idle"]
    /\ events' = Tail(events)
    /\ UNCHANGED <<process, currentState, failedConnections, timer, runConnection,
                   link, managerSaw, refusals, losses, overtaken>>

\* MfManager's slots, which are always posted (Qt::QueuedConnection).
ManagerSlot ==
    /\ \/ Posted("backendDisconnected") /\ managerSaw' = "lost"
       \/ Posted("backendConnected") /\ managerSaw' = "established"
    /\ events' = Tail(events)
    /\ UNCHANGED <<process, currentState, failedConnections, timer, runConnection,
                   attempt, link, refusals, losses, overtaken>>

\* Mutant: the timer is not single-shot.
TimerFiresAgain(a) ==
    /\ InEventLoop
    /\ timer # Off
    /\ connecting(a)
    /\ UNCHANGED <<process, currentState, failedConnections, timer, link, events,
                   managerSaw, refusals, losses, overtaken>>

TimerFires(a) ==
    /\ InEventLoop
    /\ timer # Off
    /\ timer' = Off
    /\ connecting(a)
    /\ UNCHANGED <<process, currentState, failedConnections, link, events,
                   managerSaw, refusals, losses, overtaken>>

-----------------------------------------------------------------------------

Dispatch == HandleTryConnect \/ connectionDone \/ Discard \/ ManagerSlot
InitProgress(a) == InitLinks(a) \/ InitFails(a)

Next ==
    \/ \E a \in Attempts : LoadBackend(a)
    \/ EnterEventLoop
    \/ Quit
    \/ cleanup
    \/ Exited
    \/ \E a \in Attempts : InitLinks(a)
    \/ \E a \in Attempts : InitSucceeds(a)
    \/ \E a \in Attempts : InitFails(a)
    \/ PlayFails
    \/ CallbackLoss
    \/ HandleTryConnect
    \/ connectionDone
    \/ Discard
    \/ ManagerSlot
    \/ \E a \in Attempts : TimerFires(a)

Spec == Init /\ [][Next]_vars

\* main() goes on, the event loop serves posted calls and timers, and init()
\* returns.  Nothing makes a connection break or the user quit.
Fairness ==
    /\ WF_vars(\E a \in Attempts : LoadBackend(a))
    /\ WF_vars(EnterEventLoop)
    /\ WF_vars(cleanup)
    /\ WF_vars(Dispatch)
    /\ WF_vars(\E a \in Attempts : TimerFires(a))
    /\ \A a \in Attempts : WF_vars(InitProgress(a)) /\ WF_vars(InitSucceeds(a))

FairSpec == Spec /\ Fairness

-----------------------------------------------------------------------------
(* Safety.                                                                 *)

Served == process \in {"starting", "running"}
DonePending == \E i \in DOMAIN events : events[i] = Finished(runConnection)

\* The retry is on its way: a wait is running or a tryConnect() is posted.
RetryArmed == timer # Off \/ TryPending

\* fork() lost the thread of an init(): its future says isRunning() for ever.
LostByFork == \E a \in Attempts : attempt[a] = "vanished"

\* Something will run init() again or deliver the result of a run.
RetryPending == RetryArmed \/ IsRunning(runConnection) \/ DonePending

\* A backend that is not usable is never forgotten, unless fork() has lost its first
\* init(): whatever the order of losses, finished events and timeouts, while the hardware
\* connection is down or the state is not Connected, a wait, a posted tryConnect(), a
\* running init() or its unread result is there to bring the backend back (tryConnect,
\* connectionDone).
NeverStranded ==
    Served /\ ~LostByFork /\ (link = "down" \/ currentState # "Connected") => RetryPending

\* A connection that broke after init() made it is not forgotten while the good news
\* is still on its way: connectionDone() will set Connected on a dead link, so the
\* retry must already be armed and must stay so (tryConnect, connectionDone).
LossNotForgotten ==
    /\ Served
    /\ runConnection \in Attempts
    /\ attempt[runConnection] \in {"linked", "accepted"}
    /\ link = "down"
    => RetryArmed

\* Connected is the truth and is quiet: mfbackendbase.h:38, "Connected: The backend is
\* connected", and the retry machinery is at rest, with no wait and no init() that would
\* run beside loadHandle() and play(), except one that has set the state itself and is
\* about to return.  So it is with every kind of plug-in until a loss overtakes:
\* connectionDone() then writes Connected over it, and that is not true until the retry
\* has been made (connectionDone, tryConnect, lostConnection).
ConnectedIsQuiet ==
    process # "unloaded" /\ currentState = "Connected" /\ overtaken = 0 =>
        /\ link = "up"
        /\ timer = Off
        /\ \A a \in Attempts :
               attempt[a] # "running" /\ (attempt[a] = "linked" => InitSetsState)

\* init() never runs twice at the same time for another cause than losses that overtake:
\* connecting() starts a task without asking for the one before, and the watcher leaves
\* that one, but every task that is left behind is one such loss.  The newest, the only one
\* cleanup() waits for, is over when the backend is deleted; so without such a loss no
\* init() runs in a deleted backend, as mfbackendbase.h:206 has it, cleanup() "waits until
\* any possible concurrent initialization has been finished" (tryConnect, connecting,
\* cleanup).
OneInitAtATime ==
    LET running == {a \in Attempts : attempt[a] \in {"running", "linked"}}
    IN  /\ Cardinality(running \ {runConnection}) <= overtaken
        /\ process = "unloaded" => runConnection \notin running

\* The waits grow with the failures: the wait in progress is never shorter than the
\* list's wait for the attempts that failed since the last success, also when a loss
\* is reported while a wait is running (tryConnect leaves that wait alone).
BackoffAtLeast == timer # Off => timer >= Interval(refusals)

(* The promise to MfManager.                                               *)

\* The calls of a queue that are for the manager, in their order.
SignalsIn(queue) ==
    LET signals == {i \in DOMAIN queue :
                      queue[i].slot \in {"backendDisconnected", "backendConnected"}}
        place(i) == Cardinality({j \in signals : j <= i})
    IN  [n \in 1 .. Cardinality(signals) |-> queue[CHOOSE i \in signals : place(i) = n].slot]

\* The backend is usable and connectionDone() has said so.  An init() that sets the state
\* makes it usable a little earlier.
Announced == currentState = "Connected" /\ \A a \in Attempts : attempt[a] = "idle"

Promise == INSTANCE BackendSignals WITH
    connected <- Announced,
    inbox <- SignalsIn(events),
    overtaken <- overtaken > 0

\* The reconnection logic implements BackendSignals with every kind of plug-in: state and
\* signals change together, signals alternate, and a loss is always handled before the
\* next connection is announced, until a loss overtakes the announcement of the connection
\* it breaks (lostConnection, establishedConnection, connectionDone).
PromiseKept == Promise!Spec

(* Liveness.                                                               *)

\* Losses being finite, a backend whose init() stops failing ends up Connected with
\* a working connection, whatever races happened on the way.
Reconnects ==
    InEventLoop /\ link = "down"
        ~> ~InEventLoop \/ (currentState = "Connected" /\ link = "up")

\* cleanup() comes to an end: shutting the daemon down does not hang.
QuitCompletes == process = "quitting" ~> process = "unloaded"

=============================================================================
