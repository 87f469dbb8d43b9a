--------------------------- MODULE MfReconnection ---------------------------
(***************************************************************************)
(* The feedback handles of one backend next to its reconnection logic:     *)
(* MfBackendBase composed with the manager's and the session's side of a   *)
(* loss.  MfFeedbackCache has the cache in detail and sees a backend       *)
(* through its promise; here the backend is the detailed one, with its     *)
(* pool threads, and the handles are reduced to whether a session has      *)
(* them loaded.                                                            *)
(*                                                                         *)
(* doc/src/tutorial.dox:56: a plug-in's loadHandle() and unloadHandle()    *)
(* are not thread safe.  They run on the main thread, init() on the pool.  *)
(***************************************************************************)
EXTENDS MfBackendBase

VARIABLES
    session,      \* a client has a session that was set up
    loaded,       \* the backend's handle of its feedback is alive, and in the cache
    reloadPosted, \* the manager has posted themeChanged() to the session
    ahead         \* calls posted before the running wait began and not served yet

handles == <<session, loaded, reloadPosted>>
allVars == <<vars, handles, ahead>>

InitWithHandles ==
    /\ Init
    /\ session = FALSE /\ loaded = FALSE /\ reloadPosted = FALSE
    /\ ahead = 0

-----------------------------------------------------------------------------
(* The event loop: a wait is half a second or more, and the calls that were *)
(* posted when it began are served before it is over.                      *)

Restarted == timer = Off /\ timer' # Off

NotServing == ahead' = IF Restarted THEN Len(events') ELSE ahead
Serving == ahead' = IF Restarted THEN Len(events') ELSE IF ahead = 0 THEN 0 ELSE ahead - 1

-----------------------------------------------------------------------------
(* Sessions, feedbacks and the manager.                                    *)

\* MfFeedback::load for this backend, of the feedback's directory: a cached handle is
\* kept, a new one takes a backend that is Connected.
Load == loaded' = (loaded \/ currentState = "Connected")

\* The same for another theme's directory: the old handle is let go.
LoadAnother == loaded' = (currentState = "Connected")

\* A client connects and its session is set up.
SetUp ==
    /\ InEventLoop /\ ~session
    /\ session' = TRUE
    /\ Load
    /\ UNCHANGED <<vars, reloadPosted, ahead>>

\* The client hangs up: ~MfSession, MfFeedback::unload.
HangUp ==
    /\ InEventLoop /\ session
    /\ session' = FALSE /\ loaded' = FALSE /\ reloadPosted' = FALSE
    /\ UNCHANGED <<vars, ahead>>

\* themeChanged() that backendConnected() posted.
Reload ==
    /\ InEventLoop /\ session /\ reloadPosted
    /\ reloadPosted' = FALSE
    /\ Load
    /\ UNCHANGED <<vars, session, ahead>>

\* themeChanged() because the user picked a theme.
NewTheme ==
    /\ InEventLoop /\ session
    /\ Load \/ LoadAnother
    /\ UNCHANGED <<vars, session, reloadPosted, ahead>>

\* Mutant: handles in use are left to their feedbacks.
KeepUsedHandles ==
    /\ Posted("backendDisconnected")
    /\ loaded' = (loaded /\ session)
    /\ UNCHANGED <<session, reloadPosted>>

\* backendDisconnected -> unloadHandlesForABackend.
UnloadHandles ==
    /\ Posted("backendDisconnected")
    /\ loaded' = FALSE
    /\ UNCHANGED <<session, reloadPosted>>

\* backendConnected -> loadHandlesForABackend.
LoadHandles ==
    /\ Posted("backendConnected")
    /\ reloadPosted' = session
    /\ UNCHANGED <<session, loaded>>

-----------------------------------------------------------------------------
(* The backend's actions, with what they do to the handles.                *)

Start == (EnterEventLoop \/ \E a \in Attempts : LoadBackend(a)) /\ UNCHANGED <<handles, ahead>>

\* play() needs a handle; it is the plug-in that finds the connection broken.
PlayOnBroken == PlayFails /\ loaded /\ UNCHANGED handles /\ NotServing

\* A loss that a thread of the plug-in's own notices.
LoseByCallback == CallbackLoss /\ UNCHANGED handles /\ NotServing

Pool(a) ==
    /\ InitLinks(a) \/ InitSucceeds(a) \/ InitFails(a)
    /\ UNCHANGED <<handles, ahead>>

ServeBackend == (HandleTryConnect \/ connectionDone \/ Discard) /\ UNCHANGED handles /\ Serving

ServeManager == ManagerSlot /\ (UnloadHandles \/ LoadHandles) /\ Serving

\* Mutant: the wait is started with 0 ms.
RetryAtOnce(a) == TimerFires(a) /\ UNCHANGED <<handles, ahead>>

Retry(a) == ahead = 0 /\ TimerFires(a) /\ UNCHANGED <<handles, ahead>>

Stop == Quit /\ UNCHANGED <<handles, ahead>>

\* CLEANUP: the server goes first, and with it the connections and their sessions; then
\* ~MfManager deletes the cache and calls cleanup().
DeleteServer ==
    /\ process = "quitting" /\ session
    /\ session' = FALSE /\ loaded' = FALSE /\ reloadPosted' = FALSE
    /\ UNCHANGED <<vars, ahead>>

DeleteManager ==
    /\ cleanup /\ ~session
    /\ loaded' = FALSE /\ ahead' = 0
    /\ UNCHANGED <<session, reloadPosted>>

NextWithHandles ==
    \/ Start
    \/ SetUp
    \/ HangUp
    \/ Reload
    \/ NewTheme
    \/ PlayOnBroken
    \/ LoseByCallback
    \/ \E a \in Attempts : Pool(a)
    \/ ServeBackend
    \/ ServeManager
    \/ \E a \in Attempts : Retry(a)
    \/ Stop
    \/ DeleteServer
    \/ DeleteManager
    \/ Exited /\ UNCHANGED <<handles, ahead>>

SpecWithHandles == InitWithHandles /\ [][NextWithHandles]_allVars

\* As in MfBackendBase, and posted themeChanged() calls are served.
FairnessWithHandles ==
    /\ WF_allVars(Start)
    /\ WF_allVars(ServeBackend \/ ServeManager)
    /\ WF_allVars(Reload)
    /\ WF_allVars(\E a \in Attempts : Retry(a))
    /\ WF_allVars(DeleteServer) /\ WF_allVars(DeleteManager)
    /\ \A a \in Attempts : WF_allVars(Pool(a))

FairSpecWithHandles == SpecWithHandles /\ FairnessWithHandles

-----------------------------------------------------------------------------
(* Properties.                                                             *)

\* tests/ft_reconnection/main.cpp:102, "Audio feedbacks are remained in the handle
\* cache": once the calls posted by a loss are served, no session has a handle of the
\* broken connection left, nor gets one before the backend is back, whichever way the
\* plug-in notices losses and sets its state, until a loss overtakes: the state is then
\* Connected on a broken connection, and a handle is loaded there (loadHandleWrapper,
\* backendDisconnected).
FlushedWhileLost ==
    InEventLoop /\ events = <<>> /\ link = "down" /\ overtaken = 0 => ~loaded

\* doc/src/tutorial.dox:56, loadHandle() and unloadHandle() are not thread safe: no
\* handle is alive while an init() of its backend runs in the pool that has not said
\* Connected, so that neither a client that hangs up, nor a theme change, nor ~MfManager
\* (which deletes the cache before cleanup() waits for init()) calls the plug-in beside it.
\* So it is until a loss overtakes; it follows that no handle outlives its connection into
\* the next.
NoHandleDuringInit ==
    loaded /\ overtaken = 0 =>
        \A a \in Attempts :
            attempt[a] # "running" /\ (attempt[a] = "linked" => currentState = "Connected")

\* tests/ft_reconnection/main.cpp:107, "Audio feedbacks are missing from the handle
\* cache": losses being finite, a session that stays gets its handle back on a working
\* connection, however losses, retries, reloads and themes follow one another.
HandlesReturn == InEventLoop /\ session ~> ~InEventLoop \/ ~session \/ (loaded /\ link = "up")

=============================================================================
