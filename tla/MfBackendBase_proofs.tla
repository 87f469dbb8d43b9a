------------------------ MODULE MfBackendBase_proofs ------------------------
(***************************************************************************)
(* Proofs about the reconnection logic, for every list of intervals, every *)
(* number of attempts, failures and losses, threaded or not, daemon mode   *)
(* or not, and for every kind of plug-in: whether or not it notices losses *)
(* at any time, and whether or not its init() sets the state.              *)
(***************************************************************************)
EXTENDS MfBackendBase, FiniteSetTheorems, TLAPS

Phases == {"idle", "running", "linked", "accepted", "refused", "vanished"}

-----------------------------------------------------------------------------
(* What the queue operations keep.                                         *)

\* Posting a call adds it at the end and moves no other.
LEMMA AppendKeeps ==
    ASSUME NEW s \in Seq(Events), NEW e \in Events
    PROVE  /\ Append(s, e) \in Seq(Events)
           /\ \A i \in DOMAIN s : i \in DOMAIN Append(s, e) /\ Append(s, e)[i] = s[i]
           /\ Len(s) + 1 \in DOMAIN Append(s, e)
           /\ Append(s, e)[Len(s) + 1] = e
  OBVIOUS

\* Taking the oldest call moves every other one up by one place.
LEMMA TailKeeps ==
    ASSUME NEW s \in Seq(Events), s # <<>>
    PROVE  /\ Tail(s) \in Seq(Events)
           /\ Head(s) \in Events
           /\ Head(s) = s[1]
           /\ \A i \in DOMAIN s : i # 1 =>
                 i - 1 \in DOMAIN Tail(s) /\ Tail(s)[i - 1] = s[i]
  OBVIOUS

\* The calls the code posts are events.
LEMMA PostedAreEvents ==
    /\ \A slot \in Slots : Call(slot) \in Events
    /\ \A a \in Attempts : Finished(a) \in Events
  BY DEF Call, Finished, Events, Slots

\* Every wait tryConnect() starts is one of the list's, so it is never Off.
LEMMA IntervalIsWait ==
    ASSUME NEW n \in Nat, n > 0
    PROVE  Interval(n) \in Waits /\ Interval(n) # Off
  <1>1. Len(connectionIntervals) \in Nat /\ Len(connectionIntervals) > 0
    BY BackendAssumption
  <1>2. \A i \in DOMAIN connectionIntervals : connectionIntervals[i] \in Nat \ {0}
    BY BackendAssumption
  <1>3. DOMAIN connectionIntervals = 1 .. Len(connectionIntervals)
    BY BackendAssumption
  <1>4. CASE n < Len(connectionIntervals)
    <2>1. n + 1 \in DOMAIN connectionIntervals
      BY <1>1, <1>3, <1>4
    <2> QED BY <2>1, <1>2, <1>4 DEF Interval, Waits, Off
  <1>5. CASE ~(n < Len(connectionIntervals))
    <2>1. Len(connectionIntervals) \in DOMAIN connectionIntervals
      BY <1>1, <1>3
    <2> QED BY <2>1, <1>2, <1>5 DEF Interval, Waits, Off
  <1> QED BY <1>4, <1>5

\* tryConnect() leaves the wait running.
LEMMA TryConnectArms ==
    ASSUME TypeOK, tryConnect
    PROVE  /\ currentState' \in States
           /\ failedConnections' \in Nat
           /\ timer' \in Waits \cup {Off}
           /\ timer' # Off
  <1>1. failedConnections + 1 \in Nat /\ failedConnections + 1 > 0
    BY DEF TypeOK
  <1>2. Interval(failedConnections + 1) \in Waits /\ Interval(failedConnections + 1) # Off
    BY <1>1, IntervalIsWait
  <1> QED BY <1>1, <1>2 DEF TypeOK, tryConnect, States

-----------------------------------------------------------------------------

\* Every variable keeps its type.
LEMMA TypeStep == TypeOK /\ [Next]_vars => TypeOK'
  <1> SUFFICES ASSUME TypeOK, [Next]_vars
               PROVE  TypeOK'
    OBVIOUS
  <1> USE DEF TypeOK
  <1>1. ASSUME NEW a \in Attempts, LoadBackend(a) PROVE TypeOK'
    BY <1>1 DEF LoadBackend, connecting
  <1>2. CASE EnterEventLoop
    BY <1>2 DEF EnterEventLoop, AfterFork
  <1>3. CASE Quit
    BY <1>3 DEF Quit, InEventLoop
  <1>4. CASE cleanup
    BY <1>4 DEF cleanup
  <1>5. CASE Exited
    BY <1>5 DEF Exited, vars
  <1>6. ASSUME NEW a \in Attempts, InitLinks(a) PROVE TypeOK'
    BY <1>6 DEF InitLinks, States
  <1>7. ASSUME NEW a \in Attempts, NEW r \in {"accepted", "refused"}, Returns(a, r)
        PROVE  TypeOK'
    <2>1. Append(events, Finished(a)) \in Seq(Events)
      BY PostedAreEvents, AppendKeeps
    <2> QED BY <2>1, <1>7 DEF Returns
  <1>8. CASE PlayFails
    <2>1. Append(events, Call("backendDisconnected")) \in Seq(Events)
      BY PostedAreEvents, AppendKeeps DEF Slots
    <2>2. events \o <<Call("tryConnect"), Call("backendDisconnected")>> \in Seq(Events)
      BY PostedAreEvents DEF Slots
    <2>3. CASE EmitLostFromThread
      BY <2>2, <2>3, <1>8 DEF PlayFails, Breaks, EmitLostFromThread, States
    <2>4. CASE EmitLostFromMain
      <3>1. tryConnect
        BY <2>4 DEF EmitLostFromMain
      <3>2. /\ currentState' \in States
            /\ failedConnections' \in Nat
            /\ timer' \in Waits \cup {Off}
        BY <3>1, TryConnectArms
      <3> QED BY <2>1, <2>4, <3>2, <1>8 DEF PlayFails, Breaks, EmitLostFromMain
    <2> QED BY <1>8, <2>3, <2>4 DEF PlayFails
  <1>9. CASE CallbackLoss
    <2>1. events \o <<Call("tryConnect"), Call("backendDisconnected")>> \in Seq(Events)
      BY PostedAreEvents DEF Slots
    <2> QED BY <2>1, <1>9 DEF CallbackLoss, Breaks, EmitLostFromThread, States
  <1>10. CASE HandleTryConnect
    <2>1. tryConnect /\ Tail(events) \in Seq(Events)
      BY <1>10, TailKeeps DEF HandleTryConnect, Posted
    <2>2. /\ currentState' \in States
          /\ failedConnections' \in Nat
          /\ timer' \in Waits \cup {Off}
      BY <2>1, TryConnectArms
    <2> QED BY <2>1, <2>2, <1>10 DEF HandleTryConnect
  <1>11. CASE connectionDone
    <2>1. Tail(events) \in Seq(Events)
      BY <1>11, TailKeeps DEF connectionDone, Posted
    <2>0. attempt' \in [Attempts -> Phases]
      BY <1>11 DEF connectionDone, Phases
    <2>2. CASE DoneRefused
      <3>1. tryConnect /\ refusals' \in Nat /\ events' = Tail(events)
        BY <2>2 DEF DoneRefused
      <3>2. /\ currentState' \in States
            /\ failedConnections' \in Nat
            /\ timer' \in Waits \cup {Off}
        BY <3>1, TryConnectArms
      <3>3. UNCHANGED <<process, runConnection, link, managerSaw, losses, overtaken>>
        BY <1>11 DEF connectionDone
      <3> QED BY <2>0, <2>1, <3>1, <3>2, <3>3 DEF Phases
    <2>3. CASE DoneAccepted
      <3>1. Append(Tail(events), Call("backendConnected")) \in Seq(Events)
        BY <2>1, PostedAreEvents, AppendKeeps DEF Slots
      <3> QED BY <3>1, <2>3, <1>11 DEF connectionDone, DoneAccepted, States
    <2> QED BY <1>11, <2>2, <2>3 DEF connectionDone
  <1>12. CASE Discard
    <2>1. Tail(events) \in Seq(Events)
      BY <1>12, TailKeeps DEF Discard, Posted
    <2> QED BY <2>1, <1>12 DEF Discard
  <1>13. CASE ManagerSlot
    <2>1. Tail(events) \in Seq(Events)
      BY <1>13, TailKeeps DEF ManagerSlot, Posted
    <2> QED BY <2>1, <1>13 DEF ManagerSlot
  <1>14. ASSUME NEW a \in Attempts, TimerFires(a) PROVE TypeOK'
    BY <1>14 DEF TimerFires, connecting
  <1>15. CASE UNCHANGED vars
    BY <1>15 DEF vars
  <1> QED BY <1>1, <1>2, <1>3, <1>4, <1>5, <1>6, <1>7, <1>8, <1>9, <1>10, <1>11,
             <1>12, <1>13, <1>14, <1>15 DEF Next, InitSucceeds, InitFails

\* The type invariant of the reconnection logic.
THEOREM TypeCorrect == Spec => []TypeOK
  <1>1. Init => TypeOK
    BY DEF Init, TypeOK, States
  <1> QED BY <1>1, TypeStep, PTL DEF Spec

-----------------------------------------------------------------------------
(* A backend is never forgotten.  NeverStranded alone is not inductive:    *)
(* connectionDone() reports Connected whatever became of the link since,   *)
(* and LossNotForgotten says why a retry is armed when it does.  Pending   *)
(* is NeverStranded for as long as an init() that fork() lost is taken for *)
(* a running one, as its future has it.                                    *)

Watching == Served => runConnection \in Attempts

Pending == Served /\ (link = "down" \/ currentState # "Connected") => RetryPending

IInv == TypeOK /\ Watching /\ Pending /\ LossNotForgotten

\* A posted call other than the oldest outlives the taking of the oldest.
LEMMA TryOutlivesTail ==
    ASSUME NEW s \in Seq(Events), s # <<>>, Head(s).slot # "tryConnect",
           \E i \in DOMAIN s : s[i].slot = "tryConnect"
    PROVE  \E i \in DOMAIN Tail(s) : Tail(s)[i].slot = "tryConnect"
  <1>1. PICK i \in DOMAIN s : s[i].slot = "tryConnect"
    OBVIOUS
  <1>2. i # 1
    BY <1>1, TailKeeps
  <1>3. i - 1 \in DOMAIN Tail(s) /\ Tail(s)[i - 1] = s[i]
    BY <1>2, TailKeeps
  <1> QED BY <1>1, <1>3

LEMMA DoneOutlivesTail ==
    ASSUME NEW s \in Seq(Events), s # <<>>, NEW a, Head(s) # Finished(a),
           \E i \in DOMAIN s : s[i] = Finished(a)
    PROVE  \E i \in DOMAIN Tail(s) : Tail(s)[i] = Finished(a)
  <1>1. PICK i \in DOMAIN s : s[i] = Finished(a)
    OBVIOUS
  <1>2. i # 1
    BY <1>1, TailKeeps
  <1>3. i - 1 \in DOMAIN Tail(s) /\ Tail(s)[i - 1] = s[i]
    BY <1>2, TailKeeps
  <1> QED BY <1>1, <1>3

\* A step that takes no retry away keeps what was armed: it only posts calls, or it
\* takes a call that is not tryConnect().
LEMMA ArmedOutlives ==
    ASSUME TypeOK, RetryArmed, timer' = timer,
           \/ events' = events
           \/ \E e \in Events : events' = Append(events, e)
           \/ events # <<>> /\ Head(events).slot # "tryConnect" /\ events' = Tail(events)
           \/ /\ events # <<>> /\ Head(events).slot # "tryConnect"
              /\ \E e \in Events : events' = Append(Tail(events), e)
    PROVE  RetryArmed'
  <1>1. CASE timer # Off
    BY <1>1 DEF RetryArmed
  <1>2. CASE TryPending
    <2>0. events \in Seq(Events)
      BY DEF TypeOK
    <2>1. CASE events' = events
      BY <1>2, <2>1 DEF RetryArmed, TryPending
    <2>2. ASSUME NEW e \in Events, events' = Append(events, e)
          PROVE  RetryArmed'
      BY <1>2, <2>0, <2>2, AppendKeeps DEF RetryArmed, TryPending
    <2>3. ASSUME events # <<>>, Head(events).slot # "tryConnect"
          PROVE  /\ Tail(events) \in Seq(Events)
                 /\ \E i \in DOMAIN Tail(events) : Tail(events)[i].slot = "tryConnect"
      BY <1>2, <2>0, <2>3, TryOutlivesTail, TailKeeps DEF TryPending
    <2>4. ASSUME NEW e \in Events, events # <<>>, Head(events).slot # "tryConnect",
                 events' = Append(Tail(events), e)
          PROVE  RetryArmed'
      BY <2>3, <2>4, AppendKeeps DEF RetryArmed, TryPending
    <2> QED BY <2>1, <2>2, <2>3, <2>4 DEF RetryArmed, TryPending
  <1> QED BY <1>1, <1>2 DEF RetryArmed

\* Every way the code reports a broken connection arms the retry.
LEMMA LossArms ==
    ASSUME TypeOK, EmitLostFromThread \/ EmitLostFromMain
    PROVE  RetryArmed'
  <1>1. CASE EmitLostFromThread
    <2>1. events \in Seq(Events) /\ Call("tryConnect") \in Events
          /\ Call("backendDisconnected") \in Events
      BY PostedAreEvents DEF TypeOK, Slots
    <2>2. events' = events \o <<Call("tryConnect"), Call("backendDisconnected")>>
      BY <1>1 DEF EmitLostFromThread
    <2>3. /\ Len(events) + 1 \in DOMAIN events'
          /\ events'[Len(events) + 1] = Call("tryConnect")
      BY <2>1, <2>2
    <2> QED BY <2>3 DEF RetryArmed, TryPending, Call
  <1>2. CASE EmitLostFromMain
    BY <1>2, TryConnectArms DEF EmitLostFromMain, RetryArmed
  <1> QED BY <1>1, <1>2

\* With a retry armed, both parts of the invariant hold whatever else is true.
LEMMA ArmedSuffices ==
    ASSUME RetryArmed'
    PROVE  Pending' /\ LossNotForgotten'
  BY DEF Pending, LossNotForgotten, RetryPending

\* A step that keeps the state, the link, what the watched attempt does and every
\* posted call but one that is neither tryConnect() nor the watched result keeps both.
LEMMA QuietStep ==
    ASSUME IInv, TypeOK', Served' => Served, runConnection' = runConnection,
           currentState' = currentState, link' = link, timer' = timer,
           attempt'[runConnection] = attempt[runConnection],
           \/ events' = events
           \/ \E e \in Events : events' = Append(events, e)
           \/ /\ events # <<>> /\ Head(events).slot # "tryConnect"
              /\ Head(events) # Finished(runConnection)
              /\ events' = Tail(events)
    PROVE  Pending' /\ LossNotForgotten'
  <1>1. CASE RetryArmed
    BY <1>1, ArmedOutlives, ArmedSuffices DEF IInv
  <1>2. IsRunning(runConnection) => IsRunning(runConnection)'
    BY DEF IsRunning, IInv
  <1>3. DonePending => DonePending'
    <2>0. events \in Seq(Events)
      BY DEF TypeOK, IInv
    <2>1. CASE events' = events
      BY <2>1 DEF DonePending, Finished
    <2>2. ASSUME NEW e \in Events, events' = Append(events, e)
          PROVE  DonePending => DonePending'
      BY <2>0, <2>2, AppendKeeps DEF DonePending, Finished
    <2>3. ASSUME events # <<>>, Head(events) # Finished(runConnection),
                 events' = Tail(events)
          PROVE  DonePending => DonePending'
      <3>1. (\E i \in DOMAIN events : events[i] = Finished(runConnection))
            => \E i \in DOMAIN Tail(events) : Tail(events)[i] = Finished(runConnection)
        BY <2>0, <2>3, DoneOutlivesTail
      <3> QED BY <3>1, <2>3 DEF DonePending, Finished
    <2> QED BY <2>1, <2>2, <2>3
  <1>4. CASE ~RetryArmed
    BY <1>2, <1>3, <1>4
    DEF IInv, Pending, LossNotForgotten, RetryPending
  <1> QED BY <1>1, <1>4

\* A new attempt is being watched: nothing else is asked.
LEMMA NewAttempt ==
    ASSUME TypeOK, NEW a \in Attempts, connecting(a)
    PROVE  Watching' /\ Pending' /\ LossNotForgotten'
  BY DEF connecting, TypeOK, Watching, Pending, LossNotForgotten, RetryPending,
         IsRunning

\* The invariant is inductive.
LEMMA IInvStep == IInv /\ [Next]_vars => IInv'
  <1> SUFFICES ASSUME IInv, [Next]_vars
               PROVE  Watching' /\ Pending' /\ LossNotForgotten'
    BY TypeStep DEF IInv
  <1>t. TypeOK /\ TypeOK'
    BY TypeStep DEF IInv
  <1>1. ASSUME NEW a \in Attempts, LoadBackend(a) \/ TimerFires(a)
        PROVE  Watching' /\ Pending' /\ LossNotForgotten'
    BY <1>t, <1>1, NewAttempt DEF LoadBackend, TimerFires
  <1>2. CASE EnterEventLoop
    <2>1. Watching'
      BY <1>2, <1>t DEF EnterEventLoop, IInv, Watching, Served
    <2>2. CASE ~DaemonMode
      BY <1>2, <1>t, <2>1, <2>2, QuietStep DEF EnterEventLoop, Served
    <2>3. CASE DaemonMode
      <3>1. runConnection \in Attempts
        BY <1>2 DEF EnterEventLoop, IInv, Watching, Served
      <3>2. IsRunning(runConnection) => IsRunning(runConnection)'
        BY <1>2, <1>t, <2>3, <3>1 DEF EnterEventLoop, AfterFork, IsRunning, TypeOK
      <3>3. attempt'[runConnection] \in {"linked", "accepted"}
            => attempt[runConnection] \in {"linked", "accepted"}
        BY <1>2, <1>t, <2>3, <3>1 DEF EnterEventLoop, AfterFork, TypeOK
      <3>4. UNCHANGED <<timer, events, link, currentState, runConnection>> /\ Served
        BY <1>2 DEF EnterEventLoop, Served
      <3>5. (RetryArmed => RetryArmed') /\ (DonePending => DonePending')
        BY <3>4 DEF RetryArmed, TryPending, DonePending, Finished
      <3> QED BY <2>1, <3>2, <3>3, <3>4, <3>5
              DEF IInv, Pending, LossNotForgotten, RetryPending
    <2> QED BY <2>2, <2>3
  <1>3. CASE Quit \/ cleanup \/ Exited
    BY <1>3 DEF Quit, cleanup, Exited, vars, Served, Watching, Pending,
                LossNotForgotten
  <1>4. ASSUME NEW a \in Attempts, InitLinks(a)
        PROVE  Watching' /\ Pending' /\ LossNotForgotten'
    <2>1. Watching' /\ LossNotForgotten'
      BY <1>4 DEF InitLinks, IInv, Watching, LossNotForgotten, Served
    <2>2. IsRunning(runConnection) => IsRunning(runConnection)'
      BY <1>4, <1>t DEF InitLinks, IsRunning, TypeOK
    <2>3. (RetryArmed => RetryArmed') /\ (DonePending => DonePending')
      BY <1>4 DEF InitLinks, RetryArmed, TryPending, DonePending, Finished
    <2> QED BY <1>4, <2>1, <2>2, <2>3
            DEF InitLinks, IInv, Pending, RetryPending, Served
  <1>5. ASSUME NEW a \in Attempts, InitSucceeds(a) \/ InitFails(a)
        PROVE  Watching' /\ Pending' /\ LossNotForgotten'
    <2>0. PICK r \in {"accepted", "refused"} :
             /\ Returns(a, r)
             /\ r = "accepted" => attempt[a] = "linked"
      BY <1>5 DEF InitSucceeds, InitFails
    <2>1. Watching'
      BY <2>0 DEF Returns, IInv, Watching, Served
    <2>2. CASE a # runConnection
      <3>1. UNCHANGED <<process, currentState, timer, runConnection, link, events>>
        BY <2>0, <2>2 DEF Returns
      <3>2. CASE Served
        <4>1. attempt'[runConnection] = attempt[runConnection]
          BY <1>t, <2>0, <2>2, <3>2 DEF Returns, TypeOK, IInv, Watching
        <4> QED BY <1>t, <2>1, <3>1, <4>1, QuietStep DEF Served
      <3>3. CASE ~Served
        BY <2>1, <3>1, <3>3 DEF Served, Pending, LossNotForgotten
      <3> QED BY <3>2, <3>3
    <2>3. CASE a = runConnection
      <3>0. events \in Seq(Events) /\ Finished(a) \in Events
            /\ events' = Append(events, Finished(a))
        BY <1>t, <2>0, <2>3, PostedAreEvents DEF Returns, TypeOK
      <3>1. Len(events) + 1 \in DOMAIN events' /\ events'[Len(events) + 1] = Finished(a)
        BY <3>0, AppendKeeps
      <3>2. runConnection' = runConnection
        BY <2>0 DEF Returns
      <3>3. DonePending'
        BY <2>3, <3>1, <3>2 DEF DonePending, Finished
      <3>4. Pending'
        BY <3>3 DEF Pending, RetryPending
      <3>5. RetryArmed => RetryArmed'
        BY <1>t, <2>0, <3>0, ArmedOutlives DEF Returns
      <3>6. LossNotForgotten'
        BY <1>t, <2>0, <2>3, <3>2, <3>5
        DEF Returns, TypeOK, IInv, LossNotForgotten, Served
      <3> QED BY <2>1, <3>4, <3>6
    <2> QED BY <2>2, <2>3
  <1>6. CASE PlayFails \/ CallbackLoss
    <2>1. RetryArmed'
      BY <1>t, <1>6, LossArms DEF PlayFails, CallbackLoss
    <2>2. Watching'
      BY <1>6 DEF PlayFails, CallbackLoss, Breaks, IInv, Watching, Served
    <2> QED BY <2>1, <2>2, ArmedSuffices
  <1>7. CASE HandleTryConnect
    <2>1. RetryArmed'
      BY <1>t, <1>7, TryConnectArms DEF HandleTryConnect, RetryArmed
    <2>2. Watching'
      BY <1>7 DEF HandleTryConnect, IInv, Watching, Served
    <2> QED BY <2>1, <2>2, ArmedSuffices
  <1>8. CASE connectionDone
    <2>0. runConnection \in Attempts /\ Served
      BY <1>8 DEF connectionDone, Posted, InEventLoop, IInv, Watching, Served
    <2>1. Watching'
      BY <1>8 DEF connectionDone, IInv, Watching, Served
    <2>2. CASE DoneRefused
      <3>1. RetryArmed'
        BY <1>t, <2>2, TryConnectArms DEF DoneRefused, RetryArmed
      <3> QED BY <2>1, <3>1, ArmedSuffices
    <2>3. CASE DoneAccepted
      <3>1. attempt'[runConnection'] = "idle"
        BY <1>8, <1>t, <2>0 DEF connectionDone, TypeOK
      <3>2. LossNotForgotten'
        BY <3>1 DEF LossNotForgotten
      <3>3. link = "down" => RetryArmed
        BY <2>0, <2>3 DEF DoneAccepted, IInv, LossNotForgotten
      <3>4. Call("backendConnected") \in Events
        BY PostedAreEvents DEF Slots
      <3>5. RetryArmed => RetryArmed'
        BY <1>8, <1>t, <2>3, <3>4, ArmedOutlives DEF connectionDone, DoneAccepted, Posted
      <3>6. link' = link /\ currentState' = "Connected"
        BY <1>8, <2>3 DEF connectionDone, DoneAccepted
      <3>7. Pending'
        BY <3>3, <3>5, <3>6 DEF Pending, RetryPending
      <3> QED BY <2>1, <3>2, <3>7
    <2> QED BY <1>8, <2>2, <2>3 DEF connectionDone
  <1>9. CASE Discard
    <2>1. Watching'
      BY <1>9 DEF Discard, IInv, Watching, Served
    <2>2. Head(events) # Finished(runConnection) /\ Head(events).slot # "tryConnect"
      BY <1>9 DEF Discard, Posted, Finished
    <2>3. attempt'[runConnection] = attempt[runConnection]
      BY <1>9, <1>t DEF Discard, TypeOK
    <2> QED BY <1>9, <1>t, <2>1, <2>2, <2>3, QuietStep DEF Discard, Posted, Served
  <1>10. CASE ManagerSlot
    <2>1. Watching'
      BY <1>10 DEF ManagerSlot, IInv, Watching, Served
    <2>2. Head(events) # Finished(runConnection) /\ Head(events).slot # "tryConnect"
      BY <1>10 DEF ManagerSlot, Posted, Finished
    <2> QED BY <1>10, <1>t, <2>1, <2>2, QuietStep DEF ManagerSlot, Posted, Served
  <1>11. CASE UNCHANGED vars
    BY <1>11, <1>t, QuietStep DEF vars, IInv, Watching, Served
  <1> QED BY <1>1, <1>2, <1>3, <1>4, <1>5, <1>6, <1>7, <1>8, <1>9, <1>10, <1>11
          DEF Next

LEMMA IInvInit == Init => IInv
  BY DEF Init, IInv, TypeOK, States, Watching, Pending, LossNotForgotten, Served

\* A backend that is not usable, and has lost no init() by fork(), always has something on
\* its way that will bring it back: a wait, a posted tryConnect(), a running init() or its
\* unread result.
THEOREM Stranded == Spec => []NeverStranded
  <1>1. IInv => NeverStranded
    BY DEF IInv, Pending, NeverStranded
  <1> QED BY <1>1, IInvInit, IInvStep, PTL DEF Spec

\* A connection that breaks before its own good news arrives has a retry armed.
THEOREM Forgotten == Spec => []LossNotForgotten
  <1>1. IInv => LossNotForgotten
    BY DEF IInv
  <1> QED BY <1>1, IInvInit, IInvStep, PTL DEF Spec

-----------------------------------------------------------------------------
(* The waits grow.  A wait in progress was started for some number of       *)
(* failures; at most one attempt can still be refused while it runs, and    *)
(* the loss that started it was counted for that one.                       *)

\* The list of the constructor: no wait is shorter than the one before.
Growing ==
    \A i, j \in DOMAIN connectionIntervals :
        i <= j => connectionIntervals[i] <= connectionIntervals[j]

\* The attempt that is watched may yet be refused.
MayFail == runConnection \in Attempts /\ attempt[runConnection] \in {"running", "refused"}

\* The wait that runs was started for n failures.
StartedFor(n) == timer = Interval(n) /\ refusals <= n /\ (MayFail => refusals + 1 <= n)

Counted ==
    /\ refusals <= failedConnections
    /\ timer # Off => \E n \in Nat : StartedFor(n)
    /\ process = "loading" => timer = Off

LEMMA IntervalGrows ==
    ASSUME Growing, NEW m \in Nat, NEW n \in Nat, m <= n
    PROVE  Interval(m) <= Interval(n)
  <1>1. /\ Len(connectionIntervals) \in Nat \ {0}
        /\ DOMAIN connectionIntervals = 1 .. Len(connectionIntervals)
    BY BackendAssumption
  <1> DEFINE L == Len(connectionIntervals)
             at(k) == IF k < L THEN k + 1 ELSE L
  <1>2. \A k \in Nat : at(k) \in DOMAIN connectionIntervals
    BY <1>1
  <1>3. \A k \in Nat : Interval(k) = connectionIntervals[at(k)]
    BY DEF Interval
  <1>4. at(m) <= at(n)
    BY <1>1
  <1> HIDE DEF at
  <1> QED BY <1>2, <1>3, <1>4 DEF Growing

\* A wait that is started by a failure covers it.
LEMMA TryConnectCounts ==
    ASSUME TypeOK, Counted, tryConnect, NEW r \in Nat, refusals' = r,
           r <= failedConnections + 1,
           timer # Off => \E n \in Nat : timer = Interval(n) /\ r <= n /\ (MayFail' => r + 1 <= n),
           MayFail' => r <= failedConnections
    PROVE  refusals' <= failedConnections' /\ (timer' # Off => \E n \in Nat : StartedFor(n)')
  <1>1. failedConnections \in Nat /\ failedConnections' = failedConnections + 1
    BY DEF TypeOK, tryConnect
  <1>2. CASE timer = Off
    <2>1. timer' = Interval(failedConnections + 1)
      BY <1>2 DEF tryConnect
    <2>2. failedConnections + 1 \in Nat /\ (MayFail' => r + 1 <= failedConnections + 1)
      BY <1>1
    <2>3. \E n \in Nat : StartedFor(n)'
      <3> DEFINE k == failedConnections + 1
      <3>1. k \in Nat /\ timer' = Interval(k) /\ refusals' <= k /\ (MayFail' => refusals' + 1 <= k)
        BY <2>1, <2>2
      <3> HIDE DEF k
      <3> QED BY <3>1 DEF StartedFor
    <2> QED BY <1>1, <2>3
  <1>3. CASE timer # Off
    <2>1. timer' = timer
      BY <1>3 DEF tryConnect
    <2> QED BY <1>1, <1>3, <2>1 DEF StartedFor
  <1> QED BY <1>2, <1>3

\* A step that starts no wait, counts nothing and gives the watched attempt no new chance to fail.
LEMMA NothingCounted ==
    ASSUME Counted, UNCHANGED <<failedConnections, timer, refusals>>, MayFail' => MayFail,
           process' = "loading" => process = "loading"
    PROVE  Counted'
  <1>1. \A n : StartedFor(n) => StartedFor(n)'
    BY DEF StartedFor
  <1> QED BY <1>1 DEF Counted

LEMMA CountedStep == TypeOK /\ Counted /\ [Next]_vars => Counted'
  <1> SUFFICES ASSUME TypeOK, Counted, [Next]_vars
               PROVE  Counted'
    OBVIOUS
  <1>t. TypeOK'
    BY TypeStep
  <1>n. failedConnections \in Nat /\ refusals \in Nat /\ refusals <= failedConnections
    BY DEF TypeOK, Counted
  <1>1. ASSUME NEW a \in Attempts, LoadBackend(a) \/ TimerFires(a)
        PROVE  Counted'
    <2>1. timer' = Off /\ UNCHANGED <<failedConnections, refusals>>
      BY <1>1 DEF LoadBackend, TimerFires, Counted
    <2>2. QED
      BY <1>n, <2>1 DEF Counted
  <1>2. CASE EnterEventLoop
    BY <1>2, NothingCounted DEF EnterEventLoop, AfterFork, MayFail, TypeOK
  <1>3. CASE Quit \/ Exited \/ UNCHANGED vars
    BY <1>3, NothingCounted DEF Quit, Exited, vars, MayFail
  <1>4. CASE cleanup
    BY <1>4, <1>n DEF cleanup, Counted
  <1>5. ASSUME NEW a \in Attempts, InitLinks(a)
        PROVE  Counted'
    BY <1>5, NothingCounted DEF InitLinks, MayFail, TypeOK
  <1>6. ASSUME NEW a \in Attempts, InitSucceeds(a) \/ InitFails(a)
        PROVE  Counted'
    BY <1>6, NothingCounted DEF InitSucceeds, InitFails, Returns, MayFail, TypeOK
  <1>7. CASE PlayFails \/ CallbackLoss
    <2>1. /\ MayFail' = MayFail /\ process' = process /\ process # "loading" /\ refusals' = refusals
      BY <1>7 DEF PlayFails, CallbackLoss, Breaks, MayFail, InEventLoop, EmitLostFromThread,
                  EmitLostFromMain
    <2>2. CASE EmitLostFromThread
      BY <1>7, <2>1, <2>2, NothingCounted DEF EmitLostFromThread
    <2>3. CASE EmitLostFromMain
      <3>1. tryConnect
        BY <2>3 DEF EmitLostFromMain
      <3>2. timer # Off => \E n \in Nat : /\ timer = Interval(n) /\ refusals <= n
                                          /\ MayFail' => refusals + 1 <= n
        BY <2>1 DEF Counted, StartedFor
      <3> QED BY <1>n, <2>1, <3>1, <3>2, TryConnectCounts DEF Counted
    <2> QED BY <1>7, <2>2, <2>3 DEF PlayFails, CallbackLoss
  <1>8. CASE HandleTryConnect
    <2>1. MayFail' = MayFail /\ process' = process /\ process # "loading" /\ refusals' = refusals
          /\ tryConnect
      BY <1>8 DEF HandleTryConnect, MayFail, Posted, InEventLoop
    <2>2. timer # Off => \E n \in Nat : /\ timer = Interval(n) /\ refusals <= n
                                        /\ MayFail' => refusals + 1 <= n
      BY <2>1 DEF Counted, StartedFor
    <2> QED BY <1>n, <2>1, <2>2, TryConnectCounts DEF Counted
  <1>9. CASE connectionDone
    <2>1. /\ process' = process /\ process # "loading" /\ runConnection' = runConnection
          /\ attempt' = [attempt EXCEPT ![runConnection] = "idle"]
      BY <1>9 DEF connectionDone, Posted, InEventLoop
    <2>2. ~MayFail'
      BY <2>1 DEF MayFail, TypeOK
    <2>3. CASE DoneRefused
      <3>1. tryConnect /\ refusals' = refusals + 1
        BY <2>3 DEF DoneRefused
      <3>2. runConnection \in Attempts => MayFail
        BY <2>3 DEF DoneRefused, MayFail
      <3>3. refusals + 1 \in Nat /\ refusals + 1 <= failedConnections + 1
        BY <1>n
      <3>4. timer # Off => \E n \in Nat : timer = Interval(n) /\ refusals + 1 <= n
        <4>1. SUFFICES ASSUME timer # Off
                       PROVE  \E n \in Nat : timer = Interval(n) /\ refusals + 1 <= n
          OBVIOUS
        <4>2. runConnection \in Attempts
          BY <1>9, <1>t, <2>1, <2>3, TypeOK DEF DoneRefused, TypeOK
        <4> QED BY <3>2, <4>1, <4>2 DEF Counted, StartedFor
      <3> QED BY <2>1, <2>2, <3>1, <3>3, <3>4, TryConnectCounts DEF Counted
    <2>4. CASE DoneAccepted
      <3>1. refusals' = 0 /\ failedConnections' = 0 /\ timer' = timer
        BY <2>4 DEF DoneAccepted
      <3>2. \A n \in Nat : StartedFor(n) => StartedFor(n)'
        BY <2>2, <3>1 DEF StartedFor
      <3> QED BY <2>1, <3>1, <3>2 DEF Counted
    <2> QED BY <1>9, <2>3, <2>4 DEF connectionDone
  <1>10. CASE Discard
    BY <1>10, NothingCounted DEF Discard, MayFail, TypeOK
  <1>11. CASE ManagerSlot
    BY <1>11, NothingCounted DEF ManagerSlot, MayFail
  <1> QED BY <1>1, <1>2, <1>3, <1>4, <1>5, <1>6, <1>7, <1>8, <1>9, <1>10, <1>11 DEF Next

\* With a list of growing waits, as the constructor's, the wait in progress is never shorter
\* than the list's wait for the attempts that failed since the last success, whatever losses
\* are reported while one is running.
THEOREM Backoff ==
    ASSUME Growing
    PROVE  Spec => []BackoffAtLeast
  <1>1. Init => TypeOK /\ Counted
    BY DEF Init, TypeOK, States, Counted
  <1>2. TypeOK /\ Counted /\ [Next]_vars => (TypeOK /\ Counted)'
    BY TypeStep, CountedStep
  <1>3. TypeOK /\ Counted => BackoffAtLeast
    <2> SUFFICES ASSUME TypeOK, Counted, timer # Off
                 PROVE  timer >= Interval(refusals)
      BY DEF BackoffAtLeast
    <2>1. PICK n \in Nat : timer = Interval(n) /\ refusals <= n /\ refusals \in Nat
      BY DEF Counted, StartedFor, TypeOK
    <2>2. Interval(refusals) <= Interval(n)
      BY <2>1, IntervalGrows
    <2>3. timer \in Nat
      BY BackendAssumption DEF TypeOK, Off, Waits
    <2>4. Interval(refusals) \in Nat
      BY <2>1, BackendAssumption DEF Interval
    <2> QED BY <2>1, <2>2, <2>3, <2>4
  <1> QED BY <1>1, <1>2, <1>3, PTL DEF Spec

-----------------------------------------------------------------------------
(* Everything in its turn.  Until a loss overtakes, the parts of the       *)
(* machinery take turns: a wait, a posted tryConnect(), an init() or its   *)
(* posted result, or a usable backend, and never two of them, but for an   *)
(* init() that sets the state and has still to be heard of.                *)

Holds(s, slot) == \E i \in DOMAIN s : s[i].slot = slot
Single(s, slot) == \A i, j \in DOMAIN s : s[i].slot = slot /\ s[j].slot = slot => i = j
DoneIsOf(s, a) == \A i \in DOMAIN s : s[i].slot = "connectionDone" => s[i].of = a

Resting == \A a \in Attempts : attempt[a] = "idle"
Reaches == link = "up" \/ process = "unloaded"

\* Only the watched attempt can be doing anything.
Watched == \A a \in Attempts : attempt[a] # "idle" => a = runConnection

Quiet ==
    currentState = "Connected" =>
        /\ timer = Off
        /\ Reaches
        /\ \A a \in Attempts :
               attempt[a] \notin {"running", "refused"} /\ (attempt[a] = "linked" => InitSetsState)

NoRetryBeside ==
    /\ timer # Off => Resting
    /\ Holds(events, "tryConnect") =>
         timer = Off /\ Resting /\ currentState # "Connected"

ResultIsNews ==
    Holds(events, "connectionDone") =>
        runConnection \in Attempts /\ attempt[runConnection] \in {"accepted", "refused"}

Queue ==
    /\ Single(events, "tryConnect")
    /\ Single(events, "connectionDone")
    /\ DoneIsOf(events, runConnection)

LinkHolds ==
    \A a \in Attempts : /\ attempt[a] \in {"linked", "accepted"} => Reaches
                        /\ attempt[a] \in {"running", "refused"} => link = "down"

\* A connection is not there without an init() that has made it or a state that says so.
LinkIsUsed == link = "up" => currentState = "Connected" \/ ~Resting

AtTheEnds ==
    /\ process = "loading" =>
         events = <<>> /\ timer = Off /\ Resting /\ currentState = "Disconnected" /\ link = "down"
    /\ process = "unloaded" =>
         events = <<>> /\ \A a \in Attempts : attempt[a] \notin {"running", "linked"}

Turn ==
    /\ TypeOK
    /\ Watched
    /\ Quiet
    /\ NoRetryBeside
    /\ ResultIsNews
    /\ Queue
    /\ LinkHolds
    /\ LinkIsUsed
    /\ AtTheEnds

\* What a posted call adds to the queue.
LEMMA AppendHolds ==
    ASSUME NEW s \in Seq(Events), NEW e \in Events
    PROVE  /\ \A slot : Holds(Append(s, e), slot) <=> Holds(s, slot) \/ e.slot = slot
           /\ \A slot : Single(s, slot) /\ (e.slot = slot => ~Holds(s, slot))
                        => Single(Append(s, e), slot)
           /\ \A a : DoneIsOf(s, a) /\ (e.slot = "connectionDone" => e.of = a)
                     => DoneIsOf(Append(s, e), a)
  <1> DEFINE t == Append(s, e)
  <1>1. /\ DOMAIN s \subseteq DOMAIN t
        /\ \A i \in DOMAIN s : t[i] = s[i]
        /\ Len(s) + 1 \in DOMAIN t /\ t[Len(s) + 1] = e
    BY AppendKeeps
  <1>2. \A i \in DOMAIN t : i \in DOMAIN s \/ i = Len(s) + 1
    OBVIOUS
  <1> HIDE DEF t
  <1>3. \A slot : Holds(t, slot) <=> Holds(s, slot) \/ e.slot = slot
    BY <1>1, <1>2 DEF Holds
  <1>4. \A slot : Single(s, slot) /\ (e.slot = slot => ~Holds(s, slot)) => Single(t, slot)
    BY <1>1, <1>2 DEF Holds, Single
  <1>5. \A a : DoneIsOf(s, a) /\ (e.slot = "connectionDone" => e.of = a) => DoneIsOf(t, a)
    BY <1>1, <1>2 DEF DoneIsOf
  <1> QED BY <1>3, <1>4, <1>5 DEF t

\* What is left in the queue when its oldest call is served.
LEMMA TailHolds ==
    ASSUME NEW s \in Seq(Events), s # <<>>
    PROVE  /\ \A slot : Holds(Tail(s), slot) => Holds(s, slot)
           /\ \A slot : Head(s).slot # slot /\ Holds(s, slot) => Holds(Tail(s), slot)
           /\ \A slot : Head(s).slot = slot => Holds(s, slot)
           /\ \A slot : Single(s, slot) => Single(Tail(s), slot)
           /\ \A slot : Single(s, slot) /\ Head(s).slot = slot => ~Holds(Tail(s), slot)
           /\ \A a : DoneIsOf(s, a) => DoneIsOf(Tail(s), a)
  <1> DEFINE t == Tail(s)
  <1>1. /\ DOMAIN s \subseteq Nat /\ 1 \in DOMAIN s /\ Head(s) = s[1]
        /\ \A i \in DOMAIN s : i # 1 => i - 1 \in DOMAIN t /\ t[i - 1] = s[i]
    BY TailKeeps
  <1>2. /\ DOMAIN t \subseteq Nat \ {0}
        /\ \A i \in DOMAIN t : i + 1 \in DOMAIN s /\ t[i] = s[i + 1]
    OBVIOUS
  <1> HIDE DEF t
  <1>3. \A slot : Holds(t, slot) => Holds(s, slot)
    BY <1>2 DEF Holds
  <1>4. \A slot : s[1].slot # slot /\ Holds(s, slot) => Holds(t, slot)
    BY <1>1 DEF Holds
  <1>5. \A slot : s[1].slot = slot => Holds(s, slot)
    BY <1>1 DEF Holds
  <1>6. \A slot : Single(s, slot) => Single(t, slot)
    BY <1>2 DEF Single
  <1>7. \A slot : Single(s, slot) /\ s[1].slot = slot => ~Holds(t, slot)
    BY <1>1, <1>2 DEF Single, Holds
  <1>8. \A a : DoneIsOf(s, a) => DoneIsOf(t, a)
    BY <1>2 DEF DoneIsOf
  <1> QED BY <1>1, <1>3, <1>4, <1>5, <1>6, <1>7, <1>8 DEF t

\* A loss noticed on a pool thread posts both slots.
LEMMA LossPosts ==
    ASSUME NEW s \in Seq(Events)
    PROVE  s \o <<Call("tryConnect"), Call("backendDisconnected")>>
             = Append(Append(s, Call("tryConnect")), Call("backendDisconnected"))
  OBVIOUS

\* connecting() when nothing else is going on.
LEMMA TurnConnects ==
    ASSUME TypeOK', Turn, NEW a \in Attempts, connecting(a), Resting,
           ~Holds(events, "tryConnect"), ~Holds(events, "connectionDone"),
           currentState # "Connected", timer' = Off, process' \in {"starting", "running"},
           UNCHANGED <<events, currentState, link>>
    PROVE  Turn'
  <1>1. attempt \in [Attempts -> Phases]
    BY DEF Turn, TypeOK, Phases
  <1>2. \A b \in Attempts : attempt'[b] = IF b = a THEN "running" ELSE "idle"
    BY <1>1 DEF connecting, Resting
  <1>0. link' = "down"
    BY DEF Turn, LinkIsUsed, TypeOK
  <1>3. Watched' /\ LinkHolds' /\ LinkIsUsed'
    BY <1>0, <1>2 DEF Watched, LinkHolds, LinkIsUsed, connecting
  <1>4. Queue'
    BY DEF Turn, Queue, DoneIsOf, Single, Holds
  <1>5. Quiet' /\ NoRetryBeside' /\ ResultIsNews'
    BY DEF Quiet, NoRetryBeside, ResultIsNews, Holds
  <1>6. AtTheEnds'
    BY DEF AtTheEnds
  <1> QED BY <1>3, <1>4, <1>5, <1>6 DEF Turn

\* tryConnect() when nothing else is left to do.
LEMMA TurnWaits ==
    ASSUME TypeOK, TypeOK', tryConnect, Resting', process' = "running", Queue', link' = "down",
           ~Holds(events', "tryConnect"), ~Holds(events', "connectionDone")
    PROVE  Turn'
  <1>1. Watched' /\ LinkHolds' /\ LinkIsUsed' /\ AtTheEnds'
    BY DEF Resting, Watched, LinkHolds, LinkIsUsed, AtTheEnds
  <1>2. Quiet' /\ NoRetryBeside' /\ ResultIsNews'
    BY DEF Quiet, NoRetryBeside, ResultIsNews, tryConnect
  <1> QED BY <1>1, <1>2 DEF Turn

\* A step that leaves the state, the wait, the attempts and the link alone, and takes a call
\* for the manager from the queue if any.
LEMMA TurnStays ==
    ASSUME Turn, TypeOK', UNCHANGED <<currentState, timer, runConnection, attempt, link>>,
           \/ events' = events
           \/ events # <<>> /\ events' = Tail(events),
           process' = "loading" => process = "loading" /\ events' = events,
           process' = "unloaded" <=> process = "unloaded"
    PROVE  Turn'
  <1>1. Resting' = Resting /\ Reaches' = Reaches
    BY DEF Resting, Reaches
  <1>2. Watched' /\ Quiet' /\ LinkHolds' /\ LinkIsUsed'
    BY <1>1 DEF Turn, Watched, Quiet, LinkHolds, LinkIsUsed
  <1>3. events \in Seq(Events)
    BY DEF Turn, TypeOK
  <1>4. CASE events' = events
    BY <1>1, <1>2, <1>4 DEF Turn, NoRetryBeside, ResultIsNews, Queue, AtTheEnds
  <1>5. CASE events # <<>> /\ events' = Tail(events)
    <2>1. \A slot : Holds(events', slot) => Holds(events, slot)
      BY <1>3, <1>5, TailHolds
    <2>2. NoRetryBeside' /\ ResultIsNews'
      BY <1>1, <2>1 DEF Turn, NoRetryBeside, ResultIsNews
    <2>3. Queue'
      BY <1>3, <1>5, TailHolds DEF Turn, Queue
    <2>4. AtTheEnds'
      BY <1>5 DEF Turn, AtTheEnds
    <2> QED BY <1>2, <2>2, <2>3, <2>4 DEF Turn
  <1> QED BY <1>4, <1>5

LEMMA TurnInit == Init => Turn
  BY IInvInit DEF Init, IInv, Turn, Watched, Quiet, NoRetryBeside, ResultIsNews, Queue, LinkHolds,
         LinkIsUsed, AtTheEnds, Resting, Holds, Single, DoneIsOf

LEMMA TurnStep ==
    ASSUME Turn, [Next]_vars, overtaken' = 0
    PROVE  Turn'
  <1>t. TypeOK /\ TypeOK' /\ events \in Seq(Events) /\ attempt \in [Attempts -> Phases]
    BY TypeStep DEF Turn, TypeOK, Phases
  <1>1. ASSUME NEW a \in Attempts, LoadBackend(a)
        PROVE  Turn'
    <2>1. events = <<>> /\ Resting /\ currentState # "Connected" /\ timer = Off
      BY <1>1 DEF LoadBackend, Turn, AtTheEnds
    <2>2. \A slot : ~Holds(events, slot)
      BY <2>1 DEF Holds
    <2> QED BY <1>1, <1>t, <2>1, <2>2, TurnConnects DEF LoadBackend
  <1>2. ASSUME NEW a \in Attempts, TimerFires(a)
        PROVE  Turn'
    <2>1. timer # Off /\ Resting /\ process' = "running"
      BY <1>2 DEF TimerFires, InEventLoop, Turn, NoRetryBeside
    <2>2. ~Holds(events, "tryConnect") /\ ~Holds(events, "connectionDone")
      BY <2>1 DEF Turn, NoRetryBeside, ResultIsNews, Resting
    <2>3. currentState # "Connected"
      BY <2>1 DEF Turn, Quiet
    <2> QED BY <1>2, <1>t, <2>1, <2>2, <2>3, TurnConnects DEF TimerFires
  <1>3. CASE EnterEventLoop
    <2>1. UNCHANGED <<currentState, timer, runConnection, link, events>>
          /\ process = "starting" /\ process' = "running"
      BY <1>3 DEF EnterEventLoop
    <2>2. \A a \in Attempts : \/ attempt'[a] = attempt[a]
                              \/ attempt[a] \in {"running", "linked"} /\ attempt'[a] = "vanished"
      BY <1>3, <1>t DEF EnterEventLoop, AfterFork
    <2>3. Resting => Resting'
      BY <2>2 DEF Resting
    <2>4. Watched' /\ LinkHolds' /\ LinkIsUsed'
      BY <2>1, <2>2 DEF Turn, Watched, LinkHolds, LinkIsUsed, Resting, Reaches
    <2>5. Quiet' /\ NoRetryBeside' /\ Queue'
      BY <2>1, <2>2, <2>3 DEF Turn, Quiet, NoRetryBeside, Queue, Reaches
    <2>6. ResultIsNews'
      BY <2>1, <2>2 DEF Turn, ResultIsNews
    <2>7. AtTheEnds'
      BY <2>1 DEF AtTheEnds
    <2> QED BY <1>t, <2>4, <2>5, <2>6, <2>7 DEF Turn
  <1>4. CASE Quit \/ Exited \/ UNCHANGED vars
    BY <1>4, <1>t, TurnStays DEF Quit, Exited, vars, InEventLoop
  <1>5. CASE cleanup
    <2>1. UNCHANGED <<currentState, runConnection, attempt>> /\ events' = <<>> /\ timer' = Off
          /\ process' = "unloaded" /\ ~IsRunning(runConnection) /\ link' = "down"
      BY <1>5 DEF cleanup
    <2>2. Watched' /\ LinkHolds' /\ LinkIsUsed' /\ Resting' = Resting
      BY <2>1 DEF Turn, Watched, LinkHolds, LinkIsUsed, Reaches, Resting
    <2>3. Quiet' /\ NoRetryBeside' /\ ResultIsNews' /\ Queue'
      BY <2>1, <2>2 DEF Turn, Quiet, Reaches, NoRetryBeside, ResultIsNews, Queue, Holds, Single,
                        DoneIsOf
    <2>4. \A a \in Attempts : attempt[a] \notin {"running", "linked"}
      BY <2>1 DEF Turn, Watched, IsRunning
    <2>5. AtTheEnds'
      BY <2>1, <2>4 DEF AtTheEnds
    <2> QED BY <1>t, <2>2, <2>3, <2>5 DEF Turn
  <1>6. ASSUME NEW a \in Attempts, InitLinks(a)
        PROVE  Turn'
    <2>1. /\ attempt[a] = "running" /\ attempt'[a] = "linked" /\ link' = "up"
          /\ \A b \in Attempts : b # a => attempt'[b] = attempt[b]
          /\ UNCHANGED <<process, timer, runConnection, events>>
          /\ currentState' = "Connected" => currentState = "Connected" \/ InitSetsState
      BY <1>6, <1>t DEF InitLinks
    <2>2. a = runConnection /\ ~Resting /\ ~Resting'
      BY <2>1 DEF Turn, Watched, Resting
    <2>3. currentState # "Connected" /\ timer = Off /\ ~Holds(events, "tryConnect")
          /\ ~Holds(events, "connectionDone")
      <3>0. attempt[a] \in {"running", "refused"} /\ Quiet
        BY <2>1 DEF Turn
      <3>1. currentState # "Connected"
        BY <3>0 DEF Quiet
      <3>2. ~Holds(events, "connectionDone")
        BY <2>1, <2>2 DEF Turn, ResultIsNews
      <3> QED BY <2>2, <3>1, <3>2 DEF Turn, NoRetryBeside
    <2>4. Watched' /\ LinkHolds' /\ LinkIsUsed'
      BY <2>1, <2>2 DEF Turn, Watched, LinkHolds, LinkIsUsed, Reaches
    <2>5. Quiet'
      BY <2>1, <2>2, <2>3 DEF Turn, Watched, Quiet, Reaches
    <2>6. NoRetryBeside' /\ ResultIsNews' /\ Queue'
      BY <2>1, <2>3 DEF Turn, NoRetryBeside, ResultIsNews, Queue
    <2>7. AtTheEnds'
      BY <2>1, <2>2 DEF Turn, AtTheEnds
    <2> QED BY <1>t, <2>4, <2>5, <2>6, <2>7 DEF Turn
  <1>7. ASSUME NEW a \in Attempts, NEW r \in {"accepted", "refused"}, Returns(a, r),
               attempt[a] = IF r = "accepted" THEN "linked" ELSE "running"
        PROVE  Turn'
    <2>1. a = runConnection /\ ~Resting /\ attempt[a] \in {"running", "linked"}
      BY <1>7 DEF Turn, Watched, Resting
    <2>2. /\ attempt'[a] = r /\ events' = Append(events, Finished(a))
          /\ \A b \in Attempts : b # a => attempt'[b] = attempt[b]
          /\ UNCHANGED <<currentState, process, timer, runConnection, link>>
      BY <1>7, <1>t, <2>1 DEF Returns
    <2>3. timer = Off /\ ~Holds(events, "tryConnect") /\ ~Holds(events, "connectionDone")
      BY <2>1 DEF Turn, NoRetryBeside, ResultIsNews
    <2>4. Finished(a) \in Events /\ Finished(a).slot = "connectionDone" /\ Finished(a).of = a
      BY PostedAreEvents DEF Finished
    <2>5. Queue' /\ ~Holds(events', "tryConnect")
      BY <1>t, <2>1, <2>2, <2>3, <2>4, AppendHolds DEF Turn, Queue
    <2>6. Watched' /\ LinkHolds' /\ LinkIsUsed'
      BY <1>7, <2>1, <2>2 DEF Turn, Watched, LinkHolds, LinkIsUsed, Resting, Reaches
    <2>7. Quiet'
      BY <1>7, <2>1, <2>2, <2>3 DEF Turn, Quiet, Reaches
    <2>8. NoRetryBeside' /\ ResultIsNews'
      BY <2>1, <2>2, <2>3, <2>5 DEF NoRetryBeside, ResultIsNews
    <2>9. AtTheEnds'
      BY <2>1, <2>2 DEF Turn, AtTheEnds
    <2> QED BY <1>t, <2>5, <2>6, <2>7, <2>8, <2>9 DEF Turn
  <1>8. CASE PlayFails \/ CallbackLoss
    <2>1. /\ Resting /\ Resting' /\ timer = Off /\ ~Holds(events, "tryConnect") /\ link' = "down"
          /\ process \in {"starting", "running"}
          /\ UNCHANGED <<process, runConnection, attempt>>
      <3>1. Breaks /\ process \in {"starting", "running"}
        BY <1>8 DEF PlayFails, CallbackLoss, InEventLoop
      <3>2. overtaken \in Nat /\ AtRest
        BY <1>t, <3>1 DEF Breaks, TypeOK
      <3> QED BY <3>1, <3>2 DEF Breaks, AtRest, TryPending, Holds, Resting
    <2>2. ~Holds(events, "connectionDone")
      BY <2>1 DEF Turn, ResultIsNews, Resting
    <2>3. /\ Call("tryConnect") \in Events /\ Call("backendDisconnected") \in Events
          /\ Call("tryConnect").slot = "tryConnect"
          /\ Call("backendDisconnected").slot = "backendDisconnected"
      BY PostedAreEvents DEF Call, Slots
    <2>4. CASE PlayFails /\ EmitLostFromMain
      <3>1. /\ events' = Append(events, Call("backendDisconnected")) /\ tryConnect
            /\ process' = "running"
        BY <2>1, <2>4 DEF EmitLostFromMain, PlayFails, InEventLoop
      <3>2. Queue' /\ ~Holds(events', "tryConnect") /\ ~Holds(events', "connectionDone")
        BY <1>t, <2>1, <2>2, <2>3, <3>1, AppendHolds DEF Turn, Queue
      <3> QED BY <1>t, <2>1, <3>1, <3>2, TurnWaits
    <2>5. CASE EmitLostFromThread
      <3> DEFINE q == Append(events, Call("tryConnect"))
      <3>1. events' = Append(q, Call("backendDisconnected")) /\ q \in Seq(Events)
        BY <1>t, <2>3, <2>5, LossPosts, AppendKeeps DEF EmitLostFromThread
      <3>2. /\ Single(q, "tryConnect") /\ Single(q, "connectionDone")
            /\ DoneIsOf(q, runConnection) /\ ~Holds(q, "connectionDone")
        BY <1>t, <2>1, <2>2, <2>3, AppendHolds DEF Turn, Queue
      <3> HIDE DEF q
      <3>3. Queue' /\ ~Holds(events', "connectionDone")
        BY <2>1, <2>3, <3>1, <3>2, AppendHolds DEF Queue
      <3>4. timer' = Off /\ currentState' = "Disconnected"
        BY <2>1, <2>5 DEF EmitLostFromThread
      <3>5. Watched' /\ LinkHolds' /\ LinkIsUsed' /\ AtTheEnds'
        BY <2>1 DEF Resting, Watched, LinkHolds, LinkIsUsed, AtTheEnds
      <3>6. Quiet' /\ NoRetryBeside' /\ ResultIsNews'
        BY <2>1, <3>3, <3>4 DEF Quiet, NoRetryBeside, ResultIsNews
      <3> QED BY <1>t, <3>3, <3>5, <3>6 DEF Turn
    <2> QED BY <1>8, <2>4, <2>5 DEF PlayFails, CallbackLoss
  <1>9. CASE HandleTryConnect
    <2>1. /\ events # <<>> /\ Head(events).slot = "tryConnect" /\ events' = Tail(events)
          /\ tryConnect /\ process' = "running" /\ UNCHANGED <<runConnection, attempt, link>>
      BY <1>9 DEF HandleTryConnect, Posted, InEventLoop
    <2>2. Holds(events, "tryConnect")
      BY <1>t, <2>1, TailHolds
    <2>3. Resting /\ Resting'
      BY <2>1, <2>2 DEF Turn, NoRetryBeside, Resting
    <2>4. ~Holds(events, "connectionDone")
      BY <2>3 DEF Turn, ResultIsNews, Resting
    <2>5. Queue' /\ ~Holds(events', "tryConnect") /\ ~Holds(events', "connectionDone")
      BY <1>t, <2>1, <2>4, TailHolds DEF Turn, Queue
    <2>6. link' = "down"
      BY <1>t, <2>1, <2>2, <2>3 DEF Turn, NoRetryBeside, LinkIsUsed, TypeOK
    <2> QED BY <1>t, <2>1, <2>3, <2>5, <2>6, TurnWaits
  <1>10. CASE connectionDone
    <2>1. /\ events # <<>> /\ Head(events).slot = "connectionDone" /\ process = "running"
          /\ UNCHANGED <<process, runConnection, link>>
          /\ attempt' = [attempt EXCEPT ![runConnection] = "idle"]
      BY <1>10 DEF connectionDone, Posted, InEventLoop
    <2>2. Holds(events, "connectionDone")
      BY <1>t, <2>1, TailHolds
    <2>3. /\ runConnection \in Attempts
          /\ attempt[runConnection] \in {"accepted", "refused"} /\ ~Resting
      BY <2>2 DEF Turn, ResultIsNews, Resting
    <2>4. ~Holds(events, "tryConnect") /\ timer = Off
      BY <2>3 DEF Turn, NoRetryBeside
    <2>5. Resting'
      BY <1>t, <2>1, <2>3 DEF Turn, Watched, Resting
    <2> DEFINE q == Tail(events)
    <2>6. /\ ~Holds(q, "tryConnect") /\ ~Holds(q, "connectionDone")
          /\ Single(q, "tryConnect") /\ Single(q, "connectionDone")
          /\ DoneIsOf(q, runConnection) /\ q \in Seq(Events)
      BY <1>t, <2>1, <2>4, TailHolds, TailKeeps DEF Turn, Queue
    <2>7. CASE DoneRefused
      <3>1. tryConnect /\ events' = q
        BY <2>7 DEF DoneRefused
      <3> HIDE DEF q
      <3>2. Queue' /\ ~Holds(events', "tryConnect") /\ ~Holds(events', "connectionDone")
        BY <2>1, <2>6, <3>1 DEF Queue
      <3>3. link' = "down"
        BY <2>1, <2>3, <2>7 DEF DoneRefused, Turn, LinkHolds
      <3> QED BY <1>t, <2>1, <2>5, <3>1, <3>2, <3>3, TurnWaits
    <2>8. CASE DoneAccepted
      <3>1. /\ events' = Append(q, Call("backendConnected")) /\ timer' = Off
            /\ currentState' = "Connected" /\ attempt[runConnection] = "accepted"
        BY <2>4, <2>8 DEF DoneAccepted
      <3> HIDE DEF q
      <3>2. Call("backendConnected") \in Events
            /\ Call("backendConnected").slot = "backendConnected"
        BY PostedAreEvents DEF Call, Slots
      <3>3. Queue' /\ ~Holds(events', "tryConnect") /\ ~Holds(events', "connectionDone")
        BY <2>1, <2>6, <3>1, <3>2, AppendHolds DEF Queue
      <3>4. Reaches'
        BY <2>1, <2>3, <3>1 DEF Turn, LinkHolds, Reaches
      <3>5. Watched' /\ LinkHolds' /\ LinkIsUsed' /\ AtTheEnds'
        BY <2>1, <2>5, <3>1 DEF Resting, Watched, LinkHolds, LinkIsUsed, AtTheEnds
      <3>6. Quiet' /\ NoRetryBeside' /\ ResultIsNews'
        BY <2>5, <3>1, <3>3, <3>4 DEF Quiet, NoRetryBeside, ResultIsNews, Resting
      <3> QED BY <1>t, <3>3, <3>5, <3>6 DEF Turn
    <2> QED BY <1>10, <2>7, <2>8 DEF connectionDone
  <1>11. CASE Discard
    <2>1. events # <<>> /\ Head(events).slot = "connectionDone" /\ Head(events).of # runConnection
      BY <1>11 DEF Discard, Posted
    <2>2. 1 \in DOMAIN events /\ Head(events) = events[1]
      BY <1>t, <2>1
    <2> QED BY <2>1, <2>2 DEF Turn, Queue, DoneIsOf
  <1>12. CASE ManagerSlot
    BY <1>12, <1>t, TurnStays DEF ManagerSlot, Posted, InEventLoop
  <1>13. ASSUME NEW a \in Attempts, InitSucceeds(a) \/ InitFails(a)
         PROVE  Turn'
    BY <1>7, <1>13 DEF InitSucceeds, InitFails
  <1> QED BY <1>1, <1>2, <1>3, <1>4, <1>5, <1>6, <1>8, <1>9, <1>10, <1>11, <1>12, <1>13
          DEF Next

\* Losses that overtook are not forgotten.
LEMMA OvertakenGrows ==
    ASSUME TypeOK, [Next]_vars
    PROVE  overtaken \in Nat /\ overtaken' \in Nat /\ overtaken <= overtaken'
  <1>1. CASE PlayFails \/ CallbackLoss
    BY <1>1 DEF PlayFails, CallbackLoss, Breaks, TypeOK
  <1>2. CASE ~(PlayFails \/ CallbackLoss)
    <2>1. overtaken' = overtaken
      BY <1>2 DEF Next, LoadBackend, EnterEventLoop, Quit, cleanup, Exited, InitLinks,
                  InitSucceeds, InitFails, Returns, HandleTryConnect, connectionDone, Discard,
                  ManagerSlot, TimerFires, vars
    <2> QED BY <2>1 DEF TypeOK
  <1> QED BY <1>1, <1>2

\* Until a loss overtakes, everything is in its turn.
InTurn == TypeOK /\ (overtaken = 0 => Turn)

LEMMA InTurnInit == Init => InTurn
  BY TurnInit DEF InTurn, Turn

LEMMA InTurnStep == InTurn /\ [Next]_vars => InTurn'
  <1> SUFFICES ASSUME InTurn, [Next]_vars
               PROVE  InTurn'
    OBVIOUS
  <1>1. TypeOK' /\ (overtaken' = 0 => overtaken = 0)
    BY TypeStep, OvertakenGrows DEF InTurn
  <1> QED BY <1>1, TurnStep DEF InTurn

\* Connected is the truth and is quiet, with every kind of plug-in, until a loss overtakes.
THEOREM ConnectedQuiet == Spec => []ConnectedIsQuiet
  <1>1. InTurn => ConnectedIsQuiet
    BY DEF InTurn, Turn, Quiet, Reaches, ConnectedIsQuiet
  <1> QED BY <1>1, InTurnInit, InTurnStep, PTL DEF Spec

-----------------------------------------------------------------------------
(* One init() at a time.  A posted tryConnect(), a wait and an attempt     *)
(* that is not over yet turn into one another; a loss makes one of them,   *)
(* and unless there was none it is a loss that overtakes.  So there are    *)
(* never more of them than such losses and one, and when the timer fires   *)
(* one of them is the wait.                                                *)

Tries(s) == {i \in DOMAIN s : s[i].slot = "tryConnect"}
Busy == {a \in Attempts : attempt[a] # "idle"}
Wait == IF timer = Off THEN 0 ELSE 1

Tokens ==
    /\ TypeOK
    /\ IsFiniteSet(Busy)
    /\ Cardinality(Tries(events)) + Cardinality(Busy) + Wait <= 1 + overtaken
    /\ Cardinality(Busy \ {runConnection}) <= overtaken
    /\ process = "loading" => events = <<>> /\ timer = Off /\ Busy = {}
    /\ process = "unloaded" /\ runConnection \in Attempts =>
         attempt[runConnection] \notin {"running", "linked"}

\* The posted tryConnect() calls can be counted.
LEMMA TriesFinite ==
    ASSUME NEW s \in Seq(Events)
    PROVE  IsFiniteSet(Tries(s)) /\ Cardinality(Tries(s)) \in Nat
  <1>1. Tries(s) \in SUBSET (1 .. Len(s)) /\ Len(s) \in Int
    BY DEF Tries
  <1>2. IsFiniteSet(1 .. Len(s))
    BY <1>1, FS_Interval
  <1>3. IsFiniteSet(Tries(s))
    BY <1>1, <1>2, FS_Subset
  <1> QED BY <1>3, FS_CardinalityType

\* A posted call adds one of them at most, and none if it is another call.
LEMMA TriesAppend ==
    ASSUME NEW s \in Seq(Events), NEW e \in Events
    PROVE  /\ Cardinality(Tries(Append(s, e))) <= Cardinality(Tries(s)) + 1
           /\ e.slot # "tryConnect" => Cardinality(Tries(Append(s, e))) <= Cardinality(Tries(s))
  <1> DEFINE t == Append(s, e)
  <1>f. IsFiniteSet(Tries(s)) /\ Cardinality(Tries(s)) \in Nat
    BY TriesFinite
  <1>1. CASE e.slot = "tryConnect"
    <2>1. Tries(t) \subseteq Tries(s) \cup {Len(s) + 1}
      BY DEF Tries
    <2> DEFINE more == Tries(s) \cup {Len(s) + 1}
    <2>0. /\ IsFiniteSet(more)
          /\ Cardinality(more) = IF Len(s) + 1 \in Tries(s) THEN Cardinality(Tries(s))
                                 ELSE Cardinality(Tries(s)) + 1
      BY <1>f, FS_AddElement, Zenon
    <2>2. IsFiniteSet(more) /\ Cardinality(more) <= Cardinality(Tries(s)) + 1
      <3> HIDE DEF more
      <3> QED BY <1>f, <2>0
    <2>3. Cardinality(more) \in Nat
      BY <2>2, FS_CardinalityType
    <2>4. IsFiniteSet(Tries(t)) /\ Cardinality(Tries(t)) <= Cardinality(more)
      BY <2>1, <2>2, FS_Subset
    <2>5. Cardinality(Tries(t)) \in Nat
      BY <2>4, FS_CardinalityType
    <2> HIDE DEF more, t
    <2> QED BY <1>1, <1>f, <2>2, <2>3, <2>4, <2>5 DEF t
  <1>2. CASE e.slot # "tryConnect"
    <2>1. Tries(t) = Tries(s)
      BY <1>2 DEF Tries
    <2> QED BY <1>2, <1>f, <2>1
  <1> QED BY <1>1, <1>2

\* Serving the oldest call takes one of them away when it is a tryConnect(), and adds none.
LEMMA TriesTail ==
    ASSUME NEW s \in Seq(Events), s # <<>>
    PROVE  /\ Cardinality(Tries(Tail(s))) <= Cardinality(Tries(s))
           /\ Head(s).slot = "tryConnect" => Cardinality(Tries(Tail(s))) <= Cardinality(Tries(s)) - 1
  <1> DEFINE S == Tries(s)
             T == Tries(Tail(s))
             up == [i \in T |-> i + 1]
  <1>1. IsFiniteSet(S) /\ Cardinality(S) \in Nat
    BY TriesFinite
  <1>2. \A i \in T : i \in Nat /\ i + 1 \in S \ {1}
    BY DEF Tries
  <1>3. IsFiniteSet(S \ {1})
        /\ Cardinality(S \ {1}) = IF 1 \in S THEN Cardinality(S) - 1 ELSE Cardinality(S)
    BY <1>1, FS_RemoveElement
  <1>4. 1 \in S <=> Head(s).slot = "tryConnect"
    BY DEF Tries
  <1>5. T \in SUBSET Nat
    BY <1>2
  <1> HIDE DEF S, T
  <1>6. up \in Injection(T, S \ {1})
    BY <1>2, <1>5 DEF Injection, IsInjective
  <1> HIDE DEF up
  <1>7. IsFiniteSet(T) /\ Cardinality(T) <= Cardinality(S \ {1})
    BY <1>3, <1>6, FS_Injection
  <1>8. Cardinality(T) \in Nat /\ Cardinality(S \ {1}) \in Nat
    BY <1>3, <1>7, FS_CardinalityType
  <1> QED BY <1>1, <1>3, <1>4, <1>7, <1>8 DEF S, T

\* What the law speaks of are numbers.
LEMMA TokenNumbers ==
    ASSUME Tokens
    PROVE  /\ Cardinality(Tries(events)) \in Nat
           /\ Cardinality(Busy) \in Nat
           /\ Cardinality(Busy \ {runConnection}) \in Nat
           /\ Wait \in {0, 1}
           /\ overtaken \in Nat
           /\ events \in Seq(Events)
  <1>1. events \in Seq(Events) /\ overtaken \in Nat
    BY DEF Tokens, TypeOK
  <1>2. IsFiniteSet(Busy) /\ IsFiniteSet(Busy \ {runConnection})
    BY FS_RemoveElement DEF Tokens
  <1> QED BY <1>1, <1>2, TriesFinite, FS_CardinalityType DEF Wait

\* Attempts come to an end: no more are busy, and no more of the older ones.
LEMMA BusyShrinks ==
    ASSUME Tokens, Busy' \subseteq Busy, runConnection' = runConnection
    PROVE  /\ IsFiniteSet(Busy')
           /\ Cardinality(Busy') \in Nat /\ Cardinality(Busy') <= Cardinality(Busy)
           /\ Cardinality(Busy' \ {runConnection'}) <= overtaken
  <1>1. IsFiniteSet(Busy)
    BY DEF Tokens
  <1> DEFINE old == Busy \ {runConnection}
             now == Busy' \ {runConnection'}
  <1>2. IsFiniteSet(old)
    BY <1>1, FS_RemoveElement
  <1>3. now \in SUBSET old /\ Busy' \in SUBSET Busy
    OBVIOUS
  <1>4. Cardinality(old) <= overtaken /\ Cardinality(old) \in Nat /\ overtaken \in Nat
    BY TokenNumbers DEF Tokens
  <1> HIDE DEF old, now
  <1>5. IsFiniteSet(now) /\ Cardinality(now) <= Cardinality(old)
    BY <1>2, <1>3, FS_Subset
  <1>6. IsFiniteSet(Busy') /\ Cardinality(Busy') <= Cardinality(Busy)
    BY <1>1, <1>3, FS_Subset
  <1>7. Cardinality(now) \in Nat /\ Cardinality(Busy') \in Nat
    BY <1>5, <1>6, FS_CardinalityType
  <1>8. Cardinality(now) <= overtaken
    BY <1>4, <1>5, <1>7
  <1> QED BY <1>6, <1>7, <1>8 DEF now

\* A step that starts no attempt and adds no token but for a loss keeps the law.
LEMMA TokensKept ==
    ASSUME Tokens, TypeOK', Busy' \subseteq Busy, runConnection' = runConnection,
           NEW k \in {0, 1}, overtaken' = overtaken + k,
           Cardinality(Tries(events')) + Cardinality(Busy') + Wait'
             <= Cardinality(Tries(events)) + Cardinality(Busy) + Wait + k,
           process' = "loading" => process = "loading" /\ events' = events /\ timer' = timer,
           process' = "unloaded" /\ runConnection \in Attempts =>
             attempt'[runConnection] \notin {"running", "linked"}
    PROVE  Tokens'
  <1>1. /\ IsFiniteSet(Busy') /\ Cardinality(Busy' \ {runConnection'}) <= overtaken
        /\ Cardinality(Busy') \in Nat
    BY BusyShrinks
  <1>2. /\ Cardinality(Tries(events)) \in Nat /\ Cardinality(Busy) \in Nat
        /\ Wait \in {0, 1} /\ overtaken \in Nat
    BY TokenNumbers
  <1>3. /\ Cardinality(Tries(events')) \in Nat /\ Wait' \in {0, 1}
        /\ IsFiniteSet(Busy' \ {runConnection'})
    BY <1>1, TriesFinite, FS_RemoveElement DEF Wait, TypeOK
  <1>4. Cardinality(Busy' \ {runConnection'}) \in Nat
    BY <1>3, FS_CardinalityType
  <1>5. Cardinality(Busy' \ {runConnection'}) <= overtaken'
    BY <1>1, <1>2, <1>4
  <1>6. Cardinality(Tries(events)) + Cardinality(Busy) + Wait <= 1 + overtaken
    BY DEF Tokens
  <1>7. Cardinality(Tries(events')) + Cardinality(Busy') + Wait' <= 1 + overtaken'
    BY <1>1, <1>2, <1>3, <1>6
  <1>8. process' = "loading" => events' = <<>> /\ timer' = Off /\ Busy' = {}
    BY DEF Tokens
  <1> QED BY <1>1, <1>5, <1>7, <1>8 DEF Tokens

\* connecting() from a wait, or for the first time.
LEMMA TokensConnect ==
    ASSUME Tokens, TypeOK', NEW a \in Attempts, connecting(a), timer' = Off,
           UNCHANGED <<events, overtaken>>, process' \notin {"loading", "unloaded"},
           Cardinality(Tries(events)) + Cardinality(Busy) <= overtaken
    PROVE  Tokens'
  <1>1. IsFiniteSet(Busy) /\ attempt[a] = "idle" /\ runConnection' = a
        /\ attempt \in [Attempts -> Phases]
    BY DEF Tokens, connecting, TypeOK, Phases
  <1>2. a \notin Busy /\ Busy' = Busy \cup {a}
    BY <1>1 DEF Busy, connecting
  <1>3. Busy' \ {runConnection'} = Busy
    BY <1>1, <1>2
  <1>4. IsFiniteSet(Busy') /\ Cardinality(Busy') = Cardinality(Busy) + 1
    BY <1>1, <1>2, FS_AddElement, Zenon
  <1>5. Wait' = 0
    BY DEF Wait
  <1>6. /\ Cardinality(Tries(events)) \in Nat /\ Cardinality(Busy) \in Nat
        /\ overtaken \in Nat
    BY TokenNumbers
  <1>7. Cardinality(Busy' \ {runConnection'}) <= overtaken'
    <2>1. Cardinality(Busy' \ {runConnection'}) = Cardinality(Busy)
      BY <1>3, Zenon
    <2> QED BY <1>6, <2>1
  <1>8. Cardinality(Tries(events')) + Cardinality(Busy') + Wait' <= 1 + overtaken'
    BY <1>4, <1>5, <1>6
  <1> QED BY <1>4, <1>7, <1>8 DEF Tokens

LEMMA TokensStep == IInv /\ Tokens /\ [Next]_vars => Tokens'
  <1> SUFFICES ASSUME IInv, Tokens, [Next]_vars
               PROVE  Tokens'
    OBVIOUS
  <1>t. /\ TypeOK /\ TypeOK' /\ events \in Seq(Events) /\ events' \in Seq(Events)
        /\ attempt \in [Attempts -> Phases]
    BY TypeStep DEF Tokens, TypeOK, Phases
  <1>n. /\ Cardinality(Tries(events)) \in Nat /\ Cardinality(Busy) \in Nat
        /\ Cardinality(Tries(events')) \in Nat
        /\ Wait \in {0, 1} /\ Wait' \in {0, 1} /\ overtaken \in Nat
    BY <1>t, TokenNumbers, TriesFinite DEF Wait
  <1>1. ASSUME NEW a \in Attempts, LoadBackend(a)
        PROVE  Tokens'
    <2>1. events = <<>> /\ timer = Off /\ Busy = {}
      BY <1>1 DEF LoadBackend, Tokens
    <2>2. Tries(events) = {}
      BY <2>1 DEF Tries
    <2>0. Cardinality(Tries(events)) = 0 /\ Cardinality(Busy) = 0
      BY <2>1, <2>2, FS_EmptySet, Zenon
    <2>3. Cardinality(Tries(events)) + Cardinality(Busy) <= overtaken
      BY <1>n, <2>0
    <2> QED BY <1>1, <1>t, <2>1, <2>3, TokensConnect DEF LoadBackend
  <1>2. ASSUME NEW a \in Attempts, TimerFires(a)
        PROVE  Tokens'
    <2>1. Wait = 1
      BY <1>2 DEF TimerFires, Wait
    <2>2. Cardinality(Tries(events)) + Cardinality(Busy) <= overtaken
      BY <1>n, <2>1 DEF Tokens
    <2> QED BY <1>2, <1>t, <2>2, TokensConnect DEF TimerFires, InEventLoop
  <1>3. CASE EnterEventLoop \/ Quit \/ Exited \/ UNCHANGED vars \/ \E a \in Attempts : InitLinks(a)
    <2>1. Busy' = Busy
      BY <1>3, <1>t DEF EnterEventLoop, AfterFork, Quit, Exited, InitLinks, vars, Busy
    <2>2. UNCHANGED <<events, timer, runConnection, overtaken>>
      BY <1>3 DEF EnterEventLoop, Quit, Exited, InitLinks, vars
    <2>3. process' = "loading" => process = "loading"
      BY <1>3 DEF EnterEventLoop, Quit, Exited, InitLinks, vars
    <2>4. process' = "unloaded" /\ runConnection \in Attempts =>
            attempt'[runConnection] \notin {"running", "linked"}
      BY <1>3, <1>t DEF EnterEventLoop, Quit, Exited, InitLinks, vars, Tokens
    <2>5. Wait' = Wait
      BY <2>2 DEF Wait
    <2>6. 0 \in {0, 1} /\ overtaken' = overtaken + 0
      BY <1>n, <2>2
    <2>7. Cardinality(Tries(events')) + Cardinality(Busy') + Wait'
            <= Cardinality(Tries(events)) + Cardinality(Busy) + Wait + 0
      BY <1>n, <2>1, <2>2, <2>5
    <2> QED BY <1>t, <2>1, <2>2, <2>3, <2>4, <2>6, <2>7, TokensKept
  <1>4. CASE cleanup
    <2>1. /\ UNCHANGED <<runConnection, attempt, overtaken>> /\ events' = <<>> /\ timer' = Off
          /\ process' = "unloaded" /\ ~IsRunning(runConnection)
      BY <1>4 DEF cleanup
    <2>2. Busy' = Busy /\ Tries(events') = {} /\ Wait' = 0
      BY <2>1 DEF Busy, Tries, Wait
    <2>3. 0 \in {0, 1} /\ overtaken' = overtaken + 0
      BY <1>n, <2>1
    <2>4. Cardinality(Tries(events')) + Cardinality(Busy') + Wait'
            <= Cardinality(Tries(events)) + Cardinality(Busy) + Wait + 0
      BY <1>n, <2>2, FS_EmptySet
    <2>5. process' # "loading"
          /\ (runConnection \in Attempts => attempt'[runConnection] \notin {"running", "linked"})
      BY <2>1 DEF IsRunning
    <2> QED BY <1>t, <2>1, <2>2, <2>3, <2>4, <2>5, TokensKept
  <1>5. ASSUME NEW a \in Attempts, InitSucceeds(a) \/ InitFails(a)
        PROVE  Tokens'
    <2>1. /\ UNCHANGED <<process, timer, runConnection, overtaken>>
          /\ attempt[a] \in {"running", "linked"}
          /\ \E r \in {"accepted", "refused", "idle"} : attempt' = [attempt EXCEPT ![a] = r]
          /\ events' = events \/ events' = Append(events, Finished(a))
      BY <1>5 DEF InitSucceeds, InitFails, Returns
    <2>2. Busy' \subseteq Busy
      BY <1>t, <2>1 DEF Busy
    <2>3. process' = "unloaded" /\ runConnection \in Attempts =>
            attempt'[runConnection] \notin {"running", "linked"}
      BY <1>t, <2>1 DEF Tokens
    <2>4. process' # "loading"
      BY <2>1 DEF Tokens, Busy
    <2>5. Cardinality(Tries(events')) <= Cardinality(Tries(events))
      <3>1. Finished(a) \in Events /\ Finished(a).slot # "tryConnect"
        BY PostedAreEvents DEF Finished
      <3>2. Cardinality(Tries(Append(events, Finished(a)))) <= Cardinality(Tries(events))
        BY <1>t, <3>1, TriesAppend
      <3>3. CASE events' = events
        BY <1>n, <3>3
      <3>4. CASE events' = Append(events, Finished(a))
        BY <3>2, <3>4
      <3> QED BY <2>1, <3>3, <3>4
    <2>6. Cardinality(Busy') \in Nat /\ Cardinality(Busy') <= Cardinality(Busy) /\ Wait' = Wait
      BY <2>1, <2>2, BusyShrinks DEF Wait
    <2>7. 0 \in {0, 1} /\ overtaken' = overtaken + 0
      BY <1>n, <2>1
    <2>8. Cardinality(Tries(events')) + Cardinality(Busy') + Wait'
            <= Cardinality(Tries(events)) + Cardinality(Busy) + Wait + 0
      BY <1>n, <2>5, <2>6
    <2> QED BY <1>t, <2>1, <2>2, <2>3, <2>4, <2>7, <2>8, TokensKept
  <1>6. CASE PlayFails \/ CallbackLoss
    <2>1. /\ Breaks /\ process' = process /\ process \in {"starting", "running"}
          /\ UNCHANGED <<runConnection, attempt>>
      BY <1>6 DEF PlayFails, CallbackLoss, Breaks, InEventLoop
    <2>2. Busy' = Busy
      BY <2>1 DEF Busy
    <2>3. Cardinality(Tries(events')) + Wait' <= Cardinality(Tries(events)) + Wait + 1
      <3>1. /\ Call("tryConnect") \in Events /\ Call("backendDisconnected") \in Events
            /\ Call("backendDisconnected").slot # "tryConnect"
        BY PostedAreEvents DEF Call, Slots
      <3>2. CASE EmitLostFromMain
        <4>1. events' = Append(events, Call("backendDisconnected"))
          BY <3>2 DEF EmitLostFromMain
        <4>2. Cardinality(Tries(events')) <= Cardinality(Tries(events))
          BY <1>t, <1>n, <3>1, <4>1, TriesAppend
        <4> QED BY <1>n, <4>2
      <3>3. CASE EmitLostFromThread
        <4> DEFINE q == Append(events, Call("tryConnect"))
        <4>1. events' = Append(q, Call("backendDisconnected")) /\ q \in Seq(Events)
          BY <1>t, <3>1, <3>3, LossPosts, AppendKeeps DEF EmitLostFromThread
        <4>2. Cardinality(Tries(q)) <= Cardinality(Tries(events)) + 1
          BY <1>t, <1>n, <3>1, TriesAppend
        <4> HIDE DEF q
        <4>3. Cardinality(Tries(q)) \in Nat /\ Cardinality(Tries(events')) <= Cardinality(Tries(q))
          BY <3>1, <4>1, TriesAppend, TriesFinite
        <4>4. Wait' = Wait
          BY <3>3 DEF EmitLostFromThread, Wait
        <4> QED BY <1>n, <4>2, <4>3, <4>4
      <3> QED BY <1>6, <3>2, <3>3 DEF PlayFails, CallbackLoss
    <2>4. CASE ~AtRest
      <3>1. 1 \in {0, 1} /\ overtaken' = overtaken + 1
        BY <2>1, <2>4 DEF Breaks
      <3>2. Cardinality(Tries(events')) + Cardinality(Busy') + Wait'
              <= Cardinality(Tries(events)) + Cardinality(Busy) + Wait + 1
        BY <1>n, <2>2, <2>3
      <3> QED BY <1>t, <2>1, <2>2, <3>1, <3>2, TokensKept
    <2>5. CASE AtRest
      <3>1. Tries(events) = {} /\ Busy = {} /\ Wait = 0 /\ overtaken' = overtaken
        BY <2>1, <2>5 DEF Breaks, AtRest, TryPending, Tries, Busy, Wait
      <3>2. Cardinality(Tries(events)) = 0 /\ Cardinality(Busy) = 0
        BY <3>1, FS_EmptySet
      <3>3. Cardinality(Tries(events')) + Cardinality(Busy') + Wait' <= 1 + overtaken'
        BY <1>n, <2>2, <2>3, <3>1, <3>2
      <3>4. IsFiniteSet(Busy') /\ Cardinality(Busy' \ {runConnection'}) <= overtaken'
        BY <2>1, <2>2, <3>1, BusyShrinks
      <3> QED BY <1>t, <2>1, <3>3, <3>4 DEF Tokens
    <2> QED BY <2>4, <2>5
  <1>7. CASE HandleTryConnect
    <2>1. /\ events # <<>> /\ Head(events).slot = "tryConnect" /\ events' = Tail(events)
          /\ process' = "running" /\ UNCHANGED <<runConnection, attempt, overtaken>>
      BY <1>7 DEF HandleTryConnect, Posted, InEventLoop
    <2>2. Cardinality(Tries(events')) <= Cardinality(Tries(events)) - 1
      BY <1>t, <2>1, TriesTail
    <2>3. Busy' = Busy
      BY <2>1 DEF Busy
    <2>4. 0 \in {0, 1} /\ overtaken' = overtaken + 0
      BY <1>n, <2>1
    <2>5. Cardinality(Tries(events')) + Cardinality(Busy') + Wait'
            <= Cardinality(Tries(events)) + Cardinality(Busy) + Wait + 0
      BY <1>n, <2>2, <2>3
    <2> QED BY <1>t, <2>1, <2>3, <2>4, <2>5, TokensKept
  <1>8. CASE connectionDone \/ Discard
    <2>1. /\ events # <<>> /\ Head(events).slot = "connectionDone" /\ process' = "running"
          /\ UNCHANGED <<runConnection, overtaken>>
          /\ \E a : attempt' = [attempt EXCEPT ![a] = "idle"]
      BY <1>8 DEF connectionDone, Discard, Posted, InEventLoop
    <2>2. Cardinality(Tries(Tail(events))) <= Cardinality(Tries(events))
          /\ Cardinality(Tries(Tail(events))) \in Nat
      BY <1>t, <1>n, <2>1, TriesTail, TriesFinite, TailKeeps
    <2>3. Busy' \subseteq Busy
      BY <1>t, <2>1 DEF Busy
    <2>4. Cardinality(Busy') \in Nat /\ Cardinality(Busy') <= Cardinality(Busy)
      BY <2>1, <2>3, BusyShrinks
    <2>5. Cardinality(Tries(events')) + Cardinality(Busy') + Wait'
            <= Cardinality(Tries(events)) + Cardinality(Busy) + Wait + 0
      <3>1. CASE Discard
        <4>1. events' = Tail(events) /\ Wait' = Wait
          BY <3>1 DEF Discard, Wait
        <4> QED BY <1>n, <2>2, <2>4, <4>1
      <3>2. CASE connectionDone /\ DoneAccepted
        <4>1. events' = Append(Tail(events), Call("backendConnected")) /\ Wait' = Wait
          BY <3>2 DEF connectionDone, DoneAccepted, Wait
        <4>2. Call("backendConnected") \in Events /\ Call("backendConnected").slot # "tryConnect"
              /\ Tail(events) \in Seq(Events)
          BY <1>t, <2>1, PostedAreEvents, TailKeeps DEF Call, Slots
        <4>3. Cardinality(Tries(events')) <= Cardinality(Tries(Tail(events)))
          BY <2>2, <4>1, <4>2, TriesAppend
        <4> QED BY <1>n, <2>2, <2>4, <4>1, <4>3
      <3>3. CASE connectionDone /\ DoneRefused
        <4>1. /\ events' = Tail(events) /\ attempt[runConnection] = "refused"
              /\ attempt' = [attempt EXCEPT ![runConnection] = "idle"]
          BY <3>3 DEF connectionDone, DoneRefused
        <4>2. CASE runConnection \in Attempts
          <5>1. runConnection \in Busy /\ Busy' = Busy \ {runConnection}
            BY <1>t, <4>1, <4>2 DEF Busy
          <5>2. IsFiniteSet(Busy)
            BY DEF Tokens
          <5>3. Cardinality(Busy') = Cardinality(Busy) - 1
            BY <5>1, <5>2, FS_RemoveElement, Zenon
          <5> QED BY <1>n, <2>2, <2>4, <4>1, <5>3
        <4>3. runConnection \in Attempts
          BY <1>8, <3>3 DEF connectionDone, Posted, InEventLoop, IInv, Watching, Served
        <4> QED BY <4>2, <4>3
      <3> QED BY <1>8, <3>1, <3>2, <3>3 DEF connectionDone
    <2>6. 0 \in {0, 1} /\ overtaken' = overtaken + 0
      BY <1>n, <2>1
    <2> QED BY <1>t, <2>1, <2>3, <2>5, <2>6, TokensKept
  <1>9. CASE ManagerSlot
    <2>1. /\ events # <<>> /\ events' = Tail(events) /\ process' = "running"
          /\ UNCHANGED <<timer, runConnection, attempt, overtaken>>
          /\ Head(events).slot # "tryConnect"
      BY <1>9 DEF ManagerSlot, Posted, InEventLoop
    <2>2. Cardinality(Tries(events')) <= Cardinality(Tries(events))
      BY <1>t, <1>n, <2>1, TriesTail
    <2>3. Busy' = Busy /\ Wait' = Wait
      BY <2>1 DEF Busy, Wait
    <2>4. 0 \in {0, 1} /\ overtaken' = overtaken + 0
      BY <1>n, <2>1
    <2>5. Cardinality(Tries(events')) + Cardinality(Busy') + Wait'
            <= Cardinality(Tries(events)) + Cardinality(Busy) + Wait + 0
      BY <1>n, <2>2, <2>3
    <2> QED BY <1>t, <2>1, <2>3, <2>4, <2>5, TokensKept
  <1> QED BY <1>1, <1>2, <1>3, <1>4, <1>5, <1>6, <1>7, <1>8, <1>9 DEF Next

\* init() is alone but for losses that overtake, and the newest never runs in a deleted backend.
THEOREM OneInit == Spec => []OneInitAtATime
  <1>1. Init => Tokens
    <2> SUFFICES ASSUME Init PROVE Tokens
      OBVIOUS
    <2>1. Tries(events) = {} /\ Busy = {} /\ Busy \ {runConnection} = {} /\ Wait = 0
      BY DEF Init, Tries, Busy, Wait
    <2>2. /\ IsFiniteSet(Busy) /\ Cardinality(Busy) = 0 /\ Cardinality(Tries(events)) = 0
          /\ Cardinality(Busy \ {runConnection}) = 0
      BY <2>1, FS_EmptySet, Zenon
    <2>3. TypeOK
      BY DEF Init, TypeOK, States
    <2> QED BY <2>1, <2>2, <2>3 DEF Tokens, Init
  <1>2. Tokens => OneInitAtATime
    <2> SUFFICES ASSUME Tokens PROVE OneInitAtATime
      OBVIOUS
    <2> DEFINE running == {a \in Attempts : attempt[a] \in {"running", "linked"}}
               others == running \ {runConnection}
               old == Busy \ {runConnection}
    <2>1. others \in SUBSET old
      BY DEF Busy
    <2>2. IsFiniteSet(old) /\ Cardinality(old) \in Nat
      BY FS_RemoveElement, TokenNumbers DEF Tokens
    <2>3. Cardinality(old) <= overtaken /\ overtaken \in Nat
      BY TokenNumbers DEF Tokens
    <2>4. process = "unloaded" => runConnection \notin running
      BY DEF Tokens
    <2> HIDE DEF others, old
    <2>5. IsFiniteSet(others) /\ Cardinality(others) <= Cardinality(old)
      BY <2>1, <2>2, FS_Subset
    <2>6. Cardinality(others) \in Nat
      BY <2>5, FS_CardinalityType
    <2>7. Cardinality(others) <= overtaken
      BY <2>2, <2>3, <2>5, <2>6
    <2> QED BY <2>4, <2>7 DEF OneInitAtATime, others
  <1> QED BY <1>1, <1>2, TokensStep, IInvInit, IInvStep, PTL DEF Spec

=============================================================================
