----------------------- MODULE MfReconnection_proofs -----------------------
(***************************************************************************)
(* Proofs about the handles next to the reconnection logic, for every kind *)
(* of plug-in.  What is proved of the handles holds until a loss           *)
(* overtakes; the promise to the manager says so itself.                   *)
(***************************************************************************)
EXTENDS MfReconnection, MfBackendBase_proofs

\* What the sessions and the manager do is no step of the backend, or one of its own.
LEMMA StepOfBackend == [NextWithHandles]_allVars => [Next]_vars
  <1> SUFFICES ASSUME NextWithHandles PROVE [Next]_vars
    BY DEF allVars
  <1>1. CASE Start \/ PlayOnBroken \/ LoseByCallback \/ ServeBackend \/ ServeManager \/ Stop
           \/ DeleteManager
    BY <1>1 DEF Start, PlayOnBroken, LoseByCallback, ServeBackend, ServeManager, Stop, DeleteManager, Next
  <1>2. ASSUME NEW a \in Attempts, Pool(a) \/ Retry(a)
        PROVE  [Next]_vars
    BY <1>2 DEF Pool, Retry, Next
  <1>3. CASE SetUp \/ HangUp \/ Reload \/ NewTheme \/ DeleteServer
    BY <1>3 DEF SetUp, HangUp, Reload, NewTheme, DeleteServer
  <1>4. CASE Exited /\ UNCHANGED <<handles, ahead>>
    BY <1>4 DEF Next
  <1> QED BY <1>1, <1>2, <1>3, <1>4 DEF NextWithHandles

\* The composition is a reconnection logic: what is proved of MfBackendBase holds in it.
THEOREM BackendKept == SpecWithHandles => Spec
  <1>1. InitWithHandles => Init
    BY DEF InitWithHandles
  <1> QED BY <1>1, StepOfBackend, PTL DEF SpecWithHandles, Spec

-----------------------------------------------------------------------------
(* The handles of a lost connection are flushed before the next init().    *)

LossPending == Holds(events, "backendDisconnected")

\* A handle is of the connection that works, or its flush is on its way.
HandleOrFlush == loaded => currentState = "Connected" \/ LossPending

\* A loss that the manager has not seen yet keeps init() away.
FlushFirst == LossPending => Resting

\* Whatever loss is posted when a wait begins is served before it is over.
Covered ==
    timer # Off => \A i \in DOMAIN events : events[i].slot = "backendDisconnected" => i <= ahead

Flushing ==
    /\ Turn
    /\ ahead \in Nat
    /\ HandleOrFlush
    /\ FlushFirst
    /\ Covered

LEMMA FlushingInit == InitWithHandles => Flushing
  BY TurnInit DEF InitWithHandles, Init, Flushing, HandleOrFlush, FlushFirst, Covered, LossPending,
                  Holds

\* A wait that begins covers what is posted.
LEMMA CoveredAtStart ==
    ASSUME TypeOK', Restarted, ahead' = Len(events')
    PROVE  ahead' \in Nat /\ Covered'
  BY DEF TypeOK, Covered

\* While no wait begins, the calls served are taken off what is ahead.
LEMMA CoveredServing ==
    ASSUME TypeOK, ahead \in Nat, Covered, events # <<>>, events' = Tail(events), Serving,
           timer' = timer
    PROVE  ahead' \in Nat /\ Covered'
  <1>1. ahead' = IF ahead = 0 THEN 0 ELSE ahead - 1
    BY DEF Serving, Restarted
  <1>2. events \in Seq(Events)
    BY DEF TypeOK
  <1>3. \A i \in DOMAIN events' : /\ i \in Nat \ {0} /\ i + 1 \in DOMAIN events
                                  /\ events'[i] = events[i + 1]
    BY <1>2
  <1>4. ASSUME timer # Off, NEW i \in DOMAIN events', events'[i].slot = "backendDisconnected"
        PROVE  i <= ahead'
    <2>1. i \in Nat \ {0} /\ i + 1 <= ahead
      BY <1>3, <1>4 DEF Covered
    <2> QED BY <1>1, <2>1
  <1> QED BY <1>1, <1>4 DEF Covered

LEMMA FlushingStep ==
    ASSUME Flushing, [NextWithHandles]_allVars, overtaken' = 0
    PROVE  Flushing'
  <1>t. /\ Turn /\ Turn' /\ TypeOK /\ TypeOK' /\ ahead \in Nat
        /\ events \in Seq(Events) /\ attempt \in [Attempts -> Phases]
    BY StepOfBackend, TurnStep DEF Flushing, Turn, TypeOK, Phases
  <1>1. CASE Start
    <2>1. UNCHANGED <<timer, ahead, loaded, currentState, events>>
      BY <1>1 DEF Start, LoadBackend, EnterEventLoop, handles
    <2>2. ASSUME EnterEventLoop
          PROVE  FlushFirst'
      <3>1. Resting => Resting'
        BY <1>t, <2>2 DEF EnterEventLoop, AfterFork, Resting
      <3> QED BY <2>1, <3>1 DEF Flushing, FlushFirst, LossPending
    <2>3. ASSUME NEW a \in Attempts, LoadBackend(a)
          PROVE  ~LossPending'
      BY <1>t, <2>1, <2>3 DEF LoadBackend, Turn, AtTheEnds, LossPending, Holds
    <2>4. FlushFirst'
      BY <1>1, <2>2, <2>3 DEF Start, FlushFirst
    <2>5. HandleOrFlush' /\ Covered'
      BY <2>1 DEF Flushing, HandleOrFlush, Covered, LossPending
    <2> QED BY <1>t, <2>1, <2>4, <2>5 DEF Flushing
  <1>2. CASE SetUp \/ HangUp \/ Reload \/ NewTheme \/ DeleteServer
    <2>1. /\ UNCHANGED <<currentState, events, attempt, timer, ahead>>
          /\ loaded' => loaded \/ currentState = "Connected"
      BY <1>2 DEF SetUp, HangUp, Reload, NewTheme, DeleteServer, Load, LoadAnother, vars
    <2>2. HandleOrFlush' /\ FlushFirst' /\ Covered'
      BY <2>1 DEF Flushing, HandleOrFlush, FlushFirst, Covered, LossPending, Resting
    <2> QED BY <1>t, <2>1, <2>2 DEF Flushing
  <1>3. CASE PlayOnBroken \/ LoseByCallback
    <2>0. Breaks /\ NotServing
      BY <1>3 DEF PlayOnBroken, LoseByCallback, PlayFails, CallbackLoss
    <2>1. timer = Off /\ Resting /\ UNCHANGED attempt /\ NotServing
      <3>1. AtRest
        BY <1>t, <2>0 DEF Breaks, TypeOK
      <3> QED BY <2>0, <3>1 DEF Breaks, AtRest, Resting
    <2>2. FlushFirst'
      BY <2>1 DEF FlushFirst, Resting
    <2>3. Call("tryConnect") \in Events /\ Call("backendDisconnected") \in Events
          /\ Call("backendDisconnected").slot = "backendDisconnected"
      BY PostedAreEvents DEF Call, Slots
    <2>4. CASE EmitLostFromMain
      <3>1. LossPending'
        BY <1>t, <2>3, <2>4, AppendHolds DEF EmitLostFromMain, LossPending
      <3>2. timer' # Off
        BY <1>t, <2>4, TryConnectArms DEF EmitLostFromMain
      <3>3. ahead' \in Nat /\ Covered'
        BY <1>t, <2>1, <3>2, CoveredAtStart DEF NotServing, Restarted
      <3> QED BY <1>t, <2>2, <3>1, <3>3 DEF Flushing, HandleOrFlush
    <2>5. CASE EmitLostFromThread
      <3> DEFINE q == Append(events, Call("tryConnect"))
      <3>0. events' = Append(q, Call("backendDisconnected")) /\ q \in Seq(Events)
        BY <1>t, <2>3, <2>5, LossPosts, AppendKeeps DEF EmitLostFromThread
      <3> HIDE DEF q
      <3>1. LossPending'
        BY <2>3, <3>0, AppendHolds DEF LossPending
      <3>2. timer' = Off /\ ahead' = ahead
        BY <2>1, <2>5 DEF EmitLostFromThread, NotServing, Restarted
      <3> QED BY <1>t, <2>2, <3>1, <3>2 DEF Flushing, HandleOrFlush, Covered
    <2> QED BY <1>3, <2>4, <2>5 DEF PlayOnBroken, LoseByCallback, PlayFails, CallbackLoss
  <1>4. ASSUME NEW a \in Attempts, InitLinks(a), UNCHANGED <<handles, ahead>>
        PROVE  Flushing'
    <2>1. /\ UNCHANGED <<events, timer, loaded, ahead>>
          /\ attempt[a] = "running" /\ (currentState = "Connected" => currentState' = "Connected")
      BY <1>4 DEF InitLinks, handles
    <2>2. ~LossPending
      BY <2>1 DEF Flushing, FlushFirst, Resting
    <2>3. HandleOrFlush' /\ FlushFirst' /\ Covered'
      BY <2>1, <2>2 DEF Flushing, HandleOrFlush, FlushFirst, Covered, LossPending
    <2> QED BY <1>t, <2>1, <2>3 DEF Flushing
  <1>5. ASSUME NEW a \in Attempts, InitSucceeds(a) \/ InitFails(a), UNCHANGED <<handles, ahead>>
        PROVE  Flushing'
    <2>1. /\ UNCHANGED <<currentState, timer, loaded, ahead>>
          /\ attempt[a] \in {"running", "linked"}
          /\ events' = events \/ events' = Append(events, Finished(a))
      BY <1>5 DEF InitSucceeds, InitFails, Returns, handles
    <2>2. ~LossPending /\ timer = Off
      BY <2>1 DEF Flushing, FlushFirst, Turn, NoRetryBeside, Resting
    <2>3. Finished(a) \in Events /\ Finished(a).slot = "connectionDone"
      BY PostedAreEvents DEF Finished
    <2>4. ~LossPending'
      BY <1>t, <2>1, <2>2, <2>3, AppendHolds DEF LossPending
    <2>5. HandleOrFlush' /\ FlushFirst' /\ Covered'
      BY <2>1, <2>2, <2>4 DEF Flushing, HandleOrFlush, FlushFirst, Covered
    <2> QED BY <1>t, <2>1, <2>5 DEF Flushing
  <1>6. CASE ServeBackend
    <2>1. Serving /\ UNCHANGED loaded /\ events # <<>>
          /\ Head(events).slot # "backendDisconnected"
      BY <1>6 DEF ServeBackend, handles, HandleTryConnect, connectionDone, Discard, Posted
    <2>2. Holds(Tail(events), "backendDisconnected") <=> LossPending
      BY <1>t, <2>1, TailHolds DEF LossPending
    <2>3. CASE HandleTryConnect
      <3>1. tryConnect /\ events' = Tail(events) /\ UNCHANGED attempt /\ timer' # Off
        BY <1>t, <2>3, TryConnectArms DEF HandleTryConnect
      <3>2. timer = Off /\ Resting /\ currentState # "Connected"
        BY <1>t, <2>1, <2>3, TailHolds DEF HandleTryConnect, Posted, Turn, NoRetryBeside
      <3>3. ahead' \in Nat /\ Covered'
        BY <1>t, <2>1, <3>1, <3>2, CoveredAtStart DEF Serving, Restarted
      <3>4. HandleOrFlush' /\ FlushFirst'
        BY <2>1, <2>2, <3>1, <3>2 DEF Flushing, HandleOrFlush, FlushFirst, LossPending, Resting
      <3> QED BY <1>t, <3>3, <3>4 DEF Flushing
    <2>4. CASE connectionDone
      <3>1. runConnection \in Attempts /\ attempt[runConnection] # "idle"
        BY <1>t, <2>1, <2>4, TailHolds DEF connectionDone, Posted, Turn, ResultIsNews
      <3>2. timer = Off /\ (attempt[runConnection] = "refused" => currentState # "Connected")
        BY <3>1 DEF Turn, Flushing, NoRetryBeside, Quiet, Resting
      <3>3. \A a \in Attempts : attempt'[a] = "idle"
        BY <1>t, <2>4, <3>1 DEF connectionDone, Turn, Watched
      <3>4. FlushFirst'
        BY <3>3 DEF FlushFirst, Resting
      <3>5. CASE DoneRefused
        <4>1. tryConnect /\ events' = Tail(events) /\ timer' # Off
          BY <1>t, <3>5, TryConnectArms DEF DoneRefused
        <4>2. ahead' \in Nat /\ Covered'
          BY <1>t, <2>1, <3>2, <4>1, CoveredAtStart DEF Serving, Restarted
        <4>3. HandleOrFlush'
          BY <2>1, <2>2, <3>2, <3>5, <4>1 DEF DoneRefused, Flushing, HandleOrFlush, LossPending
        <4> QED BY <1>t, <3>4, <4>2, <4>3 DEF Flushing
      <3>6. CASE DoneAccepted
        <4>1. timer' = Off /\ currentState' = "Connected"
          BY <3>2, <3>6 DEF DoneAccepted
        <4>2. ahead' \in Nat
          BY <1>t, <2>1, <3>2, <4>1 DEF Serving, Restarted
        <4> QED BY <1>t, <3>4, <4>1, <4>2 DEF Flushing, HandleOrFlush, Covered
      <3> QED BY <2>4, <3>5, <3>6 DEF connectionDone
    <2>5. CASE Discard
      <3>1. 1 \in DOMAIN events /\ Head(events) = events[1]
        BY <1>t, <2>1
      <3> QED BY <1>t, <2>5, <3>1 DEF Discard, Posted, Turn, Queue, DoneIsOf
    <2> QED BY <1>6, <2>3, <2>4, <2>5 DEF ServeBackend
  <1>7. CASE ServeManager
    <2>1. /\ Serving /\ events # <<>> /\ events' = Tail(events)
          /\ UNCHANGED <<currentState, timer, attempt>>
      BY <1>7 DEF ServeManager, ManagerSlot, Posted
    <2>2. ahead' \in Nat /\ Covered'
      BY <1>t, <2>1, CoveredServing DEF Flushing
    <2>3. LossPending' => LossPending
      BY <1>t, <2>1, TailHolds DEF LossPending
    <2>4. FlushFirst'
      BY <2>1, <2>3 DEF Flushing, FlushFirst, Resting
    <2>5. CASE UnloadHandles
      BY <1>t, <2>2, <2>4, <2>5 DEF UnloadHandles, Flushing, HandleOrFlush
    <2>6. CASE LoadHandles
      <3>1. Head(events).slot # "backendDisconnected" /\ UNCHANGED loaded
        BY <2>6 DEF LoadHandles, Posted
      <3>2. LossPending => LossPending'
        BY <1>t, <2>1, <3>1, TailHolds DEF LossPending
      <3> QED BY <1>t, <2>1, <2>2, <2>4, <3>1, <3>2 DEF Flushing, HandleOrFlush
    <2> QED BY <1>7, <2>5, <2>6 DEF ServeManager
  <1>8. ASSUME NEW a \in Attempts, Retry(a)
        PROVE  Flushing'
    <2>1. ahead = 0 /\ timer # Off /\ timer' = Off
          /\ UNCHANGED <<events, loaded, currentState, ahead>>
      BY <1>8 DEF Retry, TimerFires, handles
    <2>2. ~LossPending
      BY <1>t, <2>1 DEF Flushing, Covered, LossPending, Holds
    <2>3. HandleOrFlush' /\ FlushFirst' /\ Covered'
      BY <2>1, <2>2 DEF Flushing, HandleOrFlush, FlushFirst, Covered, LossPending
    <2> QED BY <1>t, <2>1, <2>3 DEF Flushing
  <1>9. CASE Stop \/ (Exited /\ UNCHANGED <<handles, ahead>>) \/ UNCHANGED allVars
    <2>1. UNCHANGED <<currentState, events, attempt, timer, ahead, loaded>>
      BY <1>9 DEF Stop, Quit, Exited, vars, handles, allVars
    <2>2. HandleOrFlush' /\ FlushFirst' /\ Covered'
      BY <2>1 DEF Flushing, HandleOrFlush, FlushFirst, Covered, LossPending, Resting
    <2> QED BY <1>t, <2>1, <2>2 DEF Flushing
  <1>10. CASE DeleteManager
    <2>1. events' = <<>> /\ loaded' = FALSE /\ ahead' = 0
      BY <1>10 DEF DeleteManager, cleanup
    <2>2. HandleOrFlush' /\ FlushFirst' /\ Covered'
      BY <2>1 DEF HandleOrFlush, FlushFirst, Covered, LossPending, Holds
    <2> QED BY <1>t, <2>1, <2>2 DEF Flushing
  <1> QED BY <1>1, <1>2, <1>3, <1>4, <1>5, <1>6, <1>7, <1>8, <1>9, <1>10
          DEF NextWithHandles, Pool

\* Until a loss overtakes, handles are flushed in time.
FlushingInTurn == TypeOK /\ (overtaken = 0 => Flushing)

LEMMA FlushingInTurnInit == InitWithHandles => FlushingInTurn
  BY FlushingInit DEF FlushingInTurn, Flushing, Turn

LEMMA FlushingInTurnStep ==
    FlushingInTurn /\ [NextWithHandles]_allVars => FlushingInTurn'
  <1> SUFFICES ASSUME FlushingInTurn, [NextWithHandles]_allVars
               PROVE  FlushingInTurn'
    OBVIOUS
  <1>1. [Next]_vars
    BY StepOfBackend
  <1>2. TypeOK' /\ (overtaken' = 0 => overtaken = 0)
    BY <1>1, TypeStep, OvertakenGrows DEF FlushingInTurn
  <1> QED BY <1>2, FlushingStep DEF FlushingInTurn

\* Once the calls posted by a loss are served, no session has a handle of the broken
\* connection left, nor gets one before the backend is back, until a loss overtakes.
THEOREM Flushed == SpecWithHandles => []FlushedWhileLost
  <1>1. FlushingInTurn => FlushedWhileLost
    BY DEF FlushingInTurn, Flushing, HandleOrFlush, LossPending, Holds, Turn, Quiet, Reaches,
           InEventLoop, FlushedWhileLost
  <1> QED BY <1>1, FlushingInTurnInit, FlushingInTurnStep, PTL DEF SpecWithHandles

\* No handle is alive while an init() of its backend runs in the pool that has not said
\* Connected, until a loss overtakes.
THEOREM HandlesApart == SpecWithHandles => []NoHandleDuringInit
  <1>1. FlushingInTurn => NoHandleDuringInit
    <2> SUFFICES ASSUME Flushing, loaded, NEW a \in Attempts
                 PROVE  attempt[a] # "running" /\ (attempt[a] = "linked" => currentState = "Connected")
      BY DEF FlushingInTurn, NoHandleDuringInit
    <2>1. CASE currentState = "Connected"
      BY <2>1 DEF Flushing, Turn, Quiet
    <2>2. CASE LossPending
      BY <2>2 DEF Flushing, FlushFirst, Resting
    <2> QED BY <2>1, <2>2 DEF Flushing, HandleOrFlush
  <1> QED BY <1>1, FlushingInTurnInit, FlushingInTurnStep, PTL DEF SpecWithHandles

-----------------------------------------------------------------------------
(* The promise to MfManager.  At most one loss and one connection are      *)
(* waiting to be handled, the connection before the loss.                  *)

News == "backendConnected"
Loss == "backendDisconnected"

Ordered(s) == \A i, j \in DOMAIN s : s[i].slot = News /\ s[j].slot = Loss => i < j
InStep(s) == Single(s, News) /\ Single(s, Loss) /\ Ordered(s)

\* What the manager has still to be told.
Told ==
    /\ InStep(events)
    /\ currentState = "Connected" => ~LossPending
    /\ Holds(events, News) => Announced \/ LossPending

Waiting(news, loss) ==
    IF news THEN (IF loss THEN <<News, Loss>> ELSE <<News>>)
    ELSE (IF loss THEN <<Loss>> ELSE <<>>)

\* The signals in such a queue are known from which are there.
LEMMA SignalsAre ==
    ASSUME NEW s \in Seq(Events), InStep(s)
    PROVE  SignalsIn(s) = Waiting(Holds(s, News), Holds(s, Loss))
  <1> DEFINE signals == {i \in DOMAIN s : s[i].slot \in {Loss, News}}
             place(i) == Cardinality({j \in signals : j <= i})
             nth(n) == s[CHOOSE i \in signals : place(i) = n].slot
  <1>0. SignalsIn(s) = [n \in 1 .. Cardinality(signals) |-> nth(n)]
    BY DEF SignalsIn, News, Loss
  <1>n. DOMAIN s \subseteq Nat /\ News # Loss
    BY DEF News, Loss
  <1>1. CASE ~Holds(s, News) /\ ~Holds(s, Loss)
    <2>1. signals = {}
      BY <1>1 DEF Holds
    <2> HIDE DEF signals, nth
    <2>2. Cardinality(signals) = 0
      BY <2>1, FS_EmptySet
    <2>3. [n \in 1 .. 0 |-> nth(n)] = <<>>
      OBVIOUS
    <2> QED BY <1>0, <1>1, <2>2, <2>3 DEF Waiting
  <1>2. ASSUME NEW c \in DOMAIN s, s[c].slot \in {News, Loss}, signals = {c}
        PROVE  SignalsIn(s) = <<s[c].slot>>
    <2>1. Cardinality({c}) = 1
      BY FS_Singleton
    <2> HIDE DEF signals
    <2>2. {j \in signals : j <= c} = {c}
      BY <1>2, <1>n
    <2>3. nth(1) = s[c].slot
      BY <1>2, <2>1, <2>2
    <2> HIDE DEF nth
    <2>4. [n \in 1 .. 1 |-> nth(n)] = <<nth(1)>>
      OBVIOUS
    <2> QED BY <1>0, <1>2, <2>1, <2>3, <2>4
  <1>3. CASE Holds(s, News) /\ ~Holds(s, Loss)
    <2>1. PICK c \in DOMAIN s : s[c].slot = News
      BY <1>3 DEF Holds
    <2>2. signals = {c}
      BY <1>3, <1>n, <2>1 DEF Holds, InStep, Single
    <2> HIDE DEF signals
    <2> QED BY <1>2, <1>3, <2>1, <2>2 DEF Waiting
  <1>4. CASE ~Holds(s, News) /\ Holds(s, Loss)
    <2>1. PICK c \in DOMAIN s : s[c].slot = Loss
      BY <1>4 DEF Holds
    <2>2. signals = {c}
      BY <1>4, <1>n, <2>1 DEF Holds, InStep, Single
    <2> HIDE DEF signals
    <2> QED BY <1>2, <1>4, <2>1, <2>2 DEF Waiting
  <1>5. CASE Holds(s, News) /\ Holds(s, Loss)
    <2>1. PICK c \in DOMAIN s, d \in DOMAIN s : s[c].slot = News /\ s[d].slot = Loss
      BY <1>5 DEF Holds
    <2>2. signals = {c, d} /\ c < d
      BY <1>n, <2>1 DEF InStep, Single, Ordered
    <2>3. Cardinality({c}) = 1 /\ Cardinality({c, d}) = 2
      <3>1. IsFiniteSet({c}) /\ Cardinality({c}) = 1
        BY FS_Singleton
      <3>2. d \notin {c}
        BY <1>n, <2>2
      <3>3. Cardinality({c} \cup {d}) = Cardinality({c}) + 1
        BY <3>1, <3>2, FS_AddElement
      <3>4. {c, d} = {c} \cup {d}
        OBVIOUS
      <3>5. Cardinality({c, d}) = Cardinality({c}) + 1
        BY <3>3, <3>4, Zenon
      <3> HIDE DEF signals, place, nth
      <3>6. Cardinality({c, d}) = 1 + 1
        BY <3>1, <3>5, Zenon
      <3> QED BY <3>1, <3>6
    <2> HIDE DEF signals
    <2>4. {j \in signals : j <= c} = {c} /\ {j \in signals : j <= d} = {c, d}
      BY <1>n, <2>2
    <2>5. place(c) = 1 /\ place(d) = 2
      BY <2>3, <2>4
    <2> HIDE DEF place
    <2>6. nth(1) = News /\ nth(2) = Loss
      BY <2>1, <2>2, <2>5
    <2> HIDE DEF nth
    <2>7. [n \in 1 .. 2 |-> nth(n)] = <<nth(1), nth(2)>>
      OBVIOUS
    <2> QED BY <1>0, <1>5, <2>2, <2>3, <2>6, <2>7 DEF Waiting
  <1> QED BY <1>1, <1>3, <1>4, <1>5

\* The order is kept when calls are served, and when a call is posted in its turn.
LEMMA OrderKept ==
    ASSUME NEW s \in Seq(Events), InStep(s)
    PROVE  /\ s # <<>> => InStep(Tail(s))
           /\ \A e \in Events :
                (e.slot = News => ~Holds(s, News) /\ ~Holds(s, Loss)) /\ (e.slot = Loss => ~Holds(s, Loss))
                => InStep(Append(s, e))
  <1>1. ASSUME s # <<>>
        PROVE  InStep(Tail(s))
    <2>1. \A i \in DOMAIN Tail(s) : i \in Nat /\ i + 1 \in DOMAIN s /\ Tail(s)[i] = s[i + 1]
      BY <1>1
    <2>2. Ordered(Tail(s))
      <3> SUFFICES ASSUME NEW i \in DOMAIN Tail(s), NEW j \in DOMAIN Tail(s),
                          Tail(s)[i].slot = News, Tail(s)[j].slot = Loss
                   PROVE  i < j
        BY DEF Ordered
      <3>1. i + 1 < j + 1
        BY <2>1 DEF InStep, Ordered
      <3> QED BY <2>1, <3>1
    <2> QED BY <1>1, <2>2, TailHolds DEF InStep
  <1>2. ASSUME NEW e \in Events, e.slot = News => ~Holds(s, News) /\ ~Holds(s, Loss),
               e.slot = Loss => ~Holds(s, Loss)
        PROVE  InStep(Append(s, e))
    <2> DEFINE t == Append(s, e)
    <2>1. /\ DOMAIN s \subseteq Nat /\ Len(s) \in Nat
          /\ \A i \in DOMAIN s : i <= Len(s) /\ t[i] = s[i]
          /\ t[Len(s) + 1] = e
          /\ \A i \in DOMAIN t : i \in DOMAIN s \/ i = Len(s) + 1
      OBVIOUS
    <2>2. Single(t, News) /\ Single(t, Loss)
      BY <1>2, AppendHolds DEF InStep
    <2> HIDE DEF t
    <2>3. Ordered(t)
      <3> SUFFICES ASSUME NEW i \in DOMAIN t, NEW j \in DOMAIN t,
                          t[i].slot = News, t[j].slot = Loss
                   PROVE  i < j
        BY DEF Ordered
      <3>1. i \in DOMAIN s
        <4>1. ASSUME i = Len(s) + 1
              PROVE  FALSE
          <5>1. ~Holds(s, Loss) /\ e.slot # Loss
            BY <1>2, <2>1, <4>1 DEF News, Loss
          <5> QED BY <2>1, <5>1 DEF Holds
        <4> QED BY <2>1, <4>1
      <3>2. CASE j \in DOMAIN s
        BY <2>1, <3>1, <3>2 DEF InStep, Ordered
      <3>3. CASE j = Len(s) + 1
        BY <2>1, <3>1, <3>3
      <3> QED BY <2>1, <3>2, <3>3
    <2> QED BY <2>2, <2>3 DEF InStep, t
  <1> QED BY <1>1, <1>2

LEMMA ToldInit == InitWithHandles => Told
  BY DEF InitWithHandles, Init, Told, InStep, Single, Ordered, Holds, LossPending

Inbox == SignalsIn(events)

\* A step that announces nothing and changes nothing the manager has to be told.
LEMMA NothingTold ==
    ASSUME TypeOK, TypeOK', Told, InStep(events'),
           Announced' = Announced,
           currentState' = "Connected" => currentState = "Connected" \/ ~LossPending,
           Holds(events', News) = Holds(events, News), Holds(events', Loss) = Holds(events, Loss)
    PROVE  Told' /\ Inbox' = Inbox
  <1>1. events \in Seq(Events) /\ events' \in Seq(Events) /\ InStep(events)
    BY DEF TypeOK, Told
  <1>2. Told'
    BY DEF Told, LossPending, Loss
  <1>3. Inbox = Waiting(Holds(events, News), Holds(events, Loss))
    BY <1>1, SignalsAre DEF Inbox
  <1>4. SignalsIn(events') = Waiting(Holds(events', News), Holds(events', Loss))
    BY <1>1, SignalsAre
  <1> QED BY <1>2, <1>3, <1>4 DEF Inbox

\* The oldest call is served, and it is none of the manager's.
LEMMA OtherServed ==
    ASSUME TypeOK, Told, events # <<>>, Head(events).slot \notin {News, Loss},
           NEW q, q = Tail(events)
    PROVE  /\ InStep(q) /\ q \in Seq(Events)
           /\ Holds(q, News) = Holds(events, News) /\ Holds(q, Loss) = Holds(events, Loss)
  <1>1. events \in Seq(Events) /\ InStep(events)
    BY DEF TypeOK, Told
  <1>2. InStep(q) /\ q \in Seq(Events)
    BY <1>1, OrderKept, TailKeeps
  <1>3. Holds(q, News) <=> Holds(events, News)
    BY <1>1, TailHolds
  <1>4. Holds(q, Loss) <=> Holds(events, Loss)
    BY <1>1, TailHolds
  <1>5. Holds(q, News) \in BOOLEAN /\ Holds(events, News) \in BOOLEAN
        /\ Holds(q, Loss) \in BOOLEAN /\ Holds(events, Loss) \in BOOLEAN
    BY DEF Holds
  <1> QED BY <1>2, <1>3, <1>4, <1>5

\* A call that is none of the manager's is posted.
LEMMA OtherPosted ==
    ASSUME NEW s \in Seq(Events), InStep(s), NEW e \in Events, e.slot \notin {News, Loss},
           NEW q, q = Append(s, e)
    PROVE  /\ InStep(q) /\ q \in Seq(Events)
           /\ Holds(q, News) = Holds(s, News) /\ Holds(q, Loss) = Holds(s, Loss)
  <1>1. InStep(q) /\ q \in Seq(Events)
    BY OrderKept, AppendKeeps
  <1>2. (Holds(q, News) <=> Holds(s, News)) /\ (Holds(q, Loss) <=> Holds(s, Loss))
    BY AppendHolds
  <1>3. Holds(q, News) \in BOOLEAN /\ Holds(s, News) \in BOOLEAN
        /\ Holds(q, Loss) \in BOOLEAN /\ Holds(s, Loss) \in BOOLEAN
    BY DEF Holds
  <1> QED BY <1>1, <1>2, <1>3

\* A loss is posted: the state was Connected, so no loss is waiting.
LEMMA LossTold ==
    ASSUME TypeOK', Told, Announced, currentState' # "Connected", overtaken = 0, overtaken' = 0,
           NEW s \in Seq(Events), InStep(s), SignalsIn(s) = Inbox,
           Holds(s, News) = Holds(events, News), Holds(s, Loss) = Holds(events, Loss),
           events' = Append(s, Call(Loss))
    PROVE  Told' /\ Promise!Lose
  <1>1. Call(Loss) \in Events /\ Call(Loss).slot = Loss /\ Loss # News
    BY PostedAreEvents DEF Call, Slots, Loss, News
  <1>2. ~Holds(s, Loss)
    BY DEF Told, LossPending, Loss, Announced
  <1>3. InStep(events')
    BY <1>1, <1>2, OrderKept
  <1>4. Holds(events', Loss) /\ (Holds(events', News) <=> Holds(s, News))
    BY <1>1, AppendHolds
  <1>5. Told'
    BY <1>3, <1>4 DEF Told, LossPending, Loss
  <1>6. Inbox' = Waiting(Holds(s, News), TRUE)
    BY <1>3, <1>4, SignalsAre DEF Inbox, TypeOK, Waiting
  <1>7. Inbox = Waiting(Holds(s, News), FALSE)
    BY <1>2, SignalsAre DEF Waiting
  <1>8. Inbox' = Append(Inbox, Loss)
    <2>1. <<News, Loss>> = Append(<<News>>, Loss) /\ <<Loss>> = Append(<<>>, Loss)
      OBVIOUS
    <2>2. CASE Holds(s, News)
      BY <1>6, <1>7, <2>1, <2>2 DEF Waiting
    <2>3. CASE ~Holds(s, News)
      BY <1>6, <1>7, <2>1, <2>3 DEF Waiting
    <2> QED BY <2>2, <2>3
  <1>9. Announced /\ Announced' = FALSE /\ (overtaken' > 0) = (overtaken > 0)
    BY DEF Announced
  <1> QED BY <1>5, <1>8, <1>9 DEF Promise!Lose, Inbox, Loss

LEMMA ToldStep ==
    ASSUME Flushing, Told, [NextWithHandles]_allVars, overtaken = 0, overtaken' = 0
    PROVE  Told' /\ [Promise!Next]_<<Announced, Inbox, overtaken > 0>>
  <1>t. /\ Turn /\ TypeOK /\ TypeOK' /\ events \in Seq(Events) /\ events' \in Seq(Events)
        /\ InStep(events) /\ News # Loss /\ attempt \in [Attempts -> Phases]
        /\ Flushing' /\ (overtaken' > 0) = (overtaken > 0)
    BY FlushingStep DEF Flushing, Turn, TypeOK, Told, News, Loss, Phases
  <1>1. CASE Start \/ SetUp \/ HangUp \/ Reload \/ NewTheme \/ DeleteServer \/ Stop
             \/ (Exited /\ UNCHANGED <<handles, ahead>>) \/ UNCHANGED allVars
    <2>1. UNCHANGED <<events, currentState>>
      BY <1>1 DEF Start, LoadBackend, EnterEventLoop, SetUp, HangUp, Reload, NewTheme, DeleteServer,
                  Stop, Quit, Exited, vars, allVars
    <2>2. Announced' = Announced
      <3>1. CASE \E a \in Attempts : LoadBackend(a)
        BY <2>1, <3>1 DEF LoadBackend, Turn, Flushing, AtTheEnds, Announced
      <3>2. CASE EnterEventLoop
        <4>1. \A a \in Attempts : attempt'[a] = "idle" <=> attempt[a] = "idle"
          BY <1>t, <3>2 DEF EnterEventLoop, AfterFork
        <4> QED BY <2>1, <4>1 DEF Announced
      <3>3. CASE UNCHANGED attempt
        BY <2>1, <3>3 DEF Announced
      <3> QED BY <1>1, <3>1, <3>2, <3>3 DEF Start, SetUp, HangUp, Reload, NewTheme, DeleteServer,
                  Stop, Quit, Exited, vars, allVars
    <2> QED BY <1>t, <2>1, <2>2, NothingTold
  <1>2. CASE PlayOnBroken \/ LoseByCallback
    <2>0. AtRest
      BY <1>2, <1>t DEF PlayOnBroken, LoseByCallback, PlayFails, CallbackLoss, Breaks, TypeOK
    <2>1. Announced
      <3>1. Resting
        BY <2>0 DEF AtRest, Resting
      <3>2. currentState = "Connected"
        BY <1>2, <1>t, <3>1 DEF PlayOnBroken, LoseByCallback, PlayFails, CallbackLoss, Turn, LinkIsUsed
      <3> QED BY <3>1, <3>2 DEF Announced, Resting
    <2>2. CASE EmitLostFromMain
      <3>1. events' = Append(events, Call(Loss)) /\ currentState' # "Connected"
        BY <2>2 DEF EmitLostFromMain, tryConnect, Loss
      <3>2. Told' /\ Promise!Lose
        BY <1>t, <2>1, <3>1, LossTold DEF Inbox
      <3> QED BY <3>2 DEF Promise!Next
    <2>3. CASE EmitLostFromThread
      <3>1. /\ currentState' # "Connected"
            /\ events' = Append(Append(events, Call("tryConnect")), Call(Loss))
        BY <1>t, <2>3, LossPosts DEF EmitLostFromThread, Loss
      <3>2. Call("tryConnect") \in Events /\ Call("tryConnect").slot \notin {News, Loss}
        BY PostedAreEvents DEF Call, Slots, News, Loss
      <3>3. PICK q : q = Append(events, Call("tryConnect"))
        OBVIOUS
      <3>4. /\ InStep(q) /\ q \in Seq(Events)
            /\ Holds(q, News) = Holds(events, News) /\ Holds(q, Loss) = Holds(events, Loss)
        BY <1>t, <3>2, <3>3, OtherPosted
      <3>5. SignalsIn(q) = Inbox
        BY <1>t, <3>4, SignalsAre DEF Inbox
      <3>6. Told' /\ Promise!Lose
        BY <1>t, <2>1, <3>1, <3>3, <3>4, <3>5, LossTold
      <3> QED BY <3>6 DEF Promise!Next
    <2> QED BY <1>2, <2>2, <2>3 DEF PlayOnBroken, LoseByCallback, PlayFails, CallbackLoss
  <1>3. ASSUME NEW a \in Attempts, Pool(a) \/ Retry(a)
        PROVE  Told' /\ [Promise!Next]_<<Announced, Inbox, overtaken > 0>>
    <2>1. /\ currentState' = currentState \/ attempt[a] = "running"
          /\ events' = events \/ events' = Append(events, Finished(a))
      BY <1>3 DEF Pool, Retry, InitLinks, InitSucceeds, InitFails, Returns, TimerFires
    <2>2. Finished(a) \in Events /\ Finished(a).slot \notin {News, Loss}
      BY PostedAreEvents DEF Finished, News, Loss
    <2>3. InStep(events') /\ Holds(events', News) = Holds(events, News)
          /\ Holds(events', Loss) = Holds(events, Loss)
      BY <1>t, <2>1, <2>2, OtherPosted
    <2>4. ~Announced /\ ~Announced'
      <3>1. CASE Retry(a)
        <4>1. timer # Off /\ currentState' = currentState /\ attempt'[a] = "running"
          BY <1>t, <3>1 DEF Retry, TimerFires, connecting
        <4> QED BY <1>t, <4>1 DEF Turn, Quiet, Announced
      <3>2. CASE Pool(a)
        <4>1. attempt[a] \in {"running", "linked"}
          BY <3>2 DEF Pool, InitLinks, InitSucceeds, InitFails
        <4>2. a = runConnection
          BY <1>t, <4>1 DEF Turn, Watched
        <4>3. attempt'[a] \in {"linked", "accepted", "refused"}
          BY <1>t, <3>2, <4>2 DEF Pool, InitLinks, InitSucceeds, InitFails, Returns
        <4> QED BY <4>1, <4>3 DEF Announced
      <3> QED BY <1>3, <3>1, <3>2
    <2>5. attempt[a] = "running" => ~LossPending
      BY DEF Flushing, FlushFirst, Resting
    <2>6. Announced' = Announced
      BY <2>4 DEF Announced
    <2> QED BY <1>t, <2>1, <2>3, <2>5, <2>6, NothingTold
  <1>4. CASE ServeBackend
    <2>1. events # <<>> /\ Head(events).slot \notin {News, Loss}
      BY <1>4 DEF ServeBackend, HandleTryConnect, connectionDone, Discard, Posted, News, Loss
    <2>2. PICK q : q = Tail(events)
      OBVIOUS
    <2>3. /\ InStep(q) /\ q \in Seq(Events)
          /\ Holds(q, News) = Holds(events, News) /\ Holds(q, Loss) = Holds(events, Loss)
      BY <1>t, <2>1, <2>2, OtherServed
    <2>4. CASE HandleTryConnect \/ Discard \/ (connectionDone /\ DoneRefused)
      <3>1. events' = q /\ (currentState' = "Connected" => currentState = "Connected")
        BY <2>2, <2>4 DEF HandleTryConnect, Discard, DoneRefused, tryConnect
      <3>2. Announced' = Announced
        <4>1. CASE HandleTryConnect
          <5>1. currentState # "Connected" /\ currentState' # "Connected"
            BY <1>t, <2>1, <4>1, TailHolds
            DEF HandleTryConnect, Posted, Turn, NoRetryBeside, tryConnect
          <5> QED BY <5>1 DEF Announced
        <4>2. CASE Discard
          <5>1. 1 \in DOMAIN events /\ Head(events) = events[1]
            BY <1>t, <2>1
          <5> QED BY <1>t, <4>2, <5>1 DEF Discard, Posted, Turn, Queue, DoneIsOf
        <4>3. CASE connectionDone /\ DoneRefused
          <5>1. runConnection \in Attempts /\ attempt[runConnection] = "refused"
            BY <1>t, <2>1, <4>3, TailHolds DEF connectionDone, Posted, DoneRefused, Turn, ResultIsNews
          <5>2. currentState' # "Connected"
            BY <4>3 DEF DoneRefused, tryConnect
          <5> QED BY <5>1, <5>2 DEF Announced
        <4> QED BY <2>4, <4>1, <4>2, <4>3
      <3> QED BY <1>t, <2>3, <3>1, <3>2, NothingTold
    <2>5. CASE connectionDone /\ DoneAccepted
      <3>1. /\ runConnection \in Attempts /\ attempt[runConnection] = "accepted"
            /\ currentState' = "Connected" /\ events' = Append(q, Call(News))
        BY <1>t, <2>1, <2>2, <2>5, TailHolds
        DEF connectionDone, Posted, DoneAccepted, Turn, ResultIsNews, News
      <3>2. ~Announced /\ ~LossPending
        BY <1>t, <3>1 DEF Announced, Resting, Flushing, FlushFirst
      <3>a. Announced'
        <4>1. \A a \in Attempts : attempt'[a] = "idle"
          BY <1>t, <2>5, <3>1 DEF connectionDone, Turn, Watched
        <4> QED BY <3>1, <4>1 DEF Announced
      <3>3. ~Holds(q, News) /\ ~Holds(q, Loss)
        BY <2>3, <3>2 DEF Told, LossPending, Loss
      <3>4. Call(News) \in Events /\ Call(News).slot = News
        BY PostedAreEvents DEF Call, Slots, News
      <3>5. InStep(events')
        BY <1>t, <2>3, <3>1, <3>3, <3>4, OrderKept
      <3>6. Holds(events', News) /\ ~Holds(events', Loss)
        BY <1>t, <2>3, <3>1, <3>3, <3>4, AppendHolds
      <3>7. Inbox' = <<News>> /\ Inbox = <<>>
        BY <1>t, <2>3, <3>3, <3>5, <3>6, SignalsAre DEF Inbox, Waiting
      <3>8. Promise!Establish
        BY <1>t, <3>2, <3>a, <3>7 DEF Promise!Establish, Inbox, News
      <3>9. Told'
        BY <3>a, <3>5, <3>6 DEF Told, LossPending, Loss
      <3> QED BY <3>8, <3>9 DEF Promise!Next
    <2> QED BY <1>4, <2>4, <2>5 DEF ServeBackend, connectionDone
  <1>5. CASE ServeManager
    <2>1. /\ events # <<>> /\ events' = Tail(events) /\ UNCHANGED currentState
          /\ Head(events).slot \in {News, Loss} /\ UNCHANGED attempt
      BY <1>5 DEF ServeManager, ManagerSlot, Posted, News, Loss
    <2>0. Announced' = Announced
      BY <2>1 DEF Announced
    <2>2. InStep(events')
      BY <1>t, <2>1, OrderKept
    <2>3. 1 \in DOMAIN events /\ Head(events) = events[1] /\ DOMAIN events \subseteq Nat \ {0}
      BY <1>t, <2>1
    <2>4. /\ Inbox = Waiting(Holds(events, News), Holds(events, Loss))
          /\ Inbox' = Waiting(Holds(events', News), Holds(events', Loss))
      BY <1>t, <2>2, SignalsAre DEF Inbox
    <2>5. CASE Head(events).slot = News
      <3>1. /\ Holds(events, News) /\ ~Holds(events', News)
            /\ Holds(events', Loss) <=> Holds(events, Loss)
        BY <1>t, <2>1, <2>5, TailHolds DEF InStep
      <3>2. Told'
        BY <2>0, <2>1, <2>2, <3>1 DEF Told, LossPending, Loss
      <3>3. Inbox # <<>> /\ Inbox' = Tail(Inbox)
        BY <2>4, <3>1 DEF Waiting
      <3>4. Promise!Handle
        BY <1>t, <2>0, <3>3 DEF Promise!Handle, Inbox
      <3> QED BY <3>2, <3>4 DEF Promise!Next
    <2>6. CASE Head(events).slot = Loss
      <3>1. ~Holds(events, News)
        BY <1>t, <2>3, <2>6 DEF InStep, Ordered, Holds
      <3>2. Holds(events, Loss) /\ ~Holds(events', Loss) /\ ~Holds(events', News)
        BY <1>t, <2>1, <2>6, <3>1, TailHolds DEF InStep
      <3>3. Told'
        BY <2>2, <3>2 DEF Told, LossPending, Loss
      <3>4. Inbox # <<>> /\ Inbox' = Tail(Inbox)
        BY <2>4, <3>1, <3>2 DEF Waiting
      <3>5. Promise!Handle
        BY <1>t, <2>0, <3>4 DEF Promise!Handle, Inbox
      <3> QED BY <3>3, <3>5 DEF Promise!Next
    <2> QED BY <2>1, <2>5, <2>6
  <1>6. CASE DeleteManager
    <2>1. events' = <<>> /\ UNCHANGED <<currentState, attempt>>
      BY <1>6 DEF DeleteManager, cleanup
    <2>0. Announced' = Announced
      BY <2>1 DEF Announced
    <2>2. \A slot : ~Holds(events', slot)
      BY <2>1 DEF Holds
    <2>3. InStep(events')
      BY <2>1 DEF InStep, Single, Ordered
    <2>4. Told'
      BY <2>2, <2>3 DEF Told, LossPending
    <2>5. Inbox' = <<>>
      BY <1>t, <2>2, <2>3, SignalsAre DEF Inbox, Waiting
    <2>6. Promise!Exit
      BY <1>t, <2>0, <2>5 DEF Promise!Exit, Inbox
    <2> QED BY <2>4, <2>6 DEF Promise!Next
  <1> QED BY <1>1, <1>2, <1>3, <1>4, <1>5, <1>6 DEF NextWithHandles

\* A loss overtakes only a connection that is not announced.
LEMMA OvertakesNoAnnouncement ==
    ASSUME Turn, [Next]_vars, overtaken = 0, overtaken' # 0
    PROVE  ~Announced
  <1>1. ~AtRest
    BY DEF Next, LoadBackend, EnterEventLoop, Quit, cleanup, Exited, InitLinks, InitSucceeds,
           InitFails, Returns, HandleTryConnect, connectionDone, Discard, ManagerSlot, TimerFires,
           vars, PlayFails, CallbackLoss, Breaks
  <1>2. CASE currentState = "Connected"
    <2>1. timer = Off /\ ~TryPending
      BY <1>2 DEF Turn, Quiet, NoRetryBeside, Holds, TryPending
    <2> QED BY <1>1, <2>1 DEF AtRest, Announced
  <1> QED BY <1>2 DEF Announced

\* Until a loss overtakes, handles are flushed in time and the manager is told in time.
TellingInTurn == TypeOK /\ (overtaken = 0 => Flushing /\ Told)

LEMMA TellingStep ==
    ASSUME TellingInTurn, [NextWithHandles]_allVars
    PROVE  TellingInTurn' /\ [Promise!Next]_<<Announced, Inbox, overtaken > 0>>
  <1>1. [Next]_vars
    BY StepOfBackend
  <1>2. /\ TypeOK' /\ overtaken \in Nat /\ overtaken' \in Nat /\ overtaken <= overtaken'
    BY <1>1, TypeStep, OvertakenGrows DEF TellingInTurn
  <1>3. CASE overtaken' = 0
    <2>1. overtaken = 0
      BY <1>2, <1>3
    <2>2. Flushing /\ Told
      BY <2>1 DEF TellingInTurn
    <2> QED BY <1>2, <1>3, <2>1, <2>2, FlushingStep, ToldStep DEF TellingInTurn
  <1>4. CASE overtaken' # 0 /\ overtaken = 0
    <2>1. ~Announced
      BY <1>1, <1>4, OvertakesNoAnnouncement DEF TellingInTurn, Flushing
    <2>2. (overtaken' > 0) = TRUE
      BY <1>2, <1>4
    <2>3. Promise!Overtake
      BY <2>1, <2>2 DEF Promise!Overtake
    <2> QED BY <1>2, <1>4, <2>3 DEF TellingInTurn, Promise!Next
  <1>5. CASE overtaken' # 0 /\ overtaken # 0
    <2>1. (overtaken > 0) = TRUE /\ (overtaken' > 0) = TRUE
      BY <1>2, <1>5
    <2>2. Promise!NoPromise
      BY <2>1 DEF Promise!NoPromise
    <2> QED BY <1>2, <1>5, <2>2 DEF TellingInTurn, Promise!Next
  <1> QED BY <1>3, <1>4, <1>5

\* The reconnection logic implements BackendSignals with every kind of plug-in: until a loss
\* overtakes, state and signals change together, signals alternate, and a loss is always handled
\* before the next connection is announced; and a loss overtakes only what is not announced.
THEOREM PromiseIsKept == SpecWithHandles => PromiseKept
  <1>1. InitWithHandles => Promise!Init
    <2> SUFFICES ASSUME InitWithHandles PROVE Promise!Init
      OBVIOUS
    <2>1. ~Announced /\ events = <<>> /\ InStep(events) /\ ~(overtaken > 0)
      BY ToldInit DEF InitWithHandles, Init, Told, Announced
    <2>2. events \in Seq(Events) /\ ~Holds(events, News) /\ ~Holds(events, Loss)
      BY <2>1 DEF Holds
    <2>3. SignalsIn(events) = <<>>
      BY <2>1, <2>2, SignalsAre DEF Waiting
    <2> QED BY <2>1, <2>3 DEF Promise!Init
  <1>2. InitWithHandles => TellingInTurn
    BY FlushingInit, ToldInit DEF TellingInTurn, Flushing, Turn
  <1>3. TellingInTurn /\ [NextWithHandles]_allVars
        => TellingInTurn' /\ [Promise!Next]_<<Announced, SignalsIn(events), overtaken > 0>>
    BY TellingStep DEF Inbox
  <1> QED BY <1>1, <1>2, <1>3, PTL DEF SpecWithHandles, PromiseKept, Promise!Spec

=============================================================================
