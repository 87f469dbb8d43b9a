---------------------------- MODULE MfDaemon_proofs ----------------------------
(***************************************************************************)
(* Proofs about MfDaemon, for any number of starts, crashes, failing steps *)
(* and signals: no signal is written into a socket that is not open, no    *)
(* daemon that ends by a signal or because a step of its start other than  *)
(* daemon() failed leaves its socket file, and the daemon in its event     *)
(* loop can be reached.                                                    *)
(***************************************************************************)
EXTENDS MfDaemon, TLAPS

-----------------------------------------------------------------------------
(* The order of main().                                                    *)

\* What comes after each step of main(): the position of a step is the one place in
\* Steps that holds it.
LEMMA Order ==
    /\ Then("arguments") = "sigTerm" /\ Then("sigTerm") = "sigInt"
    /\ Then("sigInt") = "configuration" /\ Then("configuration") = "manager"
    /\ Then("manager") = "tempDir" /\ Then("tempDir") = "listen"
    /\ Then("listen") = "chmod" /\ Then("chmod") = "fork" /\ Then("fork") = "exec"
    /\ Then("exec") = "deleteServer" /\ Then("deleteServer") = "deleteManager"
    /\ Then("deleteManager") = "removeTempDir" /\ Then("removeTempDir") = "releaseInt"
    /\ Then("releaseInt") = "closeInt" /\ Then("closeInt") = "releaseTerm"
    /\ Then("releaseTerm") = "closeTerm" /\ Then("closeTerm") = "return"
  <1>1. /\ At("arguments") = 1 /\ At("sigTerm") = 2 /\ At("sigInt") = 3
        /\ At("configuration") = 4 /\ At("manager") = 5 /\ At("tempDir") = 6
        /\ At("listen") = 7 /\ At("chmod") = 8 /\ At("fork") = 9
    BY DEF At, Steps
  <1>2. /\ At("exec") = 10 /\ At("deleteServer") = 11 /\ At("deleteManager") = 12
        /\ At("removeTempDir") = 13 /\ At("releaseInt") = 14 /\ At("closeInt") = 15
        /\ At("releaseTerm") = 16 /\ At("closeTerm") = 17
    BY DEF At, Steps
  <1>3. QED
    BY <1>1, <1>2 DEF Then, Steps

-----------------------------------------------------------------------------
(* The handlers.                                                           *)

\* The signal part of the state: a handler watches over its own signal alone, and the map
\* leads from a signal to the handler for it that still watches over it.
Mapped ==
    /\ fd \in [Handlers -> {"unset", "open", "closed"}]
    /\ disposition \in [S!Signals -> {"default", "onSignal"}]
    /\ watchOver \in [Handlers -> SUBSET S!Signals]
    /\ \A h \in Handlers : watchOver[h] \subseteq {SignalOf[h]}
    /\ DOMAIN signal2fd \subseteq S!Signals
    /\ \A s \in DOMAIN signal2fd :
         signal2fd[s] \in Handlers /\ SignalOf[signal2fd[s]] = s /\ s \in watchOver[signal2fd[s]]
    /\ MappedIsOpen

\* No two handlers are for the same signal.
LEMMA OwnSignals ==
    /\ DOMAIN SignalOf = Handlers
    /\ \A g, h \in Handlers : SignalOf[g] = SignalOf[h] => g = h
    /\ \A h \in Handlers : SignalOf[h] \in S!Signals
  BY DaemonAssumption DEF Injection, IsInjective, S!Signals

\* A process that begins or ends has no handlers.
LEMMA ForgetMaps ==
  ASSUME S!Forget
  PROVE  Mapped' /\ \A s \in S!Signals : disposition'[s] = "default"
  BY DEF S!Forget, S!NoHandlers, Mapped, MappedIsOpen, S!MappedIsOpen, S!Signals

\* init() of one handler leaves those of the other alone.
LEMMA InitMaps ==
  ASSUME Mapped, NEW h \in Handlers, S!InitSucceeds(h)
  PROVE  Mapped' /\ disposition' = [disposition EXCEPT ![SignalOf[h]] = "onSignal"]
  <1>1. SignalOf[h] \in S!Signals
    BY OwnSignals
  <1>2. disposition' = [disposition EXCEPT ![SignalOf[h]] = "onSignal"]
    BY DEF S!InitSucceeds
  <1>3. /\ DOMAIN signal2fd' = DOMAIN signal2fd \cup {SignalOf[h]}
        /\ signal2fd'[SignalOf[h]] = h
        /\ \A s \in DOMAIN signal2fd : s # SignalOf[h] => signal2fd'[s] = signal2fd[s]
    BY DEF S!InitSucceeds, S!Insert
  <1>4. fd' = [fd EXCEPT ![h] = "open"] /\ watchOver' = [watchOver EXCEPT ![h] = @ \cup {SignalOf[h]}]
    BY DEF S!InitSucceeds, S!catchSignal
  <1>5. MappedIsOpen'
    BY <1>1, <1>2, <1>3, <1>4 DEF Mapped, MappedIsOpen, S!MappedIsOpen, S!Signals
  <1>6. QED
    BY <1>1, <1>2, <1>3, <1>4, <1>5 DEF Mapped, S!Signals

\* When init() fails, the handler is for the signal and the map does not know.
LEMMA InitFails ==
  ASSUME Mapped, NEW h \in Handlers, S!NoSocket(h) \/ S!NoAction(h)
  PROVE  Mapped' /\ UNCHANGED <<disposition, signal2fd>>
  <1>1. UNCHANGED <<disposition, signal2fd>>
    BY DEF S!NoSocket, S!NoAction
  <1>2. watchOver' = [watchOver EXCEPT ![h] = @ \cup {SignalOf[h]}]
    BY DEF S!NoSocket, S!NoAction, S!catchSignal
  <1>3. fd' = fd \/ fd' = [fd EXCEPT ![h] = "open"]
    BY DEF S!NoSocket, S!NoAction
  <1>4. MappedIsOpen'
    BY <1>1, <1>3 DEF Mapped, MappedIsOpen, S!MappedIsOpen, S!Signals
  <1>5. QED
    BY <1>1, <1>2, <1>3, <1>4, OwnSignals DEF Mapped, S!Signals

\* A destroyed handler's signal is out of the map, although it is found there by way of
\* watchOver only: the map never leads to a handler that does not watch over the signal.
LEMMA ReleaseMaps ==
  ASSUME Mapped, NEW h \in Handlers, S!Release(h)
  PROVE  Mapped' /\ SignalOf[h] \notin DOMAIN signal2fd'
  <1>1. /\ DOMAIN signal2fd' = DOMAIN signal2fd \ watchOver[h]
        /\ \A s \in DOMAIN signal2fd' : signal2fd'[s] = signal2fd[s]
    BY DEF S!Release, S!Restrict
  <1>2. /\ disposition' = [s \in S!Signals |-> IF s \in watchOver[h] THEN "default" ELSE disposition[s]]
        /\ fd' = fd /\ watchOver' = watchOver
    BY DEF S!Release, S!Signals
  <1>3. SignalOf[h] \in DOMAIN signal2fd => SignalOf[h] \in watchOver[h]
    BY OwnSignals DEF Mapped
  <1>4. MappedIsOpen'
    BY <1>1, <1>2 DEF Mapped, MappedIsOpen, S!MappedIsOpen, S!Signals
  <1>5. QED
    BY <1>1, <1>2, <1>3, <1>4 DEF Mapped, S!Signals

\* The sockets of a handler that is out of the map can be closed.
LEMMA CloseMaps ==
  ASSUME Mapped, NEW h \in Handlers, S!Close(h), SignalOf[h] \notin DOMAIN signal2fd
  PROVE  Mapped' /\ UNCHANGED <<disposition, signal2fd>>
  <1>1. fd' = [fd EXCEPT ![h] = "closed"] /\ UNCHANGED <<disposition, signal2fd, watchOver>>
    BY DEF S!Close
  <1>2. MappedIsOpen'
    BY <1>1 DEF Mapped, MappedIsOpen, S!MappedIsOpen, S!Signals
  <1>3. QED
    BY <1>1, <1>2 DEF Mapped, S!Signals

\* What a signal does, and reading it, leave all this alone.
LEMMA SameMap ==
  ASSUME Mapped, UNCHANGED <<disposition, signal2fd, fd, watchOver>>
  PROVE  Mapped'
  BY DEF Mapped, MappedIsOpen, S!MappedIsOpen, S!Signals

-----------------------------------------------------------------------------
(* The inductive invariant.                                                *)

\* The map has forgotten a handler before its sockets are closed.
Released ==
    /\ pc = "closeInt" => SignalOf[sigIntHandler] \notin DOMAIN signal2fd
    /\ pc = "closeTerm" => SignalOf[sigTermHandler] \notin DOMAIN signal2fd

\* The signals that are caught for certain when step comes next: from the initialization
\* of their handler to the end of the event loop.
CaughtAt(step) ==
    IF step = "sigInt" THEN {SignalOf[sigTermHandler]}
    ELSE IF step \in {"configuration", "manager", "tempDir", "listen", "chmod", "fork", "exec"}
         THEN S!Signals
         ELSE {}

\* A file of this process has a server that will remove it and signals that are caught
\* until then; a predecessor that has yet to close its server was overtaken by this
\* process; no process left its file.
Filed ==
    /\ \A s \in CaughtAt(pc) : disposition[s] = "onSignal"
    /\ socketFile = "own" =>
         /\ serving
         /\ pc \in {"chmod", "fork", "exec", "deleteServer"}
         /\ \A s \in S!Signals : disposition[s] = "onSignal"
    /\ pc \in {"chmod", "fork", "exec"} /\ ~overlaps => socketFile = "own"
    /\ pc = "deleteManager" => ~serving
    /\ "close" \in predecessor => overlaps
    /\ socketFile # "left"

IInv == Mapped /\ Released /\ Filed

LEMMA IInvInit == Init => IInv
  <1>1. Init => Mapped
    BY DEF Init, S!SignalInit, S!NoHandlers, Mapped, MappedIsOpen, S!MappedIsOpen, S!Signals
  <1>2. Init => Released /\ Filed
    BY DEF Init, Released, Filed, CaughtAt
  <1>3. QED
    BY <1>1, <1>2 DEF IInv

\* The steps of main() up to the event loop.
LEMMA StartUpStep ==
  ASSUME IInv,
         \/ ProcessCmdLineArguments
         \/ InitHandler("sigTerm", sigTermHandler) \/ InitHandler("sigInt", sigIntHandler)
         \/ InitPart("configuration") \/ InitPart("manager")
         \/ MakeTempDir \/ Listen \/ Chmod \/ Fork
  PROVE  IInv'
  <1> USE Order DEF IInv, Goes, Goto, Fails
  <1>1. CASE ProcessCmdLineArguments
    <2>1. /\ pc = "arguments" /\ pc' \in {"sigTerm", "releaseInt"}
          /\ UNCHANGED <<files, ghosts, signalVars>>
      BY <1>1 DEF ProcessCmdLineArguments
    <2>2. Mapped'
      BY <2>1, SameMap DEF signalVars
    <2>3. Released' /\ Filed'
      BY <2>1 DEF Released, Filed, CaughtAt, files, ghosts, signalVars
    <2>4. QED
      BY <2>2, <2>3
  <1>2. ASSUME NEW h \in Handlers, NEW step \in {"sigTerm", "sigInt"}, InitHandler(step, h),
               step = "sigTerm" => h = sigTermHandler, step = "sigInt" => h = sigIntHandler
        PROVE  IInv'
    <2>1. CASE Goes(step) /\ S!InitSucceeds(h) /\ UNCHANGED ghosts
      <3>1. Mapped' /\ disposition' = [disposition EXCEPT ![SignalOf[h]] = "onSignal"]
        BY <2>1, InitMaps
      <3>2. \A s \in CaughtAt(pc') : disposition'[s] = "onSignal"
        BY <1>2, <2>1, <3>1, OwnSignals, DaemonAssumption DEF Filed, CaughtAt, Mapped, S!Signals
      <3>3. socketFile' = socketFile /\ socketFile # "own" /\ pc' \in {"sigInt", "configuration"}
        BY <1>2, <2>1 DEF InitHandler, files, Filed
      <3>4. Released' /\ Filed'
        BY <1>2, <2>1, <3>2, <3>3 DEF InitHandler, Released, Filed, files, ghosts
      <3>5. QED
        BY <3>1, <3>4
    <2>2. CASE Fails(step) /\ (S!NoSocket(h) \/ S!NoAction(h))
      <3>1. Mapped'
        BY <2>2, InitFails
      <3>2. Released' /\ Filed'
        BY <1>2, <2>2 DEF InitHandler, Released, Filed, CaughtAt, Fault, files
      <3>3. QED
        BY <3>1, <3>2
    <2>3. QED
      BY <1>2, <2>1, <2>2 DEF InitHandler
  <1>3. ASSUME NEW step \in {"configuration", "manager", "chmod"}, InitPart(step)
        PROVE  IInv'
    <2>1. /\ pc = step /\ pc' \in {Then(step), "deleteServer"}
          /\ UNCHANGED <<files, overlaps, signalVars>>
      BY <1>3 DEF InitPart, Fault, ghosts
    <2>2. Mapped'
      BY <2>1, SameMap DEF signalVars
    <2>3. Released' /\ Filed'
      BY <2>1 DEF Released, Filed, CaughtAt, files, signalVars
    <2>4. QED
      BY <2>2, <2>3
  <1>4. CASE MakeTempDir
    <2>1. /\ pc = "tempDir" /\ pc' \in {"listen", "deleteServer"}
          /\ UNCHANGED <<serving, socketFile, predecessor, overlaps, signalVars>>
      BY <1>4 DEF MakeTempDir, Fault, ghosts
    <2>2. Mapped'
      BY <2>1, SameMap DEF signalVars
    <2>3. Released' /\ Filed'
      BY <2>1 DEF Released, Filed, CaughtAt, signalVars
    <2>4. QED
      BY <2>2, <2>3
  <1>5. CASE Listen
    <2>1. /\ pc = "listen" /\ UNCHANGED <<predecessor, overlaps, signalVars>>
          /\ \/ pc' = "chmod" /\ serving' /\ socketFile' = "own"
             \/ pc' = "deleteServer" /\ socketFile' \in {"none", socketFile}
      BY <1>5 DEF Listen, Fault, ghosts
    <2>2. Mapped'
      BY <2>1, SameMap DEF signalVars
    <2>3. Released' /\ Filed'
      BY <2>1 DEF Released, Filed, CaughtAt, signalVars
    <2>4. QED
      BY <2>2, <2>3
  <1>6. CASE Fork
    <2>1. /\ pc = "fork" /\ UNCHANGED <<serving, predecessor, overlaps, signalVars>>
          /\ \/ pc' = "exec" /\ socketFile' = socketFile
             \/ pc' = "releaseInt" /\ socketFile' # "own" /\ socketFile' \in {"abandoned", socketFile}
      BY <1>6 DEF Fork, Fault, ghosts
    <2>2. Mapped'
      BY <2>1, SameMap DEF signalVars
    <2>3. Released' /\ Filed'
      BY <2>1 DEF Released, Filed, CaughtAt, signalVars
    <2>4. QED
      BY <2>2, <2>3
  <1>7. QED
    BY <1>1, <1>2, <1>3, <1>4, <1>5, <1>6, DaemonAssumption DEF Chmod

\* The event loop, CLEANUP and the end of main().
LEMMA CleanUpStep ==
  ASSUME IInv,
         \/ \E h \in Handlers : Exec(h)
         \/ DeleteServer \/ DeleteManager \/ RemoveTempDir
         \/ DestroyHandler("releaseInt", "closeInt", sigIntHandler)
         \/ DestroyHandler("releaseTerm", "closeTerm", sigTermHandler)
         \/ Return
  PROVE  IInv'
  <1> USE Order DEF IInv, Goes, Goto
  <1>1. ASSUME NEW h \in Handlers, Exec(h)
        PROVE  IInv'
    <2>1. /\ pc = "exec" /\ pc' = "deleteServer" /\ UNCHANGED <<files, ghosts>>
          /\ UNCHANGED <<disposition, signal2fd, fd, watchOver>>
      BY <1>1 DEF Exec, S!retranslate
    <2>2. Mapped'
      BY <2>1, SameMap
    <2>3. Released' /\ Filed'
      BY <2>1 DEF Released, Filed, CaughtAt, files, ghosts
    <2>4. QED
      BY <2>2, <2>3
  <1>2. CASE DeleteServer \/ DeleteManager \/ RemoveTempDir
    <2>1. /\ UNCHANGED <<predecessor, overlaps, signalVars>>
          /\ \/ /\ pc = "deleteServer" /\ pc' = "deleteManager" /\ ~serving'
                /\ socketFile' = IF serving THEN "none" ELSE socketFile
             \/ pc = "deleteManager" /\ pc' = "removeTempDir" /\ UNCHANGED <<serving, socketFile>>
             \/ pc = "removeTempDir" /\ pc' = "releaseInt" /\ UNCHANGED <<serving, socketFile>>
      BY <1>2 DEF DeleteServer, DeleteManager, RemoveTempDir, files, ghosts
    <2>2. Mapped'
      BY <2>1, SameMap DEF signalVars
    <2>3. Released' /\ Filed'
      BY <2>1 DEF Released, Filed, CaughtAt, signalVars
    <2>4. QED
      BY <2>2, <2>3
  <1>3. ASSUME NEW h \in Handlers, NEW release, NEW close, DestroyHandler(release, close, h),
               \/ release = "releaseInt" /\ close = "closeInt" /\ h = sigIntHandler
               \/ release = "releaseTerm" /\ close = "closeTerm" /\ h = sigTermHandler
        PROVE  IInv'
    <2>1. Mapped'
      BY <1>3, ReleaseMaps, CloseMaps DEF DestroyHandler, Released
    <2>2. Released'
      BY <1>3, ReleaseMaps DEF DestroyHandler, Released
    <2>3. Filed'
      BY <1>3 DEF DestroyHandler, Filed, CaughtAt, files, ghosts
    <2>4. QED
      BY <2>1, <2>2, <2>3
  <1>4. CASE Return
    <2>1. pc' = "off" /\ UNCHANGED <<predecessor, overlaps, socketFile>> /\ socketFile # "own" /\ S!Forget
      BY <1>4 DEF Return, Ends, Filed, ghosts
    <2>2. Mapped'
      BY <2>1, ForgetMaps
    <2>3. Released' /\ Filed'
      BY <2>1 DEF Released, Filed, CaughtAt
    <2>4. QED
      BY <2>2, <2>3
  <1>5. QED
    BY <1>1, <1>2, <1>3, <1>4, DaemonAssumption

\* Crashes, signals, other daemons.
LEMMA OutsideStep ==
  ASSUME IInv,
         \/ Crash \/ \E s \in S!Signals : Caught(s) \/ Killed(s)
         \/ Start \/ StartBeside \/ PredecessorCloses \/ PredecessorRemovesTempDir
  PROVE  IInv'
  <1> USE DEF IInv
  <1>1. CASE Crash
    <2>1. /\ pc' = "off" /\ UNCHANGED <<predecessor, overlaps>> /\ S!Forget
          /\ socketFile' = IF socketFile = "own" THEN "abandoned" ELSE socketFile
      BY <1>1 DEF Crash, Ends, Fault
    <2>2. Mapped'
      BY <2>1, ForgetMaps
    <2>3. Released' /\ Filed'
      BY <2>1 DEF Released, Filed, CaughtAt
    <2>4. QED
      BY <2>2, <2>3
  <1>2. ASSUME NEW s \in S!Signals, Caught(s)
        PROVE  IInv'
    <2>1. UNCHANGED <<pc, files, overlaps, disposition, signal2fd, fd, watchOver>>
      BY <1>2 DEF Caught, S!onSignal
    <2>2. Mapped'
      BY <2>1, SameMap
    <2>3. Released' /\ Filed'
      BY <2>1 DEF Released, Filed, CaughtAt, files
    <2>4. QED
      BY <2>2, <2>3
  <1>3. ASSUME NEW s \in S!Signals, Killed(s)
        PROVE  IInv'
    <2>1. socketFile # "own"
      BY <1>3 DEF Killed, Filed
    <2>2. pc' = "off" /\ UNCHANGED <<predecessor, overlaps, socketFile>> /\ S!Forget
      BY <1>3, <2>1 DEF Killed, Ends
    <2>3. Mapped'
      BY <2>2, ForgetMaps
    <2>4. Released' /\ Filed'
      BY <2>1, <2>2 DEF Released, Filed, CaughtAt
    <2>5. QED
      BY <2>3, <2>4
  <1>4. CASE Start
    <2>1. /\ pc = "off" /\ pc' = "arguments" /\ UNCHANGED <<socketFile, predecessor>> /\ S!Forget
          /\ overlaps' = (predecessor # {} /\ overlaps)
      BY <1>4 DEF Start, Begins
    <2>2. Mapped'
      BY <2>1, ForgetMaps
    <2>3. Released' /\ Filed'
      BY <2>1 DEF Released, Filed, CaughtAt
    <2>4. QED
      BY <2>2, <2>3
  <1>5. CASE StartBeside
    <2>1. pc' = "arguments" /\ S!Forget
      BY <1>5 DEF StartBeside, Begins
    <2>2. Mapped'
      BY <2>1, ForgetMaps
    <2>3. socketFile' \notin {"own", "left"}
      BY <1>5 DEF StartBeside, Filed
    <2>4. "close" \in predecessor' => overlaps'
      BY <1>5 DEF StartBeside, Filed
    <2>5. Released' /\ Filed'
      BY <2>1, <2>3, <2>4 DEF Released, Filed, CaughtAt
    <2>6. QED
      BY <2>2, <2>5
  <1>6. CASE PredecessorCloses \/ PredecessorRemovesTempDir
    <2>1. /\ UNCHANGED <<pc, serving, overlaps, signalVars>> /\ predecessor' \subseteq predecessor
          /\ \/ socketFile' = socketFile
             \/ "close" \in predecessor /\ socketFile' = "none"
      BY <1>6 DEF PredecessorCloses, PredecessorRemovesTempDir, ghosts
    <2>2. Mapped'
      BY <2>1, SameMap DEF signalVars
    <2>3. Released' /\ Filed'
      BY <2>1 DEF Released, Filed, CaughtAt, signalVars
    <2>4. QED
      BY <2>2, <2>3
  <1>7. QED
    BY <1>1, <1>2, <1>3, <1>4, <1>5, <1>6

LEMMA IInvStep == IInv /\ [Next]_vars => IInv'
  <1> SUFFICES ASSUME IInv, [Next]_vars
               PROVE  IInv'
    OBVIOUS
  <1>1. CASE MainStep
    BY <1>1, StartUpStep, CleanUpStep DEF MainStep
  <1>2. CASE Next /\ ~MainStep
    BY <1>2, OutsideStep DEF Next
  <1>3. CASE UNCHANGED vars
    <2>1. Mapped'
      BY <1>3, SameMap DEF IInv, vars, signalVars
    <2>2. Released' /\ Filed'
      BY <1>3 DEF IInv, Released, Filed, CaughtAt, vars, files, ghosts, signalVars
    <2>3. QED
      BY <2>1, <2>2 DEF IInv
  <1>4. QED
    BY <1>1, <1>2, <1>3

-----------------------------------------------------------------------------

\* Whatever step fails and whenever the process is killed, no signal is written into a
\* socket that is not open, and every signal that is caught has one (mfsignalhandler.cpp).
THEOREM NoStraySignal == Spec => []MappedIsOpen
  <1>1. IInv => MappedIsOpen
    BY DEF IInv, Mapped
  <1>2. QED
    BY <1>1, IInvInit, IInvStep, PTL DEF Spec

\* No daemon that ends by SIGTERM or SIGINT, or because a step of its start other than
\* daemon() failed, leaves its socket file: for any number of signals at any time, of failing
\* steps and of daemons beside it (main).
THEOREM NoFileLeft == Spec => []ExitsClean
  <1>1. IInv => ExitsClean
    BY DEF IInv, Filed, ExitsClean
  <1>2. QED
    BY <1>1, IInvInit, IInvStep, PTL DEF Spec

\* A daemon in its event loop has the socket file, unless it was started beside one that
\* had not closed its server: however many crashed before it (MfServer::init).
THEOREM FileOfItsOwn == Spec => []Reachable
  <1>1. IInv => Reachable
    BY DEF IInv, Filed, Reachable
  <1>2. QED
    BY <1>1, IInvInit, IInvStep, PTL DEF Spec

=============================================================================
