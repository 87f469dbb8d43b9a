------------------------------- MODULE MfDaemon -------------------------------
(***************************************************************************)
(* The life of the daemon: main() from start to clean-up                   *)
(* (daemon/main.cpp), the server's socket file (daemon/mfserver.cpp,       *)
(* mfTempDir of lib/mfutil.cpp) and the signals that end it, through       *)
(* MfSignalHandler.  Any step may fail, the process may be killed at any   *)
(* moment, and a new daemon may be started when the last one is gone, while *)
(* it is busy with its clean-up, or even while it serves its clients.      *)
(*                                                                         *)
(* What the steps do inside is the matter of other modules: MfManager's    *)
(* init and destructor of MfPluginLoader, the event loop of MfBackendBase, *)
(* MfFeedbackCache and MfConnection, init() of the configuration of        *)
(* MfConfiguration.  QLocalServer is external: listen() fails on a name    *)
(* that is taken, close() removes the name, whoever has it by then.        *)
(***************************************************************************)
EXTENDS Integers, Sequences, Functions

CONSTANTS
    Handlers, SignalOf, MaxUnread, \* of MfSignalHandler
    sigTermHandler, sigIntHandler, \* the two of main()
    MaxFaults,                     \* bound: crashes and failing steps
    MaxSignals,                    \* bound: signals sent to a process
    MaxStarts                      \* bound: how often the daemon is started

ASSUME DaemonAssumption ==
    /\ Handlers = {sigTermHandler, sigIntHandler} /\ sigTermHandler # sigIntHandler
    /\ SignalOf \in Injection(Handlers, Range(SignalOf))
    /\ MaxUnread \in Nat /\ MaxFaults \in Nat /\ MaxSignals \in 0 .. MaxUnread /\ MaxStarts \in Nat

VARIABLES
    pc,          \* the step of main() that comes next; "off" when there is no process
    serving,     \* the process's QLocalServer listens
    socketFile,  \* /tmp/mfeedbackd/player.sock: whose it is, see SocketFiles
    tempDir,     \* /tmp/mfeedbackd exists
    predecessor, \* the daemon before this one: which of "close" and "rmdir" it has yet to do
    overlaps,    \* ghost: it had not closed its server when this one was started
    asked,       \* ghost: a signal that is caught was sent to this process
    faults, sent, starts,                                    \* ghosts, for the bounds
    disposition, signal2fd, fd, watchOver, notify, unread    \* of MfSignalHandler

S == INSTANCE MfSignalHandler

files == <<serving, socketFile, tempDir, predecessor>>
ghosts == <<overlaps, asked, faults, sent, starts>>
signalVars == <<disposition, signal2fd, fd, watchOver, notify, unread>>
vars == <<pc, files, ghosts, signalVars>>

\* main() and MfServer::init, in order.  "tempDir" and "listen" are the two times init()
\* looks at the file system, "fork" is mfDaemonize().
Steps == <<"arguments", "sigTerm", "sigInt", "configuration", "manager",
           "tempDir", "listen", "chmod", "fork", "exec",
           "deleteServer", "deleteManager", "removeTempDir",
           "releaseInt", "closeInt", "releaseTerm", "closeTerm", "return">>

At(step) == CHOOSE i \in DOMAIN Steps : Steps[i] = step
From(first, last) == {Steps[i] : i \in At(first) .. At(last)}

\* own: this process's; abandoned: of a daemon that crashed, or that could not fork;
\* left: of one that ended otherwise; old: of a predecessor that still serves.
SocketFiles == {"none", "own", "abandoned", "left", "old"}

Init ==
    /\ pc = "off" /\ serving = FALSE /\ socketFile = "none" /\ tempDir = FALSE
    /\ predecessor = {} /\ overlaps = FALSE
    /\ asked = FALSE /\ faults = 0 /\ sent = 0 /\ starts = 0
    /\ S!SignalInit

-----------------------------------------------------------------------------
(* main().                                                                 *)

\* Mutant: the manager is deleted before the server.
ThenManagerFirst(step) ==
    IF step = "exec" THEN "deleteManager"
    ELSE IF step = "deleteManager" THEN "deleteServer"
    ELSE IF step = "deleteServer" THEN "removeTempDir"
    ELSE Steps[At(step) + 1]

\* Mutant: the signals are given up before the clean-up.
ThenSignalsFirst(step) ==
    IF step = "exec" THEN "releaseInt"
    ELSE IF step = "closeTerm" THEN "deleteServer"
    ELSE IF step = "removeTempDir" THEN "return"
    ELSE Steps[At(step) + 1]

Then(step) == Steps[At(step) + 1]

Goto(step, next) == pc = step /\ pc' = next
Goes(step) == Goto(step, Then(step))

Fault == faults < MaxFaults /\ faults' = faults + 1 /\ UNCHANGED <<overlaps, asked, sent, starts>>

\* goto CLEANUP.
Fails(step) == Goto(step, "deleteServer") /\ Fault

\* The arguments may ask for the help text only: main() returns.
ProcessCmdLineArguments ==
    /\ Goes("arguments") \/ Goto("arguments", "releaseInt")
    /\ UNCHANGED <<files, ghosts, signalVars>>

InitHandler(step, h) ==
    /\ \/ Goes(step) /\ S!InitSucceeds(h) /\ UNCHANGED ghosts
       \/ Fails(step) /\ (S!NoSocket(h) \/ S!NoAction(h))
    /\ UNCHANGED files

\* configuration.init() and manager->init(), with the connect() calls between them.
InitPart(step) ==
    /\ \/ Goes(step) /\ UNCHANGED ghosts
       \/ Fails(step)
    /\ UNCHANGED <<files, signalVars>>

\* mfTempDir().
MakeTempDir ==
    /\ \/ Goes("tempDir") /\ tempDir' = TRUE /\ UNCHANGED ghosts
       \/ ~tempDir /\ Fails("tempDir") /\ UNCHANGED tempDir
    /\ UNCHANGED <<serving, socketFile, predecessor, signalVars>>

\* listen(), and again when removing the file has succeeded; when it fails after all, a file
\* that was there may still be.  The directory may have gone.
Listen ==
    /\ \/ /\ tempDir
          /\ Goes("listen")
          /\ serving' = TRUE /\ socketFile' = "own"
          /\ UNCHANGED ghosts
       \/ /\ ~tempDir
          /\ Goto("listen", "deleteServer")
          /\ UNCHANGED <<serving, socketFile, ghosts>>
       \/ /\ tempDir
          /\ Fails("listen")
          /\ socketFile' \in {"none", socketFile}
          /\ UNCHANGED serving
    /\ UNCHANGED <<tempDir, predecessor, signalVars>>

\* chmod(): the server listens already when it fails.
Chmod == InitPart("chmod")

\* mfDaemonize(), if at all: without a child main() returns, and neither the server nor
\* the manager is deleted.
Fork ==
    /\ \/ Goes("fork") /\ UNCHANGED <<socketFile, ghosts>>
       \/ /\ Goto("fork", "releaseInt")
          /\ socketFile' = IF socketFile = "own" THEN "abandoned" ELSE socketFile
          /\ Fault
    /\ UNCHANGED <<serving, tempDir, predecessor, signalVars>>

\* app.exec() ends when a handler has read a signal: signalReceived() calls quit().
Exec(h) ==
    /\ Goes("exec")
    /\ S!retranslate(h)
    /\ UNCHANGED <<files, ghosts>>

\* delete server: QLocalServer::close().
DeleteServer ==
    /\ Goes("deleteServer")
    /\ serving' = FALSE
    /\ socketFile' = IF serving THEN "none" ELSE socketFile
    /\ UNCHANGED <<tempDir, predecessor, ghosts, signalVars>>

DeleteManager == Goes("deleteManager") /\ UNCHANGED <<files, ghosts, signalVars>>

RemoveTempDir ==
    /\ Goes("removeTempDir")
    /\ tempDir' = (tempDir /\ socketFile # "none")
    /\ UNCHANGED <<serving, socketFile, predecessor, ghosts, signalVars>>

\* The handlers are destroyed in the order opposite to their declaration.
DestroyHandler(release, close, h) ==
    /\ \/ Goes(release) /\ S!Release(h)
       \/ Goes(close) /\ S!Close(h)
    /\ UNCHANGED <<files, ghosts>>

\* There is no process any more.
Ends(remains) ==
    /\ pc' = "off"
    /\ serving' = FALSE
    /\ socketFile' = IF socketFile = "own" THEN remains ELSE socketFile
    /\ S!Forget
    /\ UNCHANGED <<tempDir, predecessor>>

Return == pc = "return" /\ Ends("left") /\ UNCHANGED ghosts

-----------------------------------------------------------------------------
(* What comes from outside.                                                *)

Crash == pc # "off" /\ Ends("abandoned") /\ Fault

SendSignal == pc # "off" /\ sent < MaxSignals /\ sent' = sent + 1

\* SIGTERM or SIGINT while it is caught, and otherwise.
Caught(s) ==
    /\ SendSignal
    /\ S!onSignal(s)
    /\ asked' = TRUE
    /\ UNCHANGED <<pc, files, overlaps, faults, starts>>

Killed(s) ==
    /\ SendSignal
    /\ disposition[s] = "default"
    /\ Ends("left")
    /\ UNCHANGED <<overlaps, asked, faults, starts>>

Begins ==
    /\ starts < MaxStarts /\ starts' = starts + 1
    /\ pc' = "arguments"
    /\ serving' = FALSE /\ asked' = FALSE /\ sent' = 0
    /\ S!Forget
    /\ UNCHANGED <<tempDir, faults>>

Start ==
    /\ pc = "off"
    /\ Begins
    /\ overlaps' = (predecessor # {} /\ overlaps)
    /\ UNCHANGED <<socketFile, predecessor>>

\* Another daemon is started beside one that serves or cleans up, which becomes the
\* predecessor.
StartBeside ==
    /\ pc = "exec" \/ pc \in From("deleteManager", "return")
    /\ predecessor = {}
    /\ Begins
    /\ overlaps' = (pc = "exec")
    /\ predecessor' = {act \in {"close", "rmdir"} :
                        IF act = "close" THEN serving /\ pc \in {"exec", "deleteManager"}
                        ELSE pc \in {"exec", "deleteManager", "removeTempDir"}}
    /\ socketFile' = IF socketFile = "own" THEN "old" ELSE socketFile

PredecessorCloses ==
    /\ "close" \in predecessor
    /\ predecessor' = predecessor \ {"close"}
    /\ socketFile' = "none"
    /\ UNCHANGED <<pc, serving, tempDir, ghosts, signalVars>>

PredecessorRemovesTempDir ==
    /\ predecessor = {"rmdir"}
    /\ predecessor' = {}
    /\ tempDir' = (tempDir /\ socketFile # "none")
    /\ UNCHANGED <<pc, serving, socketFile, ghosts, signalVars>>

-----------------------------------------------------------------------------

MainStep ==
    \/ ProcessCmdLineArguments
    \/ InitHandler("sigTerm", sigTermHandler)
    \/ InitHandler("sigInt", sigIntHandler)
    \/ InitPart("configuration")
    \/ InitPart("manager")
    \/ MakeTempDir
    \/ Listen
    \/ Chmod
    \/ Fork
    \/ \E h \in Handlers : Exec(h)
    \/ DeleteServer
    \/ DeleteManager
    \/ RemoveTempDir
    \/ DestroyHandler("releaseInt", "closeInt", sigIntHandler)
    \/ DestroyHandler("releaseTerm", "closeTerm", sigTermHandler)
    \/ Return

Next ==
    \/ MainStep
    \/ Crash
    \/ \E s \in S!Signals : Caught(s)
    \/ \E s \in S!Signals : Killed(s)
    \/ Start
    \/ StartBeside
    \/ PredecessorCloses
    \/ PredecessorRemovesTempDir

Spec == Init /\ [][Next]_vars

\* main() goes on; that init() of the backends returns, for which ~MfManager waits, is
\* assumed here (MfBackendBase has it, and the fork() that breaks it).
FairSpec == Spec /\ WF_vars(MainStep)

-----------------------------------------------------------------------------
(* Properties.                                                             *)

\* In the event loop the daemon can be reached: the socket file is its own, whatever
\* crashed daemons have left in the way and however long the clean-up of the one before
\* goes on beside it (MfServer::init, the order of CLEANUP).
Reachable == pc = "exec" /\ ~overlaps => socketFile = "own"

\* A daemon that ends by SIGTERM or SIGINT, however early or late it comes and however
\* often, or because a step of its start other than daemon() failed, leaves no socket file
\* behind: the signals are caught before there is a file and until it is gone (main).  When
\* daemon() fails, main() returns past the clean-up and the file stays (main.cpp:107-109).
ExitsClean == socketFile # "left"

MappedIsOpen == S!MappedIsOpen

\* A signal that arrives at any moment after the handlers are in place ends the daemon:
\* one that comes before the event loop is kept in the socket until there is one.
SignalQuits ==
    asked /\ pc \in From("configuration", "exec") ~> pc \notin From("configuration", "exec")

=============================================================================
