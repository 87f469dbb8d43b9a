# A TLA+ model of the MeeGo input feedback daemon

`meegofeedbackd` plays short audio and vibra effects when a user touches the screen.
Applications connect to its local socket and name the feedbacks to play; plug-ins
("backends") play them on the hardware. The daemon is a Qt 4 program: one main thread
with an event loop, and the global `QThreadPool`, which runs the backends' `init()` and
the `play()` of the threaded ones. Paths below are relative to `src/src` unless they
begin with `src/`.

Source positions in comments of the modules (`mfconnection.cpp:71`) are file and line.

## 1. Inventory

| component | state it keeps | operations | talks to |
|---|---|---|---|
| **Backend base** `lib/mfbackendbase.cpp` | `currentState`, `failedConnections`, retry `timer`, `runConnection` and its watcher | `connecting`, `connectionDone`, `tryConnect`, `cleanup`, wrappers of load, unload, play | thread pool (futures), plug-in (virtual calls), manager (posted signals `lostConnection`, `establishedConnection`) |
| **Manager** `lib/mfmanager.cpp` | plug-in lists, current theme, volumes, cache `feedbackHandleHash` | `init`, plug-in loading, `loadTheme`, `setVolume`, `backendConnected`, `backendDisconnected`, cache operations, destructor | sessions (posted `themeChanged`), feedbacks (direct calls) |
| **Feedbacks and handles** `lib/mffeedback.cpp`, `lib/mffeedbackhandle.cpp` | one handle per backend; reference count, state | `load`, `unload`, `play`; `attach`, `detach` | cache, backends |
| **Sessions** `lib/mfsession.cpp` | feedbacks by name, the static `setupInProgress` | `setup` (retried every 10 ms), `themeChanged`, destructor | manager, feedbacks, connection (`setupReady`) |
| **Connections, server** `daemon/mfconnection.cpp`, `daemon/mfserver.cpp` | protocol state, socket, session | `readSocketData`, `setup`, `fetchPlaybackRequest`, `terminate`, `killMe`, `setupReady`; `onNewConnection` | clients (byte stream), session |
| **Theming** `lib/mfutil.cpp` | none: functions of the theme directories | inheritance chain, directory lists, name fallback | sessions |
| **Configuration** `daemon/mfconfiguration_p.cpp` | GConf client | theme and volumes at start, callbacks on change | manager (direct calls) |
| **Signal handler** `daemon/mfsignalhandler.cpp` | static map of signals to sockets | `init`, `onSignal`, `retranslate`, destructor | event loop (`quit`) |
| **Start-up** `daemon/main.cpp` | – | order of init, `daemon()`, event loop, clean-up | all |
| **Device state, command line, limits, log, source plug-ins, dummy plug-ins** | little or none | forwarding, parsing, output | – |

What is hard here, and what makes each part correct:

* **Reconnection.** A loss is reported on any thread, while `init()` runs, after it made
  the connection, or after it returned and before `connectionDone()` has read the result.
  Correct: a backend that is not usable always has a retry under way; it is connected
  again in the end; the manager hears of losses and connections in turn.
* **Cache and reference counts.** Sessions share handles; theme changes, losses,
  reconnections and disconnecting clients come in any order. Correct: counts are exact,
  cache and living handles are the same, nothing is played over a connection it was not
  uploaded on, and everybody ends up with the current theme.
* **Local event loops.** A backend may run an event loop inside `loadHandle()`
  (`daemon/mfconnection.cpp:43-45` reckons with it), so any slot can run inside any
  upload. Correct: nothing a suspended slot still uses is deleted or made stale.
* **The socket.** A byte stream read with `QDataStream`, in states that discard, play or
  ignore what arrives. Correct: requests are played in order and at most once, only for
  clients of a known version, only once the session is ready.
* **Plug-ins.** One library may be reached through several symbolic links, lack its
  hardware or be of the wrong class. Correct: a library in use is never unloaded, one that
  is not used always is, and the lists stay aligned and in order.
* **Start and stop.** `fork()` comes after the thread pool has been given work; the
  destructors wait for the pool; signals come at any time; a crash leaves the socket file,
  and a new daemon may start while the old one is still cleaning up. Correct: the daemon
  in its event loop can be reached, and it ends when told to, leaving no socket file.

`PROJECT.json` lists the single hazards with their lines.

## 2. Modules

| module | models | role |
|---|---|---|
| `MfBackendBase` | one backend's reconnection logic, with start-up, fork, quit and cleanup around it | component |
| `BackendSignals` | what a backend promises to the manager | abstract specification |
| `MfReconnection` | `MfBackendBase` composed with the handles of a session on that backend | composition |
| `MfFeedbackCache` | manager's cache and slots, feedbacks, handles, sessions | component; sees backends through the promise, so not after a loss that overtakes (below) |
| `MfConnection` | server, connections, session set-up as the connection sees it | component |
| `MfTheming` | `mfutil.cpp`: theme directories to lists of feedback directories; the session that loads them | component |
| `MfConfiguration` | GConf, `mfconfiguration_p.cpp`, the manager's theme and volume table, the volume `play()` chooses | component |
| `MfPluginLoader` | `MfManager::init` and `~MfManager`: the plug-ins of three directories | component |
| `MfSignalHandler` | the signal handlers: dispositions, the static map, the socket pairs | component, actions only |
| `MfDaemon` | `main()` from start to clean-up, the socket file, crashes, restarts; instantiates `MfSignalHandler` | composition |
| `…_proofs` | – | theorems about the module it is named after, section 4 |
| `MC…` | – | values of the constants for TLC |

The operators that a comment calls a *mutant* are not part of any specification: each is
a definition of the module as a plausible bug would make it, kept to show that the
property it is meant for can fail.

### MfBackendBase

State: the four members of `MfBackendBase`, one entry of `attempt` per run of `init()`
(`idle`, `running`, `linked` when it has the hardware connection, `accepted` or `refused`
when it has returned and its result is not read, `vanished` when `fork()` lost its
thread), the plug-in's connection `link`, the calls posted to the main thread `events`,
and where `main()` is.

`tryConnect`, `connecting`, `connectionDone` and `cleanup` are the functions of that
name. `LoadBackend` is the end of `MfManager::loadBackendPlugins`; `EnterEventLoop` is
`app.exec()`, preceded by `fork()` when `DaemonMode`. `EmitLostFromThread` and
`EmitLostFromMain` are `emit lostConnection()`: Qt posts both slots when the emitter is
on another thread, and calls `tryConnect()` at once on the main thread (the manager's
slot is always posted). `Discard` is what `QFutureWatcher::setFuture()` does to the
finished event of the future it leaves. The timer holds the wait it was started with and
fires at any time: real time is abstracted, so every order of waits and results is
covered.

The plug-in is external. `Threaded` says on which thread `play()` runs, `Callback`
whether a loss may also be noticed outside `play()`, `InitSetsState` whether `init()` may
itself set `Connected`, as `tutorial.dox:51` (in `src/doc/src`) asks, or always leaves it
to `connectionDone()` as the dummy plug-ins do. What may happen need not: with both TRUE
the behaviours are those of every kind of plug-in, and the runs are made that way.

A loss *overtakes* when it breaks a connection that is still being made, or one that is
announced while the retry of an earlier loss is still to come. `connectionDone()` then
writes Connected over the loss, and until the retry much of what the code is careful about
does not hold (section 3). The ghost `overtaken` counts these losses. `ConnectedIsQuiet`,
the refinement and the properties of the handles say what holds until one comes;
`OneInitAtATime` says what each of them can cost; `NeverStranded`, `LossNotForgotten`,
`BackoffAtLeast` and all liveness properties hold whether they come or not.

Bounds: `MaxLosses` on broken connections, `MaxFailed` on failures in a row, one element
of `Attempts` per coexisting `init()`.

### MfReconnection

Adds to `MfBackendBase` one client with a session and one feedback: whether the session is
there, whether the backend's handle of the feedback is alive (`loaded`), and whether the
manager has posted `themeChanged()` to the session (`reloadPosted`). `Load` is
`MfFeedback::load` for a directory that may be cached, `LoadAnother` for another theme's.
`UnloadHandles` and `LoadHandles` are what the manager's two slots do; `PlayOnBroken` needs
a handle, as `play()` does, `LoseByCallback` is a loss the plug-in notices otherwise;
`DeleteServer` and `DeleteManager` are the clean-up.
`ahead` is the one piece of time that matters here: a wait is half a second or more, so
the calls posted when it began are served before it is over (`Retry`). Without that the
retry could overtake the flush of the handles, and `NoHandleDuringInit` would fail: the
code keeps this promise of the plug-in interface by the length of its waits alone.

### MfFeedbackCache

State: `heap` holds the live `MfFeedbackHandle` objects by address (cache key, count,
state, and as a ghost the backend connection the sample was uploaded on);
`feedbackHandleHash` the cache; `feedbackHandles` the `QPointer` of each session,
feedback and backend; `stack` the slots that have not returned. `MfFeedback::load` is
one action per backend and feedback (`LoadFromCache`, or `BeginUpload` and `EndUpload`
or `UploadFails`), because the only point where anything else can run on the main thread
is the upload. With `Nested = FALSE` the slots are still split this way, but only
other threads (`Lose`) can act in between. `Delete` is the destructor of a session with
its feedbacks; `killMe` holds it back during `setup()`. Directory lists and the content
of directories are constants. Bounds: `MaxEpoch`, `MaxChanges`, `MaxDepth`, and the
number of `Handles` (enough that the heap is never full in the runs).

### MfConnection

A client says its protocol version (unless it is older), its name, then requests; each
string is two pieces on the wire. `split` says whether the reads of this client's data can end between the two pieces.
`ReadString` is `QDataStream >>`: a whole string, or an error that eats the rest.
`Playback`, `DiscardAll` and `ClientSetup` are the three branches of `readSocketData`.
`killMe` deletes or tries again in 10 ms; `Delete` is the deferred deletion.
`BeginSetup`/`EndSetup` bracket `MfSession::setup`.

### MfTheming

State: the theme directories on disk (`tree`), the manager's current theme, the posted
theme changes, and for each feedback of a session the list it was last loaded from
(`feedbackHash`). `getFeedbackDirsFromPath`, `getFeedbackDirsOfATheme`,
`getThemeInheritanceChain`, `findFeedbackFallbackPaths` and `getFeedbackNames` are
operators of the names they have in the code. `BaseDirLists`, `AddDirs` and
`FeedbackDirLists` are the parts of `getFeedbackDirLists`: the lists of the base theme,
the step that merges the directories of one more theme into them, and that step for each
theme of the lineage. What the code builds in a loop is a recursive function over the
steps of the loop, so that it can be proved about. A directory is theme, kind (common or of the application) and
name; which names are ill-formed and which is the name before the dash are constants. A
chain that is longer than there are themes stands for the recursion that does not end.
`Nearest` and `Best` say what the lists should be without merging anything: all
directories of the name along the lineage, ranked. One session is enough, because the
lists depend on nothing a session does. Loading itself is atomic here; that it is not is
the matter of `MfFeedbackCache`.

### MfConfiguration

State: the keys in GConf, the changes announced and not served (`notifications`, each with
the value of its time), what has been read of the volumes so far, and the two tables of
the manager. `ConfigurationInit` subscribes, `getTheme` and `getVolumes` read (one
directory per step, each may fail), `ManagerInit` hands over to the event loop, which
serves the callbacks (`ServeNotification`). Other programs write between any two of these
steps. `VolumeId` is what `emitVolumeChanged` makes of a path. Names are abstracted to
the number behind "priority". The client may be missing (`gconfClient`).

### MfPluginLoader

State: the installation (file names with their libraries, per directory), the hardware,
the two pairs of lists, the pool's size and the instances whose `init()` is queued or
running. `QPluginLoader` is external: `loaders` counts the loaders that hold a library,
and an instance is a library with the number of its instantiation (`born`), so that one
that was deleted and made again is told from the first. The actions of a file
are the ways through the bodies of `loadBackendPlugins` and `loadSourcePlugins`, with
`Failed` for what follows the label FAILED; `NonThreadedDone`, `ThreadedDone` and
`SourcesDone` are the code of `init()` between the directories; the rest is `~MfManager`,
the pool and the hardware (bound: `MaxPlugged`).

### MfSignalHandler and MfDaemon

`MfSignalHandler` has the actions of the handler objects: `init()` with its two failures,
what the kernel calls (`onSignal`), the notifier's `retranslate`, and the two halves of the
destructor. `MfDaemon` is `main()`, one step after the other (`Steps`), each of which may
fail; the socket file with its owner, and the temporary directory; `predecessor`, what a
daemon that was overtaken has yet to do to the files. `Crash` may happen anywhere, a
signal is sent at any moment (`Caught`, `Killed`), and `StartBeside` starts a daemon beside
one that serves or cleans up. Bounds: `MaxFaults`, `MaxSignals`, `MaxStarts`, and
`MaxUnread` for the room in a socket, which `MaxSignals` does not exceed.

## 3. Runs

Passing runs:

| run | instance | shows |
|---|---|---|
| `reload` | threaded play, any kind of plug-in (losses noticed in `play()` or by a thread of its own, `init()` that may set the state), 3 losses, 3 coexisting attempts, 7 failures (one past the end of the list of waits), a session that comes and goes | until a loss overtakes: state, link, timer and pool in step (`ConnectedIsQuiet`), the refinement `PromiseKept` of `BackendSignals`, `FlushedWhileLost`, `NoHandleDuringInit`; in any case `OneInitAtATime` and, under fairness, `HandlesReturn` |
| `backend_live` | losses at any time, `init()` may set the state, 3 coexisting attempts, no fork | `NeverStranded`, `LossNotForgotten`, `BackoffAtLeast`; under fairness `Reconnects`, `QuitCompletes` |
| `cache_atomic` | 2 sessions, 2 backends (one reconnects), a theme change | `RefCountExact`, `CacheExact`, `PlaysFreshHandle`, `ThemeSettled` |
| `cache_nested` | 2 sessions, uploads with local event loops | `OneSetupAtATime`, `SetupCompletes` |
| `connection` | 2 clients of each kind with local event loops, the first one's data cut anywhere, two requests | `PlayedInOrder`, `SessionInUse`, `UnknownNeverServed`, `WholeNeverTerminated`; under fairness `GoneIsDeleted`, `LegacyServed` |
| `theming` | 2,820 trees of 3 themes, 4 names (one ill-formed, one with a dash), 2 theme changes, a package update | `ListsCurrent`, `NamesAligned`, `StopsForCause` |
| `configuration` | 2 backends, 3 categories and two directories that are none, 2 writes at any time, restarts | `PlaysAsConfigured`, `ThemeFollowsStore` |
| `plugins` | 1,024 combinations of installations and hardware, symbolic links within and across directories, one change of the hardware | `PluginsAlive`, `LoadedInOrder` |
| `daemon` | 3 starts, 2 crashes or failing steps, 2 signals per process | `Reachable`, `ExitsClean`, `MappedIsOpen`; under fairness `SignalQuits` |

Runs whose property the code violates, each a statement of a comment in the source:

| run | property | what happens |
|---|---|---|
| `backend_fork` | `QuitCompletes` (`mfbackendbase.h:206`) | with `--daemon`, `cleanup()` waits for a thread that `fork()` did not copy |
| `cache_nested_delete` | `SessionOutlivesSlot` (`mfconnection.cpp:43-45`) | `killMe` guards `setup()`, not `themeChanged()` |
| `connection_replay` | `WaitingIsDiscarded` (`mfconnection.cpp:71-72`) | requests that came with the hello stay in the socket and are played later |

The first needs `--daemon`, the second a backend with a local event loop.

Other disagreements seen while modelling and not given a run:

* A loss that overtakes the announcement of its connection takes a plug-in that notices
  losses outside `play()`, or one whose `init()` sets the state, as `tutorial.dox:51` asks,
  so that `play()` can find the connection broken before `init()` has returned or before
  `connectionDone()` has run. Then the state is Connected on a dead link until the retry
  (`mfbackendbase.h:38`); a reload may upload handles in this gap, which survive into the
  connection that follows, and `init()` may run beside them (`tutorial.dox:56`); a second
  `init()` may run beside the first, and `cleanup()` waits for the newer only
  (`mfbackendbase.h:206-207`); and the manager hears of the connection after its loss.
  The properties of `reload` name this case (`overtaken`); the dummy plug-ins do not
  bring it about.
* With `--daemon`, a backend whose `init()` was running when the process forked is never
  served again: it stays Connecting, and nothing retries (`main.cpp:107`). `NeverStranded`
  names this case (`LostByFork`).
* `load()` keeps a raw pointer to the old handle over `loadHandle()`; a loss served by a
  local event loop in the upload deletes that handle, and `load()` dereferences it
  (`mffeedback.cpp:124-142`, against the comment at `mffeedback.cpp:72-73`).
* The constructors of the dummy plug-ins set the state to Connected, where
  `src/doc/src/tutorial.dox:51` says "disconnected by default".
* When `daemon()` cannot fork, `main()` returns without its clean-up and leaves the socket
  file (`main.cpp:107-109`).
* A daemon that is started beside one that serves takes the socket file over
  (`mfserver.cpp:51-56`); the first cannot be reached any more, and when it ends, it
  removes the file of the second. `Reachable` leaves these overlaps out.
* A `listen()` that fails may leave the old socket file or may have removed it
  (`mfserver.cpp:51-61`); `Listen` allows both.
* A daemon whose predecessor removes the temporary directory between `mfTempDir()` and
  `listen()` does not start (`main.cpp:126-131`).
* The signal handler searches a `QMap`, allocates and logs (`mfsignalhandler.cpp:127-136`);
  on a thread of the pool it would do so beside a change of the map that the main thread
  makes with only its own signals blocked.

In `MfConfiguration`, a feedback
named `priority-1_x` is well-formed (`mfutil.cpp:307-310`) and makes `play()` index the
volume table with -1; it breaks `PlaysAsConfigured`. So does a key below `priority0` or
`priority01`, which a running daemon takes for another category's and a restarted one does
not read. A volume that is unset at run time stays in the table until the restart. Themes
that inherit each other in a circle end the daemon in `getThemeInheritanceChain`
(`mfutil.cpp:372`), which `StopsForCause` accepts as a cause. Further: `failedConnections` counts
losses too (`mfbackendbase.h:275` says failed attempts), the first wait is `list[1]`
(`mfbackendbase.h:262` says `list[0]`), a version 1 client whose hello arrives in two reads
is doomed (`mfconnection.cpp:152` speaks of unknown versions), and `ThemeSettled` does not
hold when uploads run local event loops (a theme change served inside a `setup()` is undone
by the outer slot).

**Bounds.** Losses, failures, theme changes and connections of a backend are bounded
because nothing in the code bounds them. Three losses and three attempts allow a loss
during an attempt that was itself started by a loss during an attempt; seven failures
reach the end of the list of waits. Two sessions share a handle and race for
`setupInProgress`; two backends show that a loss flushes its own handles only; two
requests show order. The directory lists make themes share the base directory, override
it and silence it.

**Fairness.** Weak fairness of the event loop (posted calls, timers, sockets, deferred
deletions), of the slots in progress and of `init()` returning: Qt serves its queues in
order and the plug-ins' functions return. Strong fairness only where a 10 ms retry
competes for `setupInProgress`, and for an upload to end while its local loop is busy.
Losses, clients and the user are never forced to act. `InitFails` is not fair on its own,
and bounded failures mean the hardware answers in the end.

The trees of `theming` combine base contents with and without overriding, missing and
additional application feedbacks, every small content of a custom theme, three of another,
and four inheritances (chain, side by side, broken, circle), with the custom or the base
theme missing in some. Two writes are what it takes for a change between a read and the
event loop to be followed by another of the same key; the proofs cover any number.

The installations of `plugins` give each directory the file combinations that its code
tells apart: up to three and two links to the two backends, enough for a library to come
twice in one directory and again in the next. Two crashes and three starts let the second daemon meet the first one's file
and crash itself; two signals come to the same handler or to both.

Of `MfDaemon` only `main()` is fair: nobody has to send a signal or start a daemon. That
`init()` of the backends returns, for which the destructor waits, is an assumption of this
module and the matter of `MfBackendBase`. `FairnessWithHandles` of `MfReconnection` adds
the posted `themeChanged()` and the steps of the clean-up to that of `MfBackendBase`.

Deadlock is checked in every run but `backend_fork`, where the process really hangs,
`theming`, where it may abort or run out of theme changes, and `plugins` and `daemon`,
where the process ends.

## 4. Proofs

Every theorem holds for every value of the constants that the module's ASSUME admits,
except where a further assumption is named: `Growing`, `~Nested`, `RegularNames`. Each of
those leaves out a case in which the property is known to fail (section 3), or in the case
of `Growing` a list of waits that the constructor does not make. Cases that a property
itself names (a loss that overtakes, an `init()` lost by `fork()`) are in section 3 too. A
module proves each of its invariants from one that is inductive: it holds at first, each action preserves it (one lemma or step per action), and
it implies the property.

**`MfBackendBase_proofs`** (any set of attempts, any list of positive waits, any kind of
plug-in, with and without fork).

* `TypeCorrect`: `Spec => []TypeOK`.
* `Stranded`, `Forgotten`: `NeverStranded` and `LossNotForgotten`. `NeverStranded` is not
  inductive: an accepted result is about to make a dead link look Connected, and nothing
  in it says that a retry is armed by then. `IInv` adds `LossNotForgotten`, and `Watching`:
  while the backend is served, the watched future is an attempt that is running, or whose
  finished event is posted, or that has been read. A loss posts `tryConnect`, serving it
  starts the timer or finds it running, the timer starts an attempt, the attempt posts its
  result. In `IInv` stands `Pending`, which counts an `init()` lost by `fork()` as one that
  runs; `NeverStranded` makes no claim once one is lost.
* `Backoff`: `BackoffAtLeast`, for a list of waits that does not decrease (`Growing`), as
  the constructor's. The wait in progress was started for some number of failures that is
  no smaller than the number now, and larger as long as the watched attempt may still be
  refused (`Counted`); without the second half a refusal would leave too short a wait.
* `ConnectedQuiet`: `ConnectedIsQuiet`. Until a loss overtakes, the parts of the machinery
  take turns: a wait, a posted `tryConnect`, an `init()` or its posted result, or a usable
  backend, never two of them (`Turn`). A step either keeps the turn or counts a loss that
  overtook, and no step takes one back (`OvertakenGrows`).
* `OneInit`: `OneInitAtATime`. A wait, a posted `tryConnect` and an attempt that is not over
  are tokens: each leads to the next, and there is never more than one of them more than
  losses that overtook (`Tokens`). The attempts left behind are at most as many as those
  losses, because the newest one is a token itself.

**`MfReconnection_proofs`** (the same, with any behaviour of the session).

* `BackendKept`: `SpecWithHandles => Spec`, so that the theorems above hold in the
  composition.
* `Flushed`, `HandlesApart`: `FlushedWhileLost` and `NoHandleDuringInit`, from `Turn` and
  what ties the handles to it: a handle is alive on a usable backend, or the loss is posted
  (`HandleOrFlush`); a loss is posted before the retry that it starts (`FlushFirst`), and
  is among the calls that are served before the wait is over (`Covered`).
  Both are of the time until a loss overtakes.
* `PromiseIsKept`: `SpecWithHandles => PromiseKept`, the refinement of `BackendSignals`.
  `Told` says how the queue maps to the abstract inbox: at most one loss and one
  connection are posted, the connection first, and which of them are there follows from
  the state. Initial states map to initial states, each step to a step or a stutter. A
  loss that overtakes maps to `Overtake`, which needs a connection that is not announced
  (`OvertakesNoAnnouncement`); after it every step maps to `NoPromise`.

**`MfFeedbackCache_proofs`** (any sessions, names, backends, themes and directories, any
number of losses, reconnections and theme changes).

* `TypeCorrect`, `SetupsApart`: `TypeOK` and `OneSetupAtATime`, with or without local event
  loops. `IInv` adds that the flag is set while a session is in `setup()` and that only its
  slot is one (`Locked`), and that each slot stands at a feedback and directory that exist
  (`FrameRight`).
* `CountsRight`, `CacheRight`, `PlaysFresh`: `RefCountExact`, `CacheExact` and
  `PlaysFreshHandle` for `~Nested`. `AInv` adds to `IInv` that a feedback's pointer is to a
  living handle of its own backend (`Pointed`), that the cache leads to each handle by the
  handle's own key (`Cache`), that a handle's connection is the present one or its loss is
  posted (`Fresh`), and that a slot that is uploading still replaces the handle its feedback
  has, for a key that is not in the cache (`Atomic`). The last is what a local event
  loop breaks.
* `ThemeSettles`: `ThemeSettled` for `~Nested`. The property speaks of moments when nothing
  is posted; `TInv` says what holds before. A feedback on a connected backend has its
  handle, or something is to come that gives it one: the news of the connection, a
  `themeChanged()` posted to the session, or the rest of the slot that runs (`Reloads`).
  That would be of no use if what comes were out of date: the last theme change posted to
  a session is to the current theme, and so is the slot's if none is posted (`Newest`).
  `Inserted` says that `setup()` leaves out no feedback, `Sampled` that a backend that
  stayed connected all through a slot gives the best directory, `Reported` that a loss
  is served before the backend is connected again. `TInv` was checked by TLC on the
  instance of `cache_atomic` first.

**`MfConnection_proofs`** (any connections, any requests, split or whole strings, local
event loops or not). `TypeCorrect`; `InOrder`, `SessionStays`, `UnknownIsRefused` and
`WholeStays` prove `PlayedInOrder`, `SessionInUse`, `UnknownNeverServed` and
`WholeNeverTerminated`. The core of `IInv` is `Stream`: the pieces in the wire and in the
buffer are always the last ones the client wrote, without a gap (`Carries`), so that what
was consumed is a beginning of what it said. `Stage` ties states, sessions and timers to
each other, `Replayed` the requests played to the pieces consumed.

**`MfDaemon_proofs`** (any number of starts, crashes, failing steps and signals).
`NoStraySignal` proves `MappedIsOpen`: the map leads from a signal to the handler that
still watches over it (`Mapped`), and forgets it before its sockets are closed (`Released`).
`NoFileLeft` and `FileOfItsOwn` prove `ExitsClean`, which leaves out `daemon()` failing
(section 3), and `Reachable`: a file of this process
has a server that will remove it and signals that are caught until then, and a predecessor
with its server still open has been overlapped (`Filed`).

**`MfPluginLoader_proofs`** (any libraries, files, links and changes of the hardware).
`TypeCorrect`; `Alives` proves `PluginsAlive`. The types alone are not inductive: the lists
shrink from the end, next to their lists of loaders. `IInv` says that a library in use has
one loader and lives as the instance that a list holds (`Shared`), that each list has its
own kind of plug-in, each once (`Sorted`), and that loaders and plug-ins are side by side
(`Aligned`). `Ordered` proves `LoadedInOrder`: as long as the hardware has not changed, the
loaders are those of the files read so far, each where its first link is (`OrderInv`). A
file that is skipped changes no first link, because its library is in the list or of no
use; the place of a library is a number of first links, so a new one comes at the end.

**`MfConfiguration_proofs`** (any backends, directories, values, themes, number of writes).

* `TypeCorrect`: among the rest, the table has a row for every priority as long as the
  event loop runs.
* `ThemeFollows`: `ThemeFollowsStore`. The newest change waiting for a key is to the value
  the key has (`QueueCurrent`), and if none waits the theme read or heard of is the stored
  one (`ThemeKnown`).
* `Configured`: `PlaysAsConfigured`, for `RegularNames` (no directory that is not a
  category's has a category's number, no negative numbers in feedback names; see the
  disagreements above). `Inv` adds that a key for which no change waits has its value in
  the table or, during the start, in what has been read (`VolumeKnown`). A write makes its
  key wait; a read makes the table right, waiting or not; serving the last change of a
  key writes its present value, and serving any other change writes to another row or
  column because different directories have different ids (`IdOfDir`).

**`MfTheming_proofs`** (any theme tree over finitely many themes and directory names, any
update of it, any number of theme changes). The lists are made by recursive functions, so
the proofs are by induction: a claim about all numbers up to some bound holds because the
least number that lacks it would have one before it (`Least`, `Induction`, `Recursion`).

* The directories of a theme are those on disk, each once, in the order of the directory
  listing (`ListingIs`, `DirsOfATheme`, `DirsOfBase`). The chain of a theme is its lineage
  down to the base theme (`ChainIsLineage`, `LineageIsChain`) unless a theme of it is
  missing; a chain longer than there are themes has one of them twice, so the themes
  inherit each other in a circle (`EndlessIsCircle`, by the pigeonhole principle).
* Merging a theme into the lists keeps each list complete for the themes merged so far and
  in the order of nearness (`AddDirsMerges`). Only one list has these elements in that
  order (`OrderedIsNearest`), so what comes out is what `Nearest` and `Best` ask for
  (`ListsAreBest`).
* `TypeCorrect`, `SessionCurrent`, `ListsAligned`, `OnlyForCause`: `TypeOK`, `ListsCurrent`,
  `NamesAligned` and `StopsForCause`. `SessionInv` adds that the last theme change posted
  is to the current theme and that a session with none posted was loaded from it.

Only model-checked: all liveness, which is out of the prover's reach, and the properties
the code violates.

## 5. Not modelled

The latency check of `play()` (a difference of real times). GConf and the Qt classes are
external. Command line, log, environment limits and device state: parsing, output and
forwarding, no state that the rest depends on. The bodies of the dummy plug-ins beyond how
they report a loss. Real time: waits fire in any order, except that a wait outlasts the
calls posted before it in `MfReconnection`. Threads in the signal handler: a signal is
taken by the main thread. A full socket in `onSignal`.
Undefined behaviour after a dangling access is not continued: the model stops giving the
slot any effect and the property says that the access would happen.

## 6. Plan

1. `MfBackendBase`, `BackendSignals` with proofs (done).
2. `MfFeedbackCache`, `MfConnection` with proofs (done).
3. `MfTheming`, `MfConfiguration` with proofs (done).
4. `MfReconnection`, `MfPluginLoader`, `MfSignalHandler`, `MfDaemon` with proofs (done).
5. Every safety property of the passing runs is stated by a theorem; what remains with
   TLC is liveness. A new safety property comes with its theorem.
