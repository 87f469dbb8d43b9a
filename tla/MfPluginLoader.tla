---------------------------- MODULE MfPluginLoader ----------------------------
(***************************************************************************)
(* The plug-ins of the daemon: MfManager::init (src/lib/mfmanager.cpp)     *)
(* loads the backends of two directories and the sources of a third, and   *)
(* ~MfManager unloads them.  The main thread does that one file at a time; *)
(* the init() of the backends it has loaded runs in the thread pool        *)
(* meanwhile.                                                              *)
(*                                                                         *)
(* QPluginLoader is external: the loaders that reach one library through   *)
(* several symbolic links share its instance, which is made for the first  *)
(* of them and deleted with the last one that unloads.  The instance is    *)
(* known by the library and by how often the library was instantiated.     *)
(* Volumes and device state, which init() hands over last, change nothing  *)
(* here; retries of a connection are the matter of MfBackendBase.          *)
(***************************************************************************)
EXTENDS Integers, Sequences, FiniteSets, Functions

CONSTANTS
    Libs,             \* the libraries
    Kind,             \* library -> what instance() gives: backend, source, foreign, broken
    Installations,    \* directory -> its files in the order of their names, several of them
    IdealThreadCount, \* QThreadPool's own maxThreadCount
    MaxPlugged        \* bound: how often hardware comes or goes

Directories == {"nonThreaded", "threaded", "sources"}
Files == [named : BOOLEAN, lib : Libs]   \* named: the file name has the pattern

ASSUME LoaderAssumption ==
    /\ Kind \in [Libs -> {"backend", "source", "foreign", "broken"}]
    /\ \A i \in Installations : DOMAIN i = Directories /\ \A d \in Directories : i[d] \in Seq(Files)
    /\ IdealThreadCount \in Nat \ {0} /\ MaxPlugged \in Nat

VARIABLES
    directory,        \* the installation this daemon finds; a missing directory is empty
    hardware,         \* the backends whose detectHardware() is true
    phase,            \* the directory init() is in, or what comes after
    pos,              \* the next file of the directory, or the next plug-in to unload
    loaders,          \* library -> how many QPluginLoaders have it loaded
    born,             \* library -> how often it was instantiated
    backendList, backendLoaderList, sourceList, sourceLoaderList,
    nonThreadedBackendCount,
    maxThreadCount,   \* of the global thread pool
    initializing,     \* the instances whose init() is queued or runs in the pool
    plugged           \* ghost: changes of the hardware so far, for MaxPlugged

lists == <<backendList, backendLoaderList, sourceList, sourceLoaderList>>
libraries == <<loaders, born>>
threads == <<nonThreadedBackendCount, maxThreadCount>>
vars == <<directory, hardware, phase, pos, libraries, lists, threads, initializing, plugged>>

Instances == Libs \X (Nat \ {0})
Backends == {l \in Libs : Kind[l] = "backend"}

TypeOK ==
    /\ directory \in Installations
    /\ hardware \subseteq Backends
    /\ phase \in Directories \cup {"running", "failed", "unloadSources", "unloadBackends", "gone"}
    /\ pos \in Nat \ {0}
    /\ loaders \in [Libs -> Nat] /\ born \in [Libs -> Nat]
    /\ backendList \in Seq(Instances) /\ backendLoaderList \in Seq(Libs)
    /\ sourceList \in Seq(Instances) /\ sourceLoaderList \in Seq(Libs)
    /\ nonThreadedBackendCount \in 0 .. Len(backendList) \/ phase = "gone"
    /\ maxThreadCount \in Nat \ {0}
    /\ initializing \subseteq Instances
    /\ plugged \in Nat

Init ==
    /\ directory \in Installations
    /\ hardware \in SUBSET Backends
    /\ phase = "nonThreaded" /\ pos = 1
    /\ loaders = [l \in Libs |-> 0] /\ born = [l \in Libs |-> 0]
    /\ backendList = <<>> /\ backendLoaderList = <<>>
    /\ sourceList = <<>> /\ sourceLoaderList = <<>>
    /\ nonThreadedBackendCount = 0
    /\ maxThreadCount = IdealThreadCount
    /\ initializing = {}
    /\ plugged = 0

-----------------------------------------------------------------------------
(* One file.                                                               *)

InDirectory == phase \in Directories /\ pos <= Len(directory[phase])
File == directory[phase][pos]
lib == File.lib

\* What instance() returns for this file: the living instance, or a new one.
Born == IF loaders[lib] = 0 THEN born[lib] + 1 ELSE born[lib]
Instance == <<lib, Born>>

\* qobject_cast to the class the directory is for.
RightClass == Kind[lib] = (IF phase = "sources" THEN "source" ELSE "backend")
List == IF phase = "sources" THEN sourceList ELSE backendList

Reached == InDirectory /\ File.named /\ Kind[lib] # "broken"

\* QPluginLoader::unload() for one of the n loaders of a library.
Unload(n) == n - 1

\* Another name, or a library that gives no instance.
Skip ==
    /\ InDirectory
    /\ ~File.named \/ Kind[lib] = "broken"
    /\ pos' = pos + 1
    /\ UNCHANGED <<directory, hardware, phase, libraries, lists, threads, initializing, plugged>>

\* Mutant: the loader is deleted without unload().
FailedWithoutUnload ==
    /\ pos' = pos + 1
    /\ loaders' = [loaders EXCEPT ![lib] = @ + 1]
    /\ born' = [born EXCEPT ![lib] = Born]
    /\ UNCHANGED <<directory, hardware, phase, lists, threads, initializing, plugged>>

\* FAILED: whatever instance() made, the loader gives up its share of it.
Failed ==
    /\ pos' = pos + 1
    /\ loaders' = [loaders EXCEPT ![lib] = Unload(@ + 1)]
    /\ born' = [born EXCEPT ![lib] = Born]
    /\ UNCHANGED <<directory, hardware, phase, lists, threads, initializing, plugged>>

WrongClass == Reached /\ ~RightClass /\ Failed
NoHardware == Reached /\ RightClass /\ phase # "sources" /\ lib \notin hardware /\ Failed

\* Mutant: the hardware is not asked for.
DetectedAnyway == Reached /\ RightClass

\* Nothing stands against the plug-in, unless it is in the list already.
Detected == Reached /\ RightClass /\ (phase # "sources" => lib \in hardware)

AlreadyLoaded == Detected /\ Instance \in Range(List) /\ Failed

Keep ==
    /\ pos' = pos + 1
    /\ loaders' = [loaders EXCEPT ![lib] = @ + 1]
    /\ born' = [born EXCEPT ![lib] = Born]
    /\ UNCHANGED <<directory, hardware, phase, threads, plugged>>

\* connecting() hands init() to the pool.
LoadBackend ==
    /\ Detected /\ phase # "sources" /\ Instance \notin Range(List)
    /\ initializing' = initializing \cup {Instance}
    /\ backendList' = Append(backendList, Instance)
    /\ backendLoaderList' = Append(backendLoaderList, lib)
    /\ UNCHANGED <<sourceList, sourceLoaderList>>
    /\ Keep

\* A source is initialized on the spot.
LoadSource ==
    /\ Detected /\ phase = "sources" /\ Instance \notin Range(List)
    /\ sourceList' = Append(sourceList, Instance)
    /\ sourceLoaderList' = Append(sourceLoaderList, lib)
    /\ UNCHANGED <<backendList, backendLoaderList, initializing>>
    /\ Keep

SourceRefused == Detected /\ phase = "sources" /\ Instance \notin Range(List) /\ Failed

-----------------------------------------------------------------------------
(* MfManager::init between the directories.                                *)

EndOfDirectory == phase \in Directories /\ pos > Len(directory[phase])

\* Mutant: the links are counted, not the backends.
CountLinks ==
    /\ EndOfDirectory /\ phase = "nonThreaded"
    /\ phase' = "threaded" /\ pos' = 1
    /\ nonThreadedBackendCount' = Len(directory[phase])
    /\ UNCHANGED <<directory, hardware, libraries, lists, maxThreadCount, initializing, plugged>>

NonThreadedDone ==
    /\ EndOfDirectory /\ phase = "nonThreaded"
    /\ phase' = "threaded" /\ pos' = 1
    /\ nonThreadedBackendCount' = Len(backendList)
    /\ UNCHANGED <<directory, hardware, libraries, lists, maxThreadCount, initializing, plugged>>

\* Without a backend init() fails, and main() goes to its clean-up.
ThreadedDone ==
    /\ EndOfDirectory /\ phase = "threaded"
    /\ phase' = IF backendList = <<>> THEN "failed" ELSE "sources"
    /\ pos' = 1
    /\ UNCHANGED <<directory, hardware, libraries, lists, threads, initializing, plugged>>

\* qBound(0, threaded backends, maxThreadedBackendCount).
TargetThreadCount ==
    LET threaded == Len(backendList) - nonThreadedBackendCount
    IN  IF threaded > 2 THEN 2 ELSE threaded

SourcesDone ==
    /\ EndOfDirectory /\ phase = "sources"
    /\ phase' = "running" /\ pos' = 1
    /\ maxThreadCount' =
         IF maxThreadCount < TargetThreadCount THEN TargetThreadCount ELSE maxThreadCount
    /\ UNCHANGED <<directory, hardware, libraries, lists, nonThreadedBackendCount, initializing,
                   plugged>>

-----------------------------------------------------------------------------
(* ~MfManager.                                                             *)

BeginUnload ==
    /\ phase \in {"running", "failed"}
    /\ phase' = "unloadSources" /\ pos' = 1
    /\ UNCHANGED <<directory, hardware, libraries, lists, threads, initializing, plugged>>

Release(l) == loaders' = [loaders EXCEPT ![l] = Unload(@)]

UnloadSource ==
    /\ phase = "unloadSources" /\ pos <= Len(sourceLoaderList)
    /\ Release(sourceLoaderList[pos])
    /\ pos' = pos + 1
    /\ UNCHANGED <<directory, hardware, phase, born, lists, threads, initializing, plugged>>

SourcesUnloaded ==
    /\ phase = "unloadSources" /\ pos > Len(sourceLoaderList)
    /\ phase' = "unloadBackends" /\ pos' = 1
    /\ sourceList' = <<>>
    /\ UNCHANGED <<directory, hardware, libraries, backendList, backendLoaderList,
                   sourceLoaderList, threads, initializing, plugged>>

\* cleanup() waits for init(), then the loader unloads.
UnloadBackend ==
    /\ phase = "unloadBackends" /\ pos <= Len(backendLoaderList)
    /\ backendList[pos] \notin initializing
    /\ Release(backendLoaderList[pos])
    /\ pos' = pos + 1
    /\ UNCHANGED <<directory, hardware, phase, born, lists, threads, initializing, plugged>>

BackendsUnloaded ==
    /\ phase = "unloadBackends" /\ pos > Len(backendLoaderList)
    /\ phase' = "gone" /\ pos' = 1
    /\ backendList' = <<>>
    /\ UNCHANGED <<directory, hardware, libraries, backendLoaderList, sourceList,
                   sourceLoaderList, threads, initializing, plugged>>

-----------------------------------------------------------------------------
(* The pool and the hardware.                                              *)

InitReturns ==
    /\ \E x \in initializing : initializing' = initializing \ {x}
    /\ UNCHANGED <<directory, hardware, phase, pos, libraries, lists, threads, plugged>>

Plug ==
    /\ plugged < MaxPlugged
    /\ \E l \in Backends :
         hardware' = IF l \in hardware THEN hardware \ {l} ELSE hardware \cup {l}
    /\ plugged' = plugged + 1
    /\ UNCHANGED <<directory, phase, pos, libraries, lists, threads, initializing>>

Next ==
    \/ Skip
    \/ WrongClass
    \/ NoHardware
    \/ AlreadyLoaded
    \/ LoadBackend
    \/ LoadSource
    \/ SourceRefused
    \/ NonThreadedDone
    \/ ThreadedDone
    \/ SourcesDone
    \/ BeginUnload
    \/ UnloadSource
    \/ SourcesUnloaded
    \/ UnloadBackend
    \/ BackendsUnloaded
    \/ InitReturns
    \/ Plug

Spec == Init /\ [][Next]_vars

-----------------------------------------------------------------------------
(* Properties.                                                             *)

Alive(x) == loaders[x[1]] > 0 /\ born[x[1]] = x[2]

\* The plug-ins the lists hold at this moment of loading or unloading.
LoadedBackends == IF phase = "unloadBackends" THEN {backendList[i] : i \in pos .. Len(backendList)}
                  ELSE Range(backendList)
LoadedSources == IF phase = "unloadSources" THEN {sourceList[i] : i \in pos .. Len(sourceList)}
                 ELSE Range(sourceList)

\* The lists hold living plug-ins, each once and next to its own loader, and init() runs
\* in living ones only: whatever symbolic links, missing hardware and wrong classes made
\* the FAILED path do to a library that another loader has in use, and in whatever order
\* the pool returns while the plug-ins go.  And no library is left loaded that no list
\* holds, neither by a plug-in that failed nor by ~MfManager.
PluginsAlive ==
    /\ \A x \in LoadedBackends \cup LoadedSources \cup initializing : Alive(x)
    /\ IsInjective(backendList) /\ IsInjective(sourceList)
    /\ phase # "gone" => [i \in DOMAIN backendList |-> backendList[i][1]] = backendLoaderList
    /\ phase \in Directories \cup {"running"} =>
         [i \in DOMAIN sourceList |-> sourceList[i][1]] = sourceLoaderList
    /\ \A l \in Libs : loaders[l] = Cardinality({x \in LoadedBackends \cup LoadedSources : x[1] = l})

\* doc/src/tutorial.dox:62, "the backends will be loaded in increasing order": those of
\* the non-threaded directory before the others, each where its first link is, and the
\* ones play() starts on threads are exactly those the non-threaded directory does not
\* have (provided the hardware stays as it is).
LoadedInOrder ==
    LET files == directory["nonThreaded"] \o directory["threaded"]
        usable == {i \in DOMAIN files : files[i].named /\ files[i].lib \in hardware}
        first == {i \in usable : \A j \in usable : files[j].lib = files[i].lib => i <= j}
        Place(i) == Cardinality({j \in first : j <= i})
    IN  phase \in {"sources", "running"} /\ plugged = 0 =>
            /\ Len(backendLoaderList) = Cardinality(first)
            /\ \A i \in first : backendLoaderList[Place(i)] = files[i].lib
            /\ nonThreadedBackendCount =
                 Cardinality({i \in first : i <= Len(directory["nonThreaded"])})

=============================================================================
