----------------------- MODULE MfPluginLoader_proofs -----------------------
(***************************************************************************)
(* Proofs about the plug-in loader, for any libraries, whatever they give, *)
(* and any files in the directories.                                       *)
(***************************************************************************)
EXTENDS MfPluginLoader, FiniteSetTheorems, SequenceTheorems, TLAPS

-----------------------------------------------------------------------------
(* The inductive invariant.  A library has one loader or none, so its      *)
(* loader count says whether a list holds its one living instance.         *)

Held == LoadedBackends \cup LoadedSources

\* A library is loaded for its instance in a list, and for nothing else.
Shared ==
    /\ \A x \in Held : loaders[x[1]] = 1 /\ born[x[1]] = x[2]
    /\ \A l \in Libs : loaders[l] # 0 => \E x \in Held : x[1] = l

\* A list has its own kind of plug-ins, each once.
Sorted ==
    /\ \A i \in DOMAIN backendList : Kind[backendList[i][1]] = "backend"
    /\ \A i \in DOMAIN sourceList : Kind[sourceList[i][1]] = "source"
    /\ IsInjective(backendList) /\ IsInjective(sourceList)

SameLibs(list, ls) == DOMAIN list = DOMAIN ls /\ \A i \in DOMAIN list : list[i][1] = ls[i]

\* Next to a plug-in is its own loader, as long as the list is there.
Aligned ==
    /\ phase # "gone" => SameLibs(backendList, backendLoaderList)
    /\ phase \notin {"unloadBackends", "gone"} => SameLibs(sourceList, sourceLoaderList)
    /\ phase \in {"unloadBackends", "gone"} => sourceList = <<>>
    /\ phase = "gone" => backendList = <<>>

IInv ==
    /\ TypeOK
    /\ Shared
    /\ Sorted
    /\ Aligned
    /\ initializing \subseteq LoadedBackends

-----------------------------------------------------------------------------
(* What the lists hold.                                                    *)

LEMMA RangeFromOne ==
    ASSUME NEW S, NEW s \in Seq(S)
    PROVE  {s[i] : i \in 1 .. Len(s)} = Range(s) /\ Range(s) \subseteq S
  BY DEF Range

\* The plug-ins that are held are instances.
LEMMA HeldAreInstances == TypeOK => Held \subseteq Instances
  <1> SUFFICES ASSUME TypeOK PROVE Held \subseteq Instances
    OBVIOUS
  <1>1. backendList \in Seq(Instances) /\ sourceList \in Seq(Instances) /\ pos \in Nat \ {0}
    BY DEF TypeOK
  <1>2. LoadedBackends \subseteq Instances
    BY <1>1 DEF LoadedBackends, Range
  <1>3. LoadedSources \subseteq Instances
    BY <1>1 DEF LoadedSources, Range
  <1> QED BY <1>2, <1>3 DEF Held

\* An instance is its library and its number, so two that live are of two libraries.
LEMMA OneOfALibrary ==
    ASSUME TypeOK, Shared, NEW x \in Held
    PROVE  x[1] \in Libs /\ x = <<x[1], born[x[1]]>> /\ loaders[x[1]] = 1
  <1>1. x \in Instances
    BY HeldAreInstances
  <1>2. x[1] \in Libs /\ x = <<x[1], x[2]>>
    BY <1>1 DEF Instances
  <1> QED BY <1>2 DEF Shared

\* instance() gives the instance that lives, or a new one.
LEMMA InstanceIs ==
    ASSUME IInv, InDirectory
    PROVE  /\ lib \in Libs /\ File.named \in BOOLEAN /\ Instance \in Instances
           /\ loaders[lib] \in Nat /\ born[lib] \in Nat
           /\ Born = IF loaders[lib] = 0 THEN born[lib] + 1 ELSE born[lib]
           /\ loaders[lib] # 0 => Instance \in Held
  <1>1. File \in Files
    <2>1. directory \in Installations /\ pos \in Nat \ {0}
      BY DEF IInv, TypeOK
    <2>2. directory[phase] \in Seq(Files) /\ pos \in 1 .. Len(directory[phase])
      BY <2>1, LoaderAssumption DEF InDirectory
    <2> QED BY <2>2 DEF File
  <1>2. lib \in Libs /\ File.named \in BOOLEAN
    BY <1>1 DEF lib, Files
  <1>3. loaders[lib] \in Nat /\ born[lib] \in Nat
    BY <1>2 DEF IInv, TypeOK
  <1>4. ASSUME loaders[lib] # 0
        PROVE  Instance \in Held /\ Instance \in Instances
    <2>1. PICK x \in Held : x[1] = lib
      BY <1>2, <1>4 DEF IInv, Shared
    <2>2. x = <<lib, born[lib]>>
      BY <2>1, OneOfALibrary DEF IInv
    <2>3. Instance = x
      BY <1>4, <2>2 DEF Instance, Born
    <2> QED BY <2>3, HeldAreInstances DEF IInv
  <1>5. ASSUME loaders[lib] = 0
        PROVE  Instance \in Instances
    BY <1>2, <1>3, <1>5 DEF Instance, Born, Instances
  <1> QED BY <1>2, <1>3, <1>4, <1>5 DEF Born

\* While a directory is read, everything in the lists is held.
LEMMA HeldWhileLoading ==
    ASSUME phase \notin {"unloadBackends", "unloadSources"}
    PROVE  LoadedBackends = Range(backendList) /\ LoadedSources = Range(sourceList)
  BY DEF LoadedBackends, LoadedSources

\* Nothing changes for the libraries.
LEMMA SharedSame ==
    ASSUME Shared, Held' = Held, UNCHANGED libraries
    PROVE  Shared'
  BY DEF Shared, libraries

\* A loader that fails gives up what it took.
LEMMA SharedFailed ==
    ASSUME IInv, InDirectory, Failed, Held' = Held
    PROVE  Shared' /\ loaders' = loaders /\ born' \in [Libs -> Nat]
  <1>1. lib \in Libs /\ loaders[lib] \in Nat /\ born[lib] \in Nat
    BY InstanceIs
  <1>2. loaders \in [Libs -> Nat] /\ born \in [Libs -> Nat]
    BY DEF IInv, TypeOK
  <1>3. loaders' = loaders
    <2>1. Unload(loaders[lib] + 1) = loaders[lib]
      BY <1>1 DEF Unload
    <2>2. loaders' = [loaders EXCEPT ![lib] = loaders[lib]]
      BY <2>1 DEF Failed
    <2> QED BY <1>2, <2>2
  <1>4. \A l \in Libs : born'[l] = IF l = lib THEN Born ELSE born[l]
    BY <1>1, <1>2 DEF Failed
  <1>5. Born = IF loaders[lib] = 0 THEN born[lib] + 1 ELSE born[lib]
    BY DEF Born
  <1>6. \A x \in Held : x[1] \in Libs /\ loaders[x[1]] = 1
    BY OneOfALibrary DEF IInv
  <1>7. born' \in [Libs -> Nat]
    BY <1>1, <1>2, <1>5 DEF Failed
  <1>8. \A x \in Held : born'[x[1]] = born[x[1]]
    BY <1>4, <1>5, <1>6
  <1> QED BY <1>3, <1>6, <1>7, <1>8 DEF IInv, Shared

\* A plug-in that is kept has a new instance.
LEMMA SharedKept ==
    ASSUME IInv, InDirectory, Keep, Instance \notin Held, Held' = Held \cup {Instance}
    PROVE  Shared' /\ loaders' \in [Libs -> Nat] /\ born' \in [Libs -> Nat]
  <1>1. lib \in Libs /\ loaders[lib] = 0 /\ born[lib] \in Nat /\ Born = born[lib] + 1
    BY InstanceIs
  <1>2. loaders \in [Libs -> Nat] /\ born \in [Libs -> Nat]
    BY DEF IInv, TypeOK
  <1>3. \A l \in Libs : /\ loaders'[l] = IF l = lib THEN 1 ELSE loaders[l]
                        /\ born'[l] = IF l = lib THEN Born ELSE born[l]
    BY <1>1, <1>2 DEF Keep
  <1>4. loaders' \in [Libs -> Nat] /\ born' \in [Libs -> Nat]
    BY <1>1, <1>2 DEF Keep
  <1>5. Instance[1] = lib /\ Instance[2] = Born
    BY DEF Instance
  <1>6. \A x \in Held : x[1] \in Libs /\ x[1] # lib
    BY <1>1, OneOfALibrary DEF IInv
  <1>7. \A x \in Held' : loaders'[x[1]] = 1 /\ born'[x[1]] = x[2]
    BY <1>1, <1>3, <1>5, <1>6 DEF IInv, Shared
  <1>8. \A l \in Libs : loaders'[l] # 0 => \E x \in Held' : x[1] = l
    BY <1>3, <1>5 DEF IInv, Shared
  <1> QED BY <1>4, <1>7, <1>8 DEF Shared

\* A plug-in that is unloaded leaves its library to nobody.
LEMMA SharedReleased ==
    ASSUME IInv, NEW r \in Held, Release(r[1]), born' = born, Held' = Held \ {r}
    PROVE  Shared' /\ loaders' \in [Libs -> Nat]
  <1>1. r[1] \in Libs /\ r = <<r[1], born[r[1]]>> /\ loaders[r[1]] = 1
    BY OneOfALibrary DEF IInv
  <1>2. loaders \in [Libs -> Nat]
    BY DEF IInv, TypeOK
  <1>3. \A l \in Libs : loaders'[l] = IF l = r[1] THEN 0 ELSE loaders[l]
    BY <1>1, <1>2 DEF Release, Unload
  <1>4. loaders' \in [Libs -> Nat]
    BY <1>1, <1>2 DEF Release, Unload
  <1>5. \A x \in Held' : x \in Held /\ x[1] \in Libs /\ x[1] # r[1]
    BY <1>1, OneOfALibrary DEF IInv
  <1>6. \A x \in Held' : loaders'[x[1]] = 1 /\ born'[x[1]] = x[2]
    BY <1>3, <1>5 DEF IInv, Shared
  <1>7. \A l \in Libs : loaders'[l] # 0 => \E x \in Held' : x[1] = l
    BY <1>3, <1>1 DEF IInv, Shared
  <1> QED BY <1>4, <1>6, <1>7 DEF Shared

\* A plug-in joins a list.
LEMMA ListGrows ==
    ASSUME NEW list \in Seq(Instances), NEW ls \in Seq(Libs), NEW x \in Instances,
           x \notin Range(list), IsInjective(list), SameLibs(list, ls)
    PROVE  /\ Append(list, x) \in Seq(Instances) /\ Append(ls, x[1]) \in Seq(Libs)
           /\ Range(Append(list, x)) = Range(list) \cup {x}
           /\ IsInjective(Append(list, x))
           /\ SameLibs(Append(list, x), Append(ls, x[1]))
           /\ \A k : /\ \A i \in DOMAIN list : Kind[list[i][1]] = k
                     /\ Kind[x[1]] = k
                     => \A i \in DOMAIN Append(list, x) : Kind[Append(list, x)[i][1]] = k
  <1> DEFINE t == Append(list, x)
             u == Append(ls, x[1])
  <1>1. /\ Len(list) \in Nat /\ DOMAIN list = 1 .. Len(list) /\ DOMAIN t = 1 .. Len(list) + 1
        /\ \A i \in DOMAIN list : t[i] = list[i]
        /\ t[Len(list) + 1] = x
    OBVIOUS
  <1>2. x[1] \in Libs
    BY DEF Instances
  <1>3. Len(ls) = Len(list)
    BY DEF SameLibs
  <1>4. /\ DOMAIN u = 1 .. Len(list) + 1
        /\ \A i \in DOMAIN list : u[i] = ls[i]
        /\ u[Len(list) + 1] = x[1]
    BY <1>1, <1>2, <1>3
  <1>5. t \in Seq(Instances) /\ u \in Seq(Libs)
    BY <1>2
  <1> HIDE DEF t, u
  <1>6. Range(t) = Range(list) \cup {x}
    BY <1>1 DEF Range
  <1>7. IsInjective(t)
    BY <1>1 DEF IsInjective, Range
  <1>8. SameLibs(t, u)
    BY <1>1, <1>4 DEF SameLibs
  <1>9. \A k : (\A i \in DOMAIN list : Kind[list[i][1]] = k) /\ Kind[x[1]] = k
               => \A i \in DOMAIN t : Kind[t[i][1]] = k
    BY <1>1
  <1> QED BY <1>5, <1>6, <1>7, <1>8, <1>9 DEF t, u

\* The next plug-in of a list goes.
LEMMA ListShrinks ==
    ASSUME NEW list \in Seq(Instances), IsInjective(list), NEW p \in Nat \ {0}, p <= Len(list)
    PROVE  /\ list[p] \in {list[i] : i \in p .. Len(list)}
           /\ {list[i] : i \in p + 1 .. Len(list)} = {list[i] : i \in p .. Len(list)} \ {list[p]}
  <1>1. Len(list) \in Nat /\ DOMAIN list = 1 .. Len(list)
    OBVIOUS
  <1>2. \A i \in p .. Len(list) : i \in DOMAIN list /\ (i = p \/ i \in p + 1 .. Len(list))
    BY <1>1
  <1>3. \A i \in p + 1 .. Len(list) : i \in p .. Len(list) /\ i # p
    BY <1>1
  <1>4. p \in p .. Len(list)
    BY <1>1
  <1> QED BY <1>2, <1>3, <1>4 DEF IsInjective

-----------------------------------------------------------------------------

LEMMA IInvInit == Init => IInv
  <1> SUFFICES ASSUME Init PROVE IInv
    OBVIOUS
  <1>1. Range(<<>>) = {}
    BY DEF Range
  <1>2. LoadedBackends = {} /\ LoadedSources = {} /\ Held = {}
    BY <1>1, HeldWhileLoading DEF Init, Held
  <1>3. TypeOK
    BY LoaderAssumption DEF Init, TypeOK, Directories
  <1>4. Shared
    BY <1>2 DEF Init, Shared
  <1>5. Sorted /\ Aligned
    BY DEF Init, Sorted, Aligned, SameLibs, IsInjective
  <1> QED BY <1>2, <1>3, <1>4, <1>5 DEF Init, IInv

\* A step of init() or ~MfManager that takes no plug-in from the lists and loads none.
LEMMA OnlyPhase ==
    ASSUME IInv, TypeOK', UNCHANGED <<libraries, lists>>, Held' = Held,
           LoadedBackends' = LoadedBackends, initializing' \subseteq initializing,
           phase \notin {"unloadBackends", "gone"}, phase' \notin {"unloadBackends", "gone"}
    PROVE  IInv'
  <1>1. Shared'
    BY SharedSame DEF IInv
  <1>2. Sorted' /\ Aligned'
    BY DEF IInv, Sorted, Aligned, SameLibs, lists
  <1> QED BY <1>1, <1>2 DEF IInv

\* A file that is passed over or fails.
LEMMA FailedStep ==
    ASSUME IInv, InDirectory, Failed
    PROVE  IInv'
  <1>1. /\ phase \in Directories /\ pos \in Nat \ {0}
        /\ UNCHANGED <<directory, hardware, phase, lists, threads, initializing, plugged>>
        /\ pos' = pos + 1
    BY DEF InDirectory, Failed, IInv, TypeOK
  <1>2. phase \notin {"unloadBackends", "unloadSources", "gone"}
    BY <1>1 DEF Directories
  <1>3. LoadedBackends' = LoadedBackends /\ LoadedSources' = LoadedSources
    BY <1>1, <1>2 DEF LoadedBackends, LoadedSources, lists
  <1>4. Held' = Held
    BY <1>3 DEF Held
  <1>5. Shared' /\ loaders' = loaders /\ born' \in [Libs -> Nat]
    BY <1>4, SharedFailed
  <1>6. TypeOK'
    BY <1>1, <1>5 DEF IInv, TypeOK, lists, threads
  <1>7. Sorted' /\ Aligned'
    BY <1>1 DEF IInv, Sorted, Aligned, SameLibs, lists
  <1> QED BY <1>1, <1>3, <1>5, <1>6, <1>7 DEF IInv

LEMMA LoadBackendStep ==
    ASSUME IInv, LoadBackend
    PROVE  IInv'
  <1>1. /\ InDirectory /\ phase \in Directories /\ phase # "sources" /\ Kind[lib] = "backend"
        /\ Instance \notin Range(backendList) /\ pos \in Nat \ {0} /\ Keep
        /\ backendList' = Append(backendList, Instance)
        /\ backendLoaderList' = Append(backendLoaderList, lib)
        /\ initializing' = initializing \cup {Instance}
        /\ UNCHANGED <<sourceList, sourceLoaderList>>
    BY DEF LoadBackend, Detected, Reached, RightClass, List, InDirectory, IInv, TypeOK
  <1>2. /\ UNCHANGED <<directory, hardware, phase, threads, plugged>> /\ pos' = pos + 1
    BY <1>1 DEF Keep
  <1>3. phase \notin {"unloadBackends", "unloadSources", "gone"}
    BY <1>1 DEF Directories
  <1>4. Instance \in Instances /\ lib \in Libs /\ Instance[1] = lib
    BY <1>1, InstanceIs DEF Instance
  <1>5. /\ backendList \in Seq(Instances) /\ backendLoaderList \in Seq(Libs)
        /\ IsInjective(backendList) /\ SameLibs(backendList, backendLoaderList)
        /\ \A i \in DOMAIN backendList : Kind[backendList[i][1]] = "backend"
    BY <1>3 DEF IInv, TypeOK, Sorted, Aligned
  <1>6. /\ backendList' \in Seq(Instances) /\ backendLoaderList' \in Seq(Libs)
        /\ Range(backendList') = Range(backendList) \cup {Instance}
        /\ IsInjective(backendList') /\ SameLibs(backendList', backendLoaderList')
        /\ \A i \in DOMAIN backendList' : Kind[backendList'[i][1]] = "backend"
    BY <1>1, <1>4, <1>5, ListGrows
  <1>7. /\ LoadedBackends = Range(backendList) /\ LoadedSources = Range(sourceList)
        /\ LoadedBackends' = Range(backendList)' /\ LoadedSources' = Range(sourceList)'
    BY <1>2, <1>3 DEF LoadedBackends, LoadedSources
  <1>8. Range(backendList)' = Range(backendList') /\ Range(sourceList)' = Range(sourceList)
    BY <1>1 DEF Range
  <1>9. Instance \notin Range(sourceList)
    BY <1>1, <1>4 DEF IInv, Sorted, Range
  <1>10. Held' = Held \cup {Instance} /\ Instance \notin Held
    BY <1>1, <1>6, <1>7, <1>8, <1>9 DEF Held
  <1>11. Shared' /\ loaders' \in [Libs -> Nat] /\ born' \in [Libs -> Nat]
    BY <1>1, <1>10, SharedKept
  <1>12. nonThreadedBackendCount' \in 0 .. Len(backendList')
    <2>1. Len(backendList') = Len(backendList) + 1 /\ Len(backendList) \in Nat
      BY <1>1, <1>4, <1>5
    <2>2. nonThreadedBackendCount \in 0 .. Len(backendList)
      BY <1>3 DEF IInv, TypeOK
    <2> QED BY <1>2, <2>1, <2>2 DEF threads
  <1>13. TypeOK'
    BY <1>1, <1>2, <1>4, <1>6, <1>11, <1>12 DEF IInv, TypeOK, threads
  <1>14. Sorted'
    BY <1>1, <1>6 DEF IInv, Sorted, IsInjective
  <1>15. Aligned'
    BY <1>1, <1>2, <1>3, <1>6 DEF IInv, Aligned, SameLibs
  <1>16. initializing' \subseteq LoadedBackends'
    BY <1>1, <1>6, <1>7, <1>8 DEF IInv
  <1> QED BY <1>11, <1>13, <1>14, <1>15, <1>16 DEF IInv

LEMMA LoadSourceStep ==
    ASSUME IInv, LoadSource
    PROVE  IInv'
  <1>1. /\ InDirectory /\ phase = "sources" /\ Kind[lib] = "source"
        /\ Instance \notin Range(sourceList) /\ pos \in Nat \ {0} /\ Keep
        /\ sourceList' = Append(sourceList, Instance)
        /\ sourceLoaderList' = Append(sourceLoaderList, lib)
        /\ UNCHANGED <<backendList, backendLoaderList, initializing>>
    BY DEF LoadSource, Detected, Reached, RightClass, List, InDirectory, IInv, TypeOK
  <1>2. /\ UNCHANGED <<directory, hardware, phase, threads, plugged>> /\ pos' = pos + 1
    BY <1>1 DEF Keep
  <1>4. Instance \in Instances /\ lib \in Libs /\ Instance[1] = lib
    BY <1>1, InstanceIs DEF Instance
  <1>5. /\ sourceList \in Seq(Instances) /\ sourceLoaderList \in Seq(Libs)
        /\ IsInjective(sourceList) /\ SameLibs(sourceList, sourceLoaderList)
        /\ \A i \in DOMAIN sourceList : Kind[sourceList[i][1]] = "source"
    BY <1>1 DEF IInv, TypeOK, Sorted, Aligned
  <1>6. /\ sourceList' \in Seq(Instances) /\ sourceLoaderList' \in Seq(Libs)
        /\ Range(sourceList') = Range(sourceList) \cup {Instance}
        /\ IsInjective(sourceList') /\ SameLibs(sourceList', sourceLoaderList')
        /\ \A i \in DOMAIN sourceList' : Kind[sourceList'[i][1]] = "source"
    BY <1>1, <1>4, <1>5, ListGrows
  <1>7. /\ LoadedBackends = Range(backendList) /\ LoadedSources = Range(sourceList)
        /\ LoadedBackends' = Range(backendList)' /\ LoadedSources' = Range(sourceList)'
    BY <1>1, <1>2 DEF LoadedBackends, LoadedSources
  <1>8. Range(sourceList)' = Range(sourceList') /\ Range(backendList)' = Range(backendList)
    BY <1>1 DEF Range
  <1>9. Instance \notin Range(backendList)
    BY <1>1, <1>4 DEF IInv, Sorted, Range
  <1>10. Held' = Held \cup {Instance} /\ Instance \notin Held
    BY <1>1, <1>6, <1>7, <1>8, <1>9 DEF Held
  <1>11. Shared' /\ loaders' \in [Libs -> Nat] /\ born' \in [Libs -> Nat]
    BY <1>1, <1>10, SharedKept
  <1>12. nonThreadedBackendCount' \in 0 .. Len(backendList')
    <2>1. nonThreadedBackendCount \in 0 .. Len(backendList)
      BY <1>1 DEF IInv, TypeOK
    <2> QED BY <1>1, <1>2, <2>1 DEF threads
  <1>13. TypeOK'
    <2>1. /\ directory' \in Installations /\ hardware' \subseteq Backends /\ pos' \in Nat \ {0}
          /\ backendList' \in Seq(Instances) /\ backendLoaderList' \in Seq(Libs)
          /\ initializing' \subseteq Instances
      BY <1>1, <1>2 DEF IInv, TypeOK
    <2>2. maxThreadCount' \in Nat \ {0} /\ plugged' \in Nat
      BY <1>2 DEF IInv, TypeOK, threads
    <2>3. phase' \in Directories
      BY <1>1, <1>2 DEF Directories
    <2> QED BY <1>6, <1>11, <1>12, <2>1, <2>2, <2>3 DEF TypeOK
  <1>14. Sorted'
    BY <1>1, <1>6 DEF IInv, Sorted, IsInjective
  <1>15. Aligned'
    BY <1>1, <1>2, <1>6 DEF IInv, Aligned, SameLibs
  <1>16. initializing' \subseteq LoadedBackends'
    BY <1>1, <1>7, <1>8 DEF IInv
  <1> QED BY <1>11, <1>13, <1>14, <1>15, <1>16 DEF IInv

\* From one directory to the next.
LEMMA NextDirectory ==
    ASSUME IInv, NonThreadedDone \/ ThreadedDone \/ SourcesDone
    PROVE  IInv'
  <1>1. /\ phase \in Directories /\ phase' \in {"threaded", "failed", "sources", "running"}
        /\ pos' = 1 /\ UNCHANGED <<directory, hardware, libraries, lists, initializing, plugged>>
    BY DEF NonThreadedDone, ThreadedDone, SourcesDone, EndOfDirectory, threads
  <1>2. nonThreadedBackendCount' \in 0 .. Len(backendList)
    <2>1. Len(backendList) \in Nat /\ nonThreadedBackendCount \in 0 .. Len(backendList)
      BY <1>1 DEF IInv, TypeOK, Directories
    <2> QED BY <2>1 DEF NonThreadedDone, ThreadedDone, SourcesDone, threads
  <1>3. maxThreadCount' \in Nat \ {0}
    <2>1. maxThreadCount \in Nat \ {0}
      BY DEF IInv, TypeOK
    <2>2. CASE NonThreadedDone \/ ThreadedDone
      BY <2>1, <2>2 DEF NonThreadedDone, ThreadedDone, threads
    <2>3. CASE SourcesDone
      <3>1. Len(backendList) \in Nat /\ nonThreadedBackendCount \in 0 .. Len(backendList)
        BY <1>1 DEF IInv, TypeOK, Directories
      <3>2. TargetThreadCount \in Nat
        BY <3>1 DEF TargetThreadCount
      <3> QED BY <2>1, <2>3, <3>2 DEF SourcesDone
    <2> QED BY <2>2, <2>3
  <1>4. TypeOK'
    BY <1>1, <1>2, <1>3 DEF IInv, TypeOK, lists, libraries, Directories
  <1>5. LoadedBackends' = LoadedBackends /\ LoadedSources' = LoadedSources
    BY <1>1 DEF LoadedBackends, LoadedSources, lists, Directories
  <1> QED BY <1>1, <1>4, <1>5, OnlyPhase DEF Held, Directories

LEMMA UnloadSourceStep ==
    ASSUME IInv, UnloadSource
    PROVE  IInv'
  <1> DEFINE r == sourceList[pos]
  <1>1. /\ phase = "unloadSources" /\ pos \in Nat \ {0} /\ pos <= Len(sourceLoaderList)
        /\ Release(sourceLoaderList[pos]) /\ pos' = pos + 1
        /\ UNCHANGED <<directory, hardware, phase, born, lists, threads, initializing, plugged>>
    BY DEF UnloadSource, IInv, TypeOK
  <1>2. /\ sourceList \in Seq(Instances) /\ sourceLoaderList \in Seq(Libs)
        /\ SameLibs(sourceList, sourceLoaderList) /\ IsInjective(sourceList)
    BY <1>1 DEF IInv, TypeOK, Aligned, Sorted
  <1>3. pos <= Len(sourceList) /\ pos \in DOMAIN sourceList /\ r[1] = sourceLoaderList[pos]
    BY <1>1, <1>2 DEF SameLibs
  <1>4. /\ LoadedSources = {sourceList[i] : i \in pos .. Len(sourceList)}
        /\ LoadedSources' = {sourceList[i] : i \in pos + 1 .. Len(sourceList)}
        /\ LoadedBackends = Range(backendList) /\ LoadedBackends' = LoadedBackends
    BY <1>1 DEF LoadedSources, LoadedBackends, lists
  <1>5. r \in LoadedSources /\ LoadedSources' = LoadedSources \ {r}
    BY <1>1, <1>2, <1>3, <1>4, ListShrinks
  <1>6. r \notin LoadedBackends
    <2>1. Kind[r[1]] = "source"
      BY <1>3 DEF IInv, Sorted
    <2> QED BY <1>4, <2>1 DEF IInv, Sorted, Range
  <1>7. r \in Held /\ Held' = Held \ {r} /\ Release(r[1]) /\ born' = born
    BY <1>1, <1>3, <1>4, <1>5, <1>6 DEF Held
  <1> HIDE DEF r
  <1>8. Shared' /\ loaders' \in [Libs -> Nat]
    BY <1>7, SharedReleased
  <1>9. TypeOK'
    BY <1>1, <1>8 DEF IInv, TypeOK, lists, threads
  <1>10. Sorted' /\ Aligned'
    BY <1>1 DEF IInv, Sorted, Aligned, SameLibs, lists
  <1> QED BY <1>1, <1>4, <1>8, <1>9, <1>10 DEF IInv

LEMMA UnloadBackendStep ==
    ASSUME IInv, UnloadBackend
    PROVE  IInv'
  <1> DEFINE r == backendList[pos]
  <1>1. /\ phase = "unloadBackends" /\ pos \in Nat \ {0} /\ pos <= Len(backendLoaderList)
        /\ Release(backendLoaderList[pos]) /\ pos' = pos + 1 /\ r \notin initializing
        /\ UNCHANGED <<directory, hardware, phase, born, lists, threads, initializing, plugged>>
    BY DEF UnloadBackend, IInv, TypeOK
  <1>2. /\ backendList \in Seq(Instances) /\ backendLoaderList \in Seq(Libs)
        /\ SameLibs(backendList, backendLoaderList) /\ IsInjective(backendList)
    BY <1>1 DEF IInv, TypeOK, Aligned, Sorted
  <1>3. pos <= Len(backendList) /\ pos \in DOMAIN backendList /\ r[1] = backendLoaderList[pos]
    BY <1>1, <1>2 DEF SameLibs
  <1>4. /\ LoadedBackends = {backendList[i] : i \in pos .. Len(backendList)}
        /\ LoadedBackends' = {backendList[i] : i \in pos + 1 .. Len(backendList)}
    BY <1>1 DEF LoadedBackends, lists
  <1>5. r \in LoadedBackends /\ LoadedBackends' = LoadedBackends \ {r}
    BY <1>1, <1>2, <1>3, <1>4, ListShrinks
  <1>6. LoadedSources = {} /\ LoadedSources' = {}
    BY <1>1 DEF IInv, Aligned, LoadedSources, Range, lists
  <1>7. r \in Held /\ Held' = Held \ {r} /\ Release(r[1]) /\ born' = born
    BY <1>1, <1>3, <1>5, <1>6 DEF Held
  <1> HIDE DEF r
  <1>8. Shared' /\ loaders' \in [Libs -> Nat]
    BY <1>7, SharedReleased
  <1>9. TypeOK'
    BY <1>1, <1>8 DEF IInv, TypeOK, lists, threads
  <1>10. Sorted' /\ Aligned'
    BY <1>1 DEF IInv, Sorted, Aligned, SameLibs, lists
  <1>11. initializing' \subseteq LoadedBackends'
    BY <1>1, <1>5 DEF IInv
  <1> QED BY <1>8, <1>9, <1>10, <1>11 DEF IInv

\* A list whose plug-ins are gone is cleared.
LEMMA SourcesUnloadedStep ==
    ASSUME IInv, SourcesUnloaded
    PROVE  IInv'
  <1>1. /\ phase = "unloadSources" /\ pos \in Nat \ {0} /\ pos > Len(sourceLoaderList)
        /\ phase' = "unloadBackends" /\ pos' = 1 /\ sourceList' = <<>>
        /\ UNCHANGED <<directory, hardware, libraries, backendList, backendLoaderList,
                       sourceLoaderList, threads, initializing, plugged>>
    BY DEF SourcesUnloaded, IInv, TypeOK
  <1>2. /\ sourceList \in Seq(Instances) /\ sourceLoaderList \in Seq(Libs)
        /\ SameLibs(sourceList, sourceLoaderList) /\ backendList \in Seq(Instances)
    BY <1>1 DEF IInv, TypeOK, Aligned
  <1>3. Len(sourceList) \in Nat /\ pos > Len(sourceList)
    BY <1>1, <1>2 DEF SameLibs
  <1>4. LoadedSources = {} /\ LoadedSources' = {}
    BY <1>1, <1>3 DEF LoadedSources, Range
  <1>5. LoadedBackends = Range(backendList)
        /\ LoadedBackends' = {backendList[i] : i \in 1 .. Len(backendList)}
    BY <1>1 DEF LoadedBackends
  <1>6. LoadedBackends' = LoadedBackends
    BY <1>2, <1>5, RangeFromOne
  <1>7. Shared'
    BY <1>1, <1>4, <1>6, SharedSame DEF IInv, Held
  <1>8. TypeOK'
    BY <1>1 DEF IInv, TypeOK, libraries, threads
  <1>9. Sorted' /\ Aligned'
    BY <1>1 DEF IInv, Sorted, Aligned, SameLibs, IsInjective
  <1> QED BY <1>1, <1>6, <1>7, <1>8, <1>9 DEF IInv

LEMMA BackendsUnloadedStep ==
    ASSUME IInv, BackendsUnloaded
    PROVE  IInv'
  <1>1. /\ phase = "unloadBackends" /\ pos \in Nat \ {0} /\ pos > Len(backendLoaderList)
        /\ phase' = "gone" /\ pos' = 1 /\ backendList' = <<>>
        /\ UNCHANGED <<directory, hardware, libraries, backendLoaderList, sourceList,
                       sourceLoaderList, threads, initializing, plugged>>
    BY DEF BackendsUnloaded, IInv, TypeOK
  <1>2. /\ backendList \in Seq(Instances) /\ backendLoaderList \in Seq(Libs)
        /\ SameLibs(backendList, backendLoaderList)
    BY <1>1 DEF IInv, TypeOK, Aligned
  <1>3. Len(backendList) \in Nat /\ pos > Len(backendList)
    BY <1>1, <1>2 DEF SameLibs
  <1>4. LoadedBackends = {} /\ LoadedBackends' = {}
    BY <1>1, <1>3 DEF LoadedBackends, Range
  <1>5. LoadedSources = Range(sourceList) /\ LoadedSources' = Range(sourceList)
    BY <1>1 DEF LoadedSources, Range
  <1>6. Shared'
    BY <1>1, <1>4, <1>5, SharedSame DEF IInv, Held
  <1>7. TypeOK'
    BY <1>1 DEF IInv, TypeOK, libraries, threads
  <1>8. Sorted' /\ Aligned'
    BY <1>1 DEF IInv, Sorted, Aligned, SameLibs, IsInjective
  <1> QED BY <1>1, <1>4, <1>6, <1>7, <1>8 DEF IInv

LEMMA IInvStep == IInv /\ [Next]_vars => IInv'
  <1> SUFFICES ASSUME IInv, [Next]_vars PROVE IInv'
    OBVIOUS
  <1>1. CASE Skip
    <2>1. /\ phase \in Directories /\ pos \in Nat \ {0} /\ pos' = pos + 1
          /\ UNCHANGED <<directory, hardware, phase, libraries, lists, threads, initializing, plugged>>
      BY <1>1 DEF Skip, InDirectory, IInv, TypeOK
    <2>2. LoadedBackends' = LoadedBackends /\ LoadedSources' = LoadedSources
      BY <2>1 DEF LoadedBackends, LoadedSources, lists, Directories
    <2>3. TypeOK'
      BY <2>1 DEF IInv, TypeOK, lists, libraries, threads
    <2> QED BY <2>1, <2>2, <2>3, OnlyPhase DEF Held, Directories
  <1>2. CASE WrongClass \/ NoHardware \/ AlreadyLoaded \/ SourceRefused
    BY <1>2, FailedStep DEF WrongClass, NoHardware, AlreadyLoaded, SourceRefused, Detected, Reached
  <1>3. CASE BeginUnload
    <2>1. /\ phase \in {"running", "failed"} /\ phase' = "unloadSources" /\ pos' = 1
          /\ UNCHANGED <<directory, hardware, libraries, lists, threads, initializing, plugged>>
      BY <1>3 DEF BeginUnload
    <2>2. sourceList \in Seq(Instances)
      BY DEF IInv, TypeOK
    <2>3. /\ LoadedBackends' = LoadedBackends
          /\ LoadedSources = Range(sourceList)
          /\ LoadedSources' = {sourceList[i] : i \in 1 .. Len(sourceList)}
      BY <2>1 DEF LoadedBackends, LoadedSources, lists
    <2>4. LoadedSources' = LoadedSources
      BY <2>2, <2>3, RangeFromOne
    <2>5. TypeOK'
      BY <2>1 DEF IInv, TypeOK, lists, libraries, threads
    <2> QED BY <2>1, <2>3, <2>4, <2>5, OnlyPhase DEF Held
  <1>4. CASE InitReturns \/ Plug \/ UNCHANGED vars
    <2>1. /\ UNCHANGED <<directory, phase, pos, libraries, lists, threads>>
          /\ initializing' \subseteq initializing
      BY <1>4 DEF InitReturns, Plug, vars
    <2>2. hardware' \subseteq Backends /\ plugged' \in Nat
      BY <1>4 DEF InitReturns, Plug, vars, IInv, TypeOK
    <2>3. LoadedBackends' = LoadedBackends /\ LoadedSources' = LoadedSources
      BY <2>1 DEF LoadedBackends, LoadedSources, lists
    <2>4. TypeOK'
      BY <2>1, <2>2 DEF IInv, TypeOK, lists, libraries, threads
    <2>5. Shared'
      BY <2>1, <2>3, SharedSame DEF IInv, Held
    <2>6. Sorted' /\ Aligned'
      BY <2>1 DEF IInv, Sorted, Aligned, SameLibs, lists
    <2> QED BY <2>1, <2>3, <2>4, <2>5, <2>6 DEF IInv
  <1> QED BY <1>1, <1>2, <1>3, <1>4, LoadBackendStep, LoadSourceStep, NextDirectory,
             UnloadSourceStep, UnloadBackendStep, SourcesUnloadedStep, BackendsUnloadedStep
          DEF Next

\* Every variable of the loader keeps its type.
THEOREM TypeCorrect == Spec => []TypeOK
  <1>1. IInv => TypeOK
    BY DEF IInv
  <1> QED BY <1>1, IInvInit, IInvStep, PTL DEF Spec

\* The one instance of a library that is loaded is counted once.
LEMMA CountedOnce ==
    ASSUME IInv, NEW l \in Libs
    PROVE  loaders[l] = Cardinality({x \in Held : x[1] = l})
  <1> DEFINE mine == {x \in Held : x[1] = l}
  <1>1. CASE loaders[l] = 0
    <2>1. mine = {}
      BY <1>1 DEF IInv, Shared
    <2> HIDE DEF mine
    <2>2. Cardinality(mine) = 0
      BY <2>1, FS_EmptySet
    <2> QED BY <1>1, <2>2 DEF mine
  <1>2. CASE loaders[l] # 0
    <2>1. PICK x \in Held : x[1] = l
      BY <1>2 DEF IInv, Shared
    <2>2. mine = {<<l, born[l]>>} /\ loaders[l] = 1
      BY <2>1, OneOfALibrary DEF IInv
    <2> HIDE DEF mine
    <2>3. Cardinality(mine) = 1
      BY <2>2, FS_Singleton
    <2> QED BY <2>2, <2>3 DEF mine
  <1> QED BY <1>1, <1>2

\* The lists hold living plug-ins, each once and next to its own loader, init() runs in
\* living ones only, and no library is left loaded that no list holds: for any libraries
\* and links, and whatever the hardware does.
THEOREM Alives == Spec => []PluginsAlive
  <1>1. IInv => PluginsAlive
    <2> SUFFICES ASSUME IInv PROVE PluginsAlive
      OBVIOUS
    <2>1. \A x \in LoadedBackends \cup LoadedSources \cup initializing : Alive(x)
      BY DEF IInv, Shared, Held, Alive
    <2>2. \A l \in Libs : loaders[l] = Cardinality({x \in LoadedBackends \cup LoadedSources : x[1] = l})
      BY CountedOnce DEF Held
    <2>3. backendLoaderList \in Seq(Libs) /\ sourceLoaderList \in Seq(Libs)
      BY DEF IInv, TypeOK
    <2>4. phase # "gone" => [i \in DOMAIN backendList |-> backendList[i][1]] = backendLoaderList
      BY <2>3 DEF IInv, Aligned, SameLibs
    <2>5. phase \in Directories \cup {"running"} =>
            [i \in DOMAIN sourceList |-> sourceList[i][1]] = sourceLoaderList
      BY <2>3 DEF IInv, Aligned, SameLibs, Directories
    <2> QED BY <2>1, <2>2, <2>4, <2>5 DEF IInv, Sorted, PluginsAlive
  <1> QED BY <1>1, IInvInit, IInvStep, PTL DEF Spec

-----------------------------------------------------------------------------
(* The order of the backends, as long as the hardware stays as it is.      *)

\* The files of both backend directories, and how many of them init() has been through.
BackendFiles == directory["nonThreaded"] \o directory["threaded"]
Done == CASE phase = "nonThreaded" -> pos - 1
          [] phase = "threaded" -> Len(directory["nonThreaded"]) + pos - 1
          [] OTHER -> Len(BackendFiles)

\* Of the first n files, those that give a backend, and the first of each library.
UsableIn(files, hw, n) == {i \in 1 .. n : files[i].named /\ files[i].lib \in hw}
FirstIn(files, hw, n) ==
    {i \in UsableIn(files, hw, n) :
        \A j \in UsableIn(files, hw, n) : files[j].lib = files[i].lib => i <= j}

\* The loaders ls are those of the first n files, each where its first link is.
InOrder(ls, files, hw, n) ==
    /\ Range(ls) = {files[i].lib : i \in UsableIn(files, hw, n)}
    /\ Len(ls) = Cardinality(FirstIn(files, hw, n))
    /\ \A i \in FirstIn(files, hw, n) :
         ls[Cardinality({j \in FirstIn(files, hw, n) : j <= i})] = files[i].lib

OrderInv ==
    plugged = 0 /\ phase \in {"nonThreaded", "threaded", "sources", "running"} =>
      /\ phase \in {"nonThreaded", "threaded"} => pos <= Len(directory[phase]) + 1
      /\ InOrder(backendLoaderList, BackendFiles, hardware, Done)
      /\ phase # "nonThreaded" =>
           nonThreadedBackendCount =
             Cardinality(FirstIn(BackendFiles, hardware, Len(directory["nonThreaded"])))

LEMMA FirstFinite ==
    ASSUME NEW files, NEW hw, NEW n \in Nat
    PROVE  IsFiniteSet(FirstIn(files, hw, n)) /\ FirstIn(files, hw, n) \subseteq 1 .. n
  <1>1. FirstIn(files, hw, n) \subseteq 1 .. n /\ IsFiniteSet(1 .. n)
    BY FS_Interval DEF FirstIn, UsableIn
  <1> QED BY <1>1, FS_Subset

\* One more file is the first of its library, or it changes nothing.
LEMMA FirstNext ==
    ASSUME NEW files, NEW hw, NEW n \in Nat
    PROVE  /\ UsableIn(files, hw, n + 1) =
                UsableIn(files, hw, n) \cup {i \in {n + 1} : files[i].named /\ files[i].lib \in hw}
           /\ FirstIn(files, hw, n + 1) =
                FirstIn(files, hw, n) \cup
                {i \in {n + 1} : /\ files[i].named /\ files[i].lib \in hw
                                 /\ \A j \in UsableIn(files, hw, n) : files[j].lib # files[i].lib}
  <1>1. 1 .. n + 1 = (1 .. n) \cup {n + 1}
    OBVIOUS
  <1>2. UsableIn(files, hw, n + 1) =
          UsableIn(files, hw, n) \cup {i \in {n + 1} : files[i].named /\ files[i].lib \in hw}
    BY <1>1 DEF UsableIn
  <1>3. \A i \in UsableIn(files, hw, n) : i \in Nat /\ i <= n
    BY DEF UsableIn
  <1>4. ASSUME NEW i \in FirstIn(files, hw, n + 1)
        PROVE  \/ i \in FirstIn(files, hw, n)
               \/ /\ i = n + 1 /\ files[i].named /\ files[i].lib \in hw
                  /\ \A j \in UsableIn(files, hw, n) : files[j].lib # files[i].lib
    <2>1. CASE i \in UsableIn(files, hw, n)
      BY <2>1, <1>2 DEF FirstIn
    <2>2. CASE i \notin UsableIn(files, hw, n)
      <3>1. i = n + 1 /\ files[i].named /\ files[i].lib \in hw
        BY <2>2, <1>2 DEF FirstIn
      <3>2. \A j \in UsableIn(files, hw, n) : files[j].lib # files[i].lib
        BY <3>1, <1>2, <1>3 DEF FirstIn
      <3> QED BY <3>1, <3>2
    <2> QED BY <2>1, <2>2
  <1>5. ASSUME NEW i \in FirstIn(files, hw, n)
        PROVE  i \in FirstIn(files, hw, n + 1)
    BY <1>2, <1>3 DEF FirstIn
  <1>6. ASSUME files[n + 1].named, files[n + 1].lib \in hw,
               \A j \in UsableIn(files, hw, n) : files[j].lib # files[n + 1].lib
        PROVE  n + 1 \in FirstIn(files, hw, n + 1)
    BY <1>2, <1>6 DEF FirstIn
  <1> QED BY <1>2, <1>4, <1>5, <1>6

\* A file that gives no backend, or one of a library that is loaded.
LEMMA OrderKept ==
    ASSUME NEW files, NEW hw, NEW n \in Nat, NEW ls, InOrder(ls, files, hw, n),
           (files[n + 1].named /\ files[n + 1].lib \in hw) => files[n + 1].lib \in Range(ls)
    PROVE  InOrder(ls, files, hw, n + 1)
  <1> DEFINE usable == files[n + 1].named /\ files[n + 1].lib \in hw
  <1>1. usable => \E j \in UsableIn(files, hw, n) : files[j].lib = files[n + 1].lib
    BY DEF InOrder
  <1>2. FirstIn(files, hw, n + 1) = FirstIn(files, hw, n)
    <2>1. {i \in {n + 1} : /\ files[i].named /\ files[i].lib \in hw
                           /\ \A j \in UsableIn(files, hw, n) : files[j].lib # files[i].lib} = {}
      BY <1>1
    <2> QED BY <2>1, FirstNext
  <1>3. {files[i].lib : i \in UsableIn(files, hw, n + 1)} = {files[i].lib : i \in UsableIn(files, hw, n)}
    BY <1>1, FirstNext
  <1> QED BY <1>2, <1>3 DEF InOrder

\* A file whose library is not loaded yet.
LEMMA OrderGrows ==
    ASSUME NEW files, NEW hw, NEW n \in Nat, NEW ls \in Seq(Libs), InOrder(ls, files, hw, n),
           files[n + 1].named, files[n + 1].lib \in hw, files[n + 1].lib \in Libs \ Range(ls)
    PROVE  InOrder(Append(ls, files[n + 1].lib), files, hw, n + 1)
  <1> DEFINE l == files[n + 1].lib
             F == FirstIn(files, hw, n)
             G == FirstIn(files, hw, n + 1)
             more == Append(ls, l)
             Upto(i) == {j \in F : j <= i}
  <1>1. G = F \cup {n + 1} /\ UsableIn(files, hw, n + 1) = UsableIn(files, hw, n) \cup {n + 1}
    BY FirstNext DEF InOrder
  <1>2. IsFiniteSet(F) /\ F \subseteq 1 .. n /\ n + 1 \notin F
    BY FirstFinite
  <1>3. Range(ls) = {files[i].lib : i \in UsableIn(files, hw, n)} /\ Len(ls) = Cardinality(F)
        /\ \A i \in F : ls[Cardinality(Upto(i))] = files[i].lib
    BY DEF InOrder
  <1>4. l \in Libs
    OBVIOUS
  <1> HIDE DEF F, G, l
  <1>5. /\ more \in Seq(Libs) /\ Len(more) = Len(ls) + 1 /\ more[Len(ls) + 1] = l
        /\ \A k \in 1 .. Len(ls) : more[k] = ls[k]
        /\ Len(ls) \in Nat /\ DOMAIN ls = 1 .. Len(ls) /\ DOMAIN more = 1 .. Len(ls) + 1
    BY <1>4
  <1> HIDE DEF more
  <1>6. Range(more) = Range(ls) \cup {l}
    <2>1. 1 .. Len(ls) + 1 = (1 .. Len(ls)) \cup {Len(ls) + 1}
      BY <1>5
    <2>2. Range(more) = {more[k] : k \in 1 .. Len(ls) + 1} /\ Range(ls) = {ls[k] : k \in 1 .. Len(ls)}
      BY <1>5 DEF Range
    <2> QED BY <2>1, <2>2, <1>5
  <1>7. Range(more) = {files[i].lib : i \in UsableIn(files, hw, n + 1)}
    BY <1>1, <1>3, <1>6 DEF l
  <1>8. Len(more) = Cardinality(G)
    <2>1. Cardinality(F \cup {n + 1}) = Cardinality(F) + 1
      BY <1>2, FS_AddElement
    <2> QED BY <2>1, <1>1, <1>3, <1>5
  <1>9. ASSUME NEW i \in G
        PROVE  more[Cardinality({j \in G : j <= i})] = files[i].lib
    <2>1. CASE i = n + 1
      <3>1. \A j \in G : j <= i
        BY <2>1, <1>1, <1>2
      <3>2. {j \in G : j <= i} = G
        BY <3>1
      <3> QED BY <3>2, <2>1, <1>3, <1>5, <1>8 DEF l
    <2>2. CASE i # n + 1
      <3>1. i \in F /\ i \in 1 .. n
        BY <2>2, <1>1, <1>2
      <3>2. {j \in G : j <= i} = Upto(i)
        BY <3>1, <1>1
      <3>3. Upto(i) # {} /\ Upto(i) \subseteq F
        BY <3>1
      <3> HIDE DEF Upto
      <3>4. Cardinality(Upto(i)) <= Cardinality(F) /\ IsFiniteSet(Upto(i))
        BY <3>3, <1>2, FS_Subset
      <3>5. Cardinality(Upto(i)) \in Nat /\ Cardinality(Upto(i)) # 0
        BY <3>3, <3>4, FS_CardinalityType, FS_EmptySet
      <3>6. Cardinality(Upto(i)) \in 1 .. Len(ls)
        BY <3>4, <3>5, <1>3, <1>5
      <3>7. more[Cardinality(Upto(i))] = ls[Cardinality(Upto(i))]
        BY <3>6, <1>5
      <3> QED BY <3>1, <3>2, <3>7, <1>3
    <2> QED BY <2>1, <2>2
  <1>10. InOrder(more, files, hw, n + 1)
    BY <1>7, <1>8, <1>9 DEF InOrder, G
  <1> QED BY <1>10 DEF more, l

\* The file at hand is the next one of both directories.
LEMMA FilesAre ==
    ASSUME TypeOK
    PROVE  /\ directory["nonThreaded"] \in Seq(Files) /\ directory["threaded"] \in Seq(Files)
           /\ BackendFiles \in Seq(Files)
           /\ Len(BackendFiles) = Len(directory["nonThreaded"]) + Len(directory["threaded"])
           /\ InDirectory /\ phase # "sources" =>
                /\ Done \in Nat /\ Done + 1 \in 1 .. Len(BackendFiles)
                /\ File = BackendFiles[Done + 1] /\ File \in Files
  <1> DEFINE a == directory["nonThreaded"]
             b == directory["threaded"]
  <1>1. a \in Seq(Files) /\ b \in Seq(Files) /\ pos \in Nat \ {0}
    BY LoaderAssumption DEF TypeOK, Directories
  <1> HIDE DEF a, b
  <1>2. /\ BackendFiles \in Seq(Files) /\ Len(BackendFiles) = Len(a) + Len(b)
        /\ Len(a) \in Nat /\ Len(b) \in Nat
        /\ \A i \in 1 .. Len(a) + Len(b) :
              BackendFiles[i] = IF i <= Len(a) THEN a[i] ELSE b[i - Len(a)]
    <2>1. BackendFiles = a \o b
      BY DEF BackendFiles, a, b
    <2> QED BY <1>1, <2>1, ConcatProperties
  <1>3. ASSUME InDirectory, phase # "sources"
        PROVE  /\ Done \in Nat /\ Done + 1 \in 1 .. Len(BackendFiles)
               /\ File = BackendFiles[Done + 1] /\ File \in Files
    <2>1. CASE phase = "nonThreaded"
      <3>1. Done = pos - 1 /\ pos <= Len(a) /\ File = a[pos]
        BY <2>1, <1>3 DEF Done, InDirectory, File, a
      <3>2. pos \in 1 .. Len(a) + Len(b) /\ pos \in 1 .. Len(a) /\ (pos - 1) + 1 = pos
        BY <3>1, <1>1, <1>2
      <3>3. BackendFiles[pos] = a[pos] /\ a[pos] \in Files
        BY <3>1, <3>2, <1>1, <1>2
      <3> QED BY <3>1, <3>2, <3>3, <1>1, <1>2
    <2>2. CASE phase = "threaded"
      <3>1. Done = Len(a) + pos - 1 /\ pos <= Len(b) /\ File = b[pos]
        BY <2>2, <1>3 DEF Done, InDirectory, File, a, b
      <3>2. /\ Len(a) + pos \in 1 .. Len(a) + Len(b) /\ pos \in 1 .. Len(b)
            /\ (Len(a) + pos - 1) + 1 = Len(a) + pos /\ ~(Len(a) + pos <= Len(a))
            /\ (Len(a) + pos) - Len(a) = pos /\ Len(a) + pos - 1 \in Nat
        BY <3>1, <1>1, <1>2
      <3>3. BackendFiles[Len(a) + pos] = b[pos] /\ b[pos] \in Files
        BY <3>2, <1>1, <1>2
      <3> QED BY <3>1, <3>2, <3>3, <1>2
    <2> QED BY <2>1, <2>2, <1>3 DEF InDirectory, Directories
  <1> QED BY <1>1, <1>2, <1>3 DEF a, b

LEMMA OrderInit == Init => OrderInv
  <1> SUFFICES ASSUME Init PROVE OrderInv
    OBVIOUS
  <1>1. /\ phase = "nonThreaded" /\ pos = 1 /\ backendLoaderList = <<>>
        /\ directory["nonThreaded"] \in Seq(Files)
    BY LoaderAssumption DEF Init, Directories
  <1>2. Done = 0 /\ 1 <= Len(directory["nonThreaded"]) + 1
    BY <1>1 DEF Done
  <1>3. UsableIn(BackendFiles, hardware, 0) = {} /\ FirstIn(BackendFiles, hardware, 0) = {}
    BY DEF UsableIn, FirstIn
  <1>4. Range(<<>>) = {} /\ Len(<<>>) = Cardinality({})
    BY FS_EmptySet DEF Range
  <1>5. InOrder(<<>>, BackendFiles, hardware, 0)
    BY <1>3, <1>4 DEF InOrder
  <1> QED BY <1>1, <1>2, <1>5 DEF OrderInv

\* What each step that leaves a file behind does to the position.
LEMMA NextFile ==
    ASSUME TypeOK, OrderInv, plugged = 0, InDirectory, phase # "sources",
           UNCHANGED <<directory, hardware, phase>>, pos' = pos + 1
    PROVE  /\ Done \in Nat /\ Done' = Done + 1 /\ BackendFiles' = BackendFiles
           /\ phase \in {"nonThreaded", "threaded"} /\ pos' <= Len(directory[phase]) + 1
           /\ InOrder(backendLoaderList, BackendFiles, hardware, Done)
  <1>1. phase \in {"nonThreaded", "threaded"} /\ pos <= Len(directory[phase]) /\ pos \in Nat \ {0}
    BY DEF InDirectory, Directories, TypeOK
  <1>2. directory[phase] \in Seq(Files) /\ directory["nonThreaded"] \in Seq(Files)
    BY <1>1, FilesAre
  <1>3. Done' = Done + 1 /\ Done \in Nat
    BY <1>1, <1>2, FilesAre DEF Done
  <1> QED BY <1>1, <1>2, <1>3 DEF OrderInv, BackendFiles

\* A file that is left out.
LEMMA OrderFailed ==
    ASSUME IInv, OrderInv, InDirectory,
           ~(File.named /\ lib \in hardware) \/ phase = "sources" \/ lib \in Range(backendLoaderList),
           UNCHANGED <<directory, hardware, phase, lists, threads, plugged>>, pos' = pos + 1
    PROVE  OrderInv'
  <1> SUFFICES ASSUME plugged = 0 PROVE OrderInv'
    BY DEF OrderInv
  <1>1. TypeOK /\ backendLoaderList' = backendLoaderList
        /\ nonThreadedBackendCount' = nonThreadedBackendCount
    BY DEF IInv, lists, threads
  <1>2. CASE phase = "sources"
    <2>1. Done' = Done /\ BackendFiles' = BackendFiles
      BY <1>2 DEF Done, BackendFiles
    <2> QED BY <2>1, <1>1, <1>2 DEF OrderInv
  <1>3. CASE phase # "sources"
    <2>1. /\ Done \in Nat /\ Done' = Done + 1 /\ BackendFiles' = BackendFiles
          /\ phase \in {"nonThreaded", "threaded"} /\ pos' <= Len(directory[phase]) + 1
          /\ InOrder(backendLoaderList, BackendFiles, hardware, Done)
      BY <1>1, <1>3, NextFile
    <2>2. File = BackendFiles[Done + 1]
      BY <1>1, <1>3, FilesAre
    <2>3. InOrder(backendLoaderList, BackendFiles, hardware, Done + 1)
      BY <2>1, <2>2, <1>3, OrderKept DEF lib
    <2> QED BY <2>1, <2>3, <1>1 DEF OrderInv
  <1> QED BY <1>2, <1>3

LEMMA OrderLoaded ==
    ASSUME IInv, OrderInv, LoadBackend
    PROVE  OrderInv'
  <1> SUFFICES ASSUME plugged = 0 PROVE OrderInv'
    BY DEF OrderInv, LoadBackend, Keep
  <1>1. /\ InDirectory /\ phase # "sources" /\ File.named /\ lib \in hardware
        /\ Instance \notin Range(backendList)
        /\ backendLoaderList' = Append(backendLoaderList, lib) /\ pos' = pos + 1
        /\ nonThreadedBackendCount' = nonThreadedBackendCount
        /\ UNCHANGED <<directory, hardware, phase>>
    BY DEF LoadBackend, Keep, Detected, Reached, List, threads
  <1>2. TypeOK /\ backendLoaderList \in Seq(Libs) /\ SameLibs(backendList, backendLoaderList)
    BY <1>1 DEF IInv, TypeOK, Aligned, InDirectory, Directories
  <1>3. /\ Done \in Nat /\ Done' = Done + 1 /\ BackendFiles' = BackendFiles
        /\ phase \in {"nonThreaded", "threaded"} /\ pos' <= Len(directory[phase]) + 1
        /\ InOrder(backendLoaderList, BackendFiles, hardware, Done)
    BY <1>1, <1>2, NextFile
  <1>4. File = BackendFiles[Done + 1] /\ lib \in Libs
    BY <1>1, <1>2, FilesAre DEF Files, lib
  <1>5. lib \notin Range(backendLoaderList)
    <2> SUFFICES ASSUME NEW i \in DOMAIN backendLoaderList, backendLoaderList[i] = lib
                 PROVE  FALSE
      BY DEF Range
    <2>1. backendList[i] \in Range(backendList) /\ backendList[i][1] = lib
      BY <1>2 DEF SameLibs, Range
    <2>2. backendList[i] \in Held
      BY <2>1, <1>3 DEF Held, LoadedBackends
    <2>3. loaders[lib] = 1 /\ born[lib] = backendList[i][2]
      BY <2>1, <2>2 DEF IInv, Shared
    <2>4. backendList[i] \in Instances
      BY <2>2, HeldAreInstances, <1>2
    <2>5. backendList[i] = <<lib, born[lib]>>
      BY <2>1, <2>3, <2>4 DEF Instances
    <2>6. Instance = <<lib, born[lib]>>
      BY <2>3 DEF Instance, Born
    <2> QED BY <2>1, <2>5, <2>6, <1>1
  <1>6. InOrder(Append(backendLoaderList, lib), BackendFiles, hardware, Done + 1)
    <2>1. /\ BackendFiles[Done + 1].named /\ lib = BackendFiles[Done + 1].lib
      BY <1>1, <1>4 DEF lib
    <2> QED BY <2>1, <1>1, <1>2, <1>3, <1>4, <1>5, OrderGrows
  <1> QED BY <1>1, <1>3, <1>6 DEF OrderInv

LEMMA OrderNextDirectory ==
    ASSUME IInv, OrderInv, NonThreadedDone \/ ThreadedDone \/ SourcesDone
    PROVE  OrderInv'
  <1> SUFFICES ASSUME plugged = 0 PROVE OrderInv'
    BY DEF OrderInv, NonThreadedDone, ThreadedDone, SourcesDone
  <1>1. /\ EndOfDirectory /\ phase \in {"nonThreaded", "threaded", "sources"} /\ pos' = 1
        /\ UNCHANGED <<directory, hardware, backendLoaderList>>
    BY DEF NonThreadedDone, ThreadedDone, SourcesDone, lists
  <1>2. /\ directory["nonThreaded"] \in Seq(Files) /\ directory["threaded"] \in Seq(Files)
        /\ Len(BackendFiles) = Len(directory["nonThreaded"]) + Len(directory["threaded"])
        /\ BackendFiles' = BackendFiles /\ pos \in Nat
    BY <1>1, FilesAre DEF IInv, BackendFiles, TypeOK
  <1>3. /\ InOrder(backendLoaderList, BackendFiles, hardware, Done)
        /\ phase # "nonThreaded" =>
             nonThreadedBackendCount =
               Cardinality(FirstIn(BackendFiles, hardware, Len(directory["nonThreaded"])))
        /\ phase \in {"nonThreaded", "threaded"} => pos = Len(directory[phase]) + 1
    BY <1>1, <1>2 DEF OrderInv, EndOfDirectory
  <1>4. CASE NonThreadedDone
    <2>1. /\ phase = "nonThreaded" /\ phase' = "threaded"
          /\ nonThreadedBackendCount' = Len(backendList)
      BY <1>4 DEF NonThreadedDone
    <2>2. Done = Len(directory["nonThreaded"]) /\ Done' = Done /\ 1 <= Len(directory["threaded"]) + 1
      BY <2>1, <1>1, <1>2, <1>3 DEF Done
    <2>3. Len(backendList) = Len(backendLoaderList)
      BY <2>1 DEF IInv, Aligned, SameLibs, TypeOK
    <2> QED BY <2>1, <2>2, <2>3, <1>1, <1>2, <1>3 DEF OrderInv, InOrder
  <1>5. CASE ThreadedDone
    <2>1. /\ phase = "threaded" /\ phase' \in {"failed", "sources"}
          /\ nonThreadedBackendCount' = nonThreadedBackendCount
      BY <1>5 DEF ThreadedDone, threads
    <2>2. PICK a \in Nat, b \in Nat :
             a = Len(directory["nonThreaded"]) /\ b = Len(directory["threaded"])
      BY <1>2
    <2>3. Len(BackendFiles) = a + b /\ pos = b + 1
      BY <2>1, <2>2, <1>2, <1>3
    <2>4. Done = a + pos - 1
      BY <2>1, <2>2 DEF Done
    <2>5. Done' = Len(BackendFiles)
      BY <2>1, <1>2 DEF Done
    <2>6. Done' = Done
      BY <2>3, <2>4, <2>5
    <2> QED BY <2>1, <2>6, <1>1, <1>2, <1>3 DEF OrderInv
  <1>6. CASE SourcesDone
    <2>1. /\ phase = "sources" /\ phase' = "running"
          /\ nonThreadedBackendCount' = nonThreadedBackendCount
      BY <1>6 DEF SourcesDone
    <2>2. Done' = Done
      BY <2>1, <1>2 DEF Done
    <2> QED BY <2>1, <2>2, <1>1, <1>2, <1>3 DEF OrderInv
  <1> QED BY <1>4, <1>5, <1>6

\* Steps that neither read a file nor end a directory.
LEMMA OrderElsewhere ==
    ASSUME IInv, OrderInv,
           \/ LoadSource \/ BeginUnload \/ UnloadSource \/ SourcesUnloaded \/ UnloadBackend
           \/ BackendsUnloaded \/ InitReturns \/ Plug \/ UNCHANGED vars
    PROVE  OrderInv'
  <1>1. CASE InitReturns \/ UNCHANGED vars
    <2>1. UNCHANGED <<directory, hardware, phase, pos, lists, threads, plugged>>
      BY <1>1 DEF InitReturns, vars
    <2>2. Done' = Done /\ BackendFiles' = BackendFiles
      BY <2>1 DEF Done, BackendFiles
    <2> QED BY <2>1, <2>2 DEF OrderInv, lists, threads
  <1>2. CASE LoadSource
    <2>1. phase = "sources" /\ UNCHANGED <<directory, hardware, phase, backendLoaderList, threads, plugged>>
      BY <1>2 DEF LoadSource, Keep
    <2>2. Done' = Done /\ BackendFiles' = BackendFiles
      BY <2>1 DEF Done, BackendFiles
    <2> QED BY <2>1, <2>2 DEF OrderInv, threads
  <1>3. CASE Plug
    <2>1. plugged' # 0
      BY <1>3 DEF Plug, IInv, TypeOK
    <2> QED BY <2>1 DEF OrderInv
  <1>4. CASE BeginUnload \/ UnloadSource \/ SourcesUnloaded \/ UnloadBackend \/ BackendsUnloaded
    <2>1. phase' \in {"unloadSources", "unloadBackends", "gone"}
      BY <1>4 DEF BeginUnload, UnloadSource, SourcesUnloaded, UnloadBackend, BackendsUnloaded
    <2> QED BY <2>1 DEF OrderInv
  <1> QED BY <1>1, <1>2, <1>3, <1>4

LEMMA OrderStep == IInv /\ OrderInv /\ [Next]_vars => OrderInv'
  <1> SUFFICES ASSUME IInv, OrderInv, [Next]_vars PROVE OrderInv'
    OBVIOUS
  <1>1. hardware \subseteq Backends /\ \A l \in hardware : Kind[l] = "backend"
    BY DEF IInv, TypeOK, Backends
  <1>2. CASE Skip
    <2>1. ~(File.named /\ lib \in hardware)
      BY <1>1, <1>2 DEF Skip
    <2> QED BY <2>1, <1>2, OrderFailed DEF Skip
  <1>3. CASE WrongClass \/ NoHardware
    <2>1. lib \notin hardware \/ phase = "sources"
      BY <1>1, <1>3 DEF WrongClass, NoHardware, RightClass
    <2> QED BY <2>1, <1>3, OrderFailed DEF WrongClass, NoHardware, Reached, Failed
  <1>4. CASE AlreadyLoaded
    <2>1. phase = "sources" \/ lib \in Range(backendLoaderList)
      <3> SUFFICES ASSUME phase # "sources" PROVE lib \in Range(backendLoaderList)
        OBVIOUS
      <3>1. Instance \in Range(backendList) /\ phase # "gone"
        BY <1>4 DEF AlreadyLoaded, Detected, Reached, InDirectory, Directories, List
      <3>2. PICK i \in DOMAIN backendList : backendList[i] = Instance
        BY <3>1 DEF Range
      <3>3. i \in DOMAIN backendLoaderList /\ backendLoaderList[i] = lib
        BY <3>1, <3>2 DEF IInv, Aligned, SameLibs, Instance
      <3> QED BY <3>3 DEF Range
    <2> QED BY <2>1, <1>4, OrderFailed DEF AlreadyLoaded, Detected, Reached, Failed
  <1>5. CASE SourceRefused
    BY <1>5, OrderFailed DEF SourceRefused, Detected, Reached, Failed
  <1> QED BY <1>2, <1>3, <1>4, <1>5, OrderLoaded, OrderNextDirectory, OrderElsewhere DEF Next

\* As long as the hardware stays as it is, the backends are those of the non-threaded
\* directory before the others, each where its first link is, and the count that play()
\* tells the threaded ones by is right (mfmanager.cpp:91-104,
\* 262-345, mffeedback.cpp:189-202).
THEOREM Ordered == Spec => []LoadedInOrder
  <1>1. IInv /\ OrderInv => LoadedInOrder
    <2> SUFFICES ASSUME IInv, OrderInv, phase \in {"sources", "running"}, plugged = 0
                 PROVE  LoadedInOrder
      BY DEF LoadedInOrder
    <2> DEFINE files == directory["nonThreaded"] \o directory["threaded"]
               usable == {i \in DOMAIN files : files[i].named /\ files[i].lib \in hardware}
               first == {i \in usable : \A j \in usable : files[j].lib = files[i].lib => i <= j}
               n == Len(directory["nonThreaded"])
    <2>1. files = BackendFiles
      BY DEF BackendFiles
    <2>2. /\ files \in Seq(Files) /\ n \in Nat /\ n <= Len(files) /\ Len(files) \in Nat
          /\ DOMAIN files = 1 .. Len(files)
      <3>1. TypeOK
        BY DEF IInv
      <3>2. PICK a \in Nat, b \in Nat : a = n /\ b = Len(directory["threaded"])
        BY <3>1, FilesAre
      <3>3. Len(BackendFiles) = a + b /\ BackendFiles \in Seq(Files)
        BY <3>1, <3>2, FilesAre
      <3> HIDE DEF files, n
      <3> QED BY <3>2, <3>3, <2>1
    <2> HIDE DEF files, n
    <2>u. usable = UsableIn(files, hardware, Len(files))
      BY <2>2 DEF UsableIn
    <2>3. first = FirstIn(files, hardware, Len(files))
      BY <2>u DEF FirstIn
    <2>4. InOrder(backendLoaderList, files, hardware, Len(files))
          /\ nonThreadedBackendCount = Cardinality(FirstIn(files, hardware, n))
      BY <2>1 DEF OrderInv, Done, n
    <2> HIDE DEF usable
    <2>5. {i \in first : i <= n} = FirstIn(files, hardware, n)
      <3>1. UsableIn(files, hardware, n) = {i \in usable : i <= n}
        BY <2>2, <2>u DEF UsableIn
      <3>2. \A i \in usable : i \in Nat
        BY <2>u DEF UsableIn
      <3>3. ASSUME NEW i \in usable, i <= n,
                   \A j \in UsableIn(files, hardware, n) : files[j].lib = files[i].lib => i <= j
            PROVE  \A j \in usable : files[j].lib = files[i].lib => i <= j
        BY <3>1, <3>2, <3>3, <2>2
      <3> QED BY <3>1, <3>3 DEF FirstIn
    <2> HIDE DEF first
    <2>6. /\ Len(backendLoaderList) = Cardinality(first)
          /\ \A i \in first : backendLoaderList[Cardinality({j \in first : j <= i})] = files[i].lib
          /\ nonThreadedBackendCount = Cardinality({i \in first : i <= n})
      BY <2>3, <2>4, <2>5 DEF InOrder
    <2> QED BY <2>6 DEF LoadedInOrder, files, usable, first, n
  <1> QED BY <1>1, IInvInit, IInvStep, OrderInit, OrderStep, PTL DEF Spec

=============================================================================
