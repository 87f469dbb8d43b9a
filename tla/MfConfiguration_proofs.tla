------------------------ MODULE MfConfiguration_proofs ------------------------
(***************************************************************************)
(* That the volume and theme tables follow GConf, for any backends,        *)
(* priorities, keys and values, and any number of changes before, between  *)
(* and after the reads.                                                    *)
(***************************************************************************)
EXTENDS MfConfiguration, TLAPS

\* No directory but those of the categories has a number of theirs in its
\* name ("priority0", "priority01"), and no feedback a negative one.
RegularNames ==
    /\ \A dir \in OtherDirs : PrefixNumber[dir] \notin Ids
    /\ NamePriority \in [Feedbacks -> Nat]

-----------------------------------------------------------------------------
(* Lemmas about ids and directories, and about the queue.                   *)

\* maxVolumePriority is a number and bounds the ids.
LEMMA IdRange == /\ maxVolumePriority \in Nat
                 /\ DOMAIN Priorities = 1..maxVolumePriority
                 /\ Ids = 0..maxVolumePriority
  BY ConfigurationAssumption DEF maxVolumePriority, Ids

\* Each id has a directory of its own.
LEMMA DirOfId ==
  ASSUME NEW id \in Ids
  PROVE  /\ DirOf(id) \in Dirs
         /\ \A other \in Ids : DirOf(other) = DirOf(id) => other = id
  <1>1. \A i \in 1..maxVolumePriority : Priorities[i] \in Range(Priorities)
    BY IdRange DEF Range
  <1>2. \A i, j \in 1..maxVolumePriority : Priorities[i] = Priorities[j] => i = j
    BY ConfigurationAssumption, IdRange DEF IsInjective
  <1> QED
    BY <1>1, <1>2, IdRange, ConfigurationAssumption DEF DirOf, Dirs

\* What emitVolumeChanged() finds in a path is -1 or the id of the directory.
LEMMA IdOfDir ==
  ASSUME RegularNames, NEW dir \in Dirs, VolumeId(dir) >= 0
  PROVE  VolumeId(dir) \in Ids /\ DirOf(VolumeId(dir)) = dir
  <1>1. CASE dir = General
    BY <1>1, IdRange DEF VolumeId, DirOf
  <1>2. CASE dir \in Range(Priorities)
    <2>1. PICK i \in 1..maxVolumePriority : dir = Priorities[i]
      BY <1>2, IdRange DEF Range
    <2>2. PrefixNumber[dir] = i /\ dir # General
      BY <2>1, <1>2, IdRange, ConfigurationAssumption
    <2>3. VolumeId(dir) = i
      BY <2>2, IdRange, ConfigurationAssumption DEF VolumeId
    <2> QED
      BY <2>1, <2>3, IdRange DEF DirOf
  <1>3. CASE dir \in OtherDirs
    <2>1. dir # General /\ PrefixNumber[dir] \notin Ids /\ PrefixNumber[dir] \in Int \cup {NotANumber}
      BY <1>3, ConfigurationAssumption DEF RegularNames, Dirs
    <2> QED
      BY <2>1, IdRange DEF VolumeId
  <1> QED
    BY <1>1, <1>2, <1>3 DEF Dirs

\* The id of a category's directory is the category's.
LEMMA DirOfDir ==
  ASSUME NEW id \in Ids
  PROVE  VolumeId(DirOf(id)) = id
  <1>1. CASE id = 0
    BY <1>1 DEF VolumeId, DirOf
  <1>2. CASE id # 0
    <2>1. id \in 1..maxVolumePriority /\ Priorities[id] # General /\ PrefixNumber[Priorities[id]] = id
      BY <1>2, IdRange, ConfigurationAssumption DEF Range
    <2> QED
      BY <1>2, <2>1, ConfigurationAssumption DEF VolumeId, DirOf
  <1> QED
    BY <1>1, <1>2

\* toVolume always names a volume.
LEMMA ToVolumeType == \A value : toVolume(value) \in Volumes
  BY DEF toVolume, Volumes

\* A directory read from GConf is a table of volumes.
LEMMA DirVolumesType ==
  \A dir : getVolumesOfDir(dir) \in VolumeTable /\ NoVolumes \in VolumeTable
  BY ToVolumeType DEF getVolumesOfDir, NoVolumes, VolumeTable

\* A change that is announced is queued, or nobody listens.
LEMMA NotifyType ==
  ASSUME TypeOK, NEW key, NEW value, <<key, value>> \in Changes, Notify(key, value)
  PROVE  notifications' \in Seq(Changes)
  BY DEF Notify, TypeOK

-----------------------------------------------------------------------------
(* Types.                                                                   *)

\* Every variable keeps its type, whatever other programs write and whichever
\* read fails: in particular the volume table has one row per priority from
\* the end of MfManager::init() on.
THEOREM TypeCorrect == Spec => []TypeOK
<1>1. Init => TypeOK
  <2> SUFFICES ASSUME Init PROVE TypeOK
    OBVIOUS
  <2>1. store \in [Keys -> Values]
    BY ConfigurationAssumption DEF Init
  <2>2. backendVolumes \in IF phase = "running" THEN [Ids -> VolumeTable] ELSE {<<>>}
    <3>1. phase # "running" /\ backendVolumes = <<>>
      BY DEF Init
    <3> QED
      BY <3>1, Zenon
  <2>3. /\ notifications \in Seq(Changes)
        /\ newVolumes \in Seq(VolumeTable) /\ Len(newVolumes) <= maxVolumePriority + 1
    BY IdRange DEF Init
  <2>4. /\ themeStore \in ThemeValues /\ writes \in 0..MaxWrites
        /\ phase \in {"off", "reading", "running"} /\ gconfClient \in BOOLEAN
        /\ newTheme \in Themes \cup {NotRead} /\ currentThemeName \in Themes \cup {NotRead}
        /\ unknown \subseteq Keys \cup {ThemeKey}
    <3>1. /\ writes = 0 /\ phase = "off" /\ gconfClient = FALSE /\ unknown = {}
          /\ newTheme = NotRead /\ currentThemeName = NotRead
      BY DEF Init
    <3>2. themeStore \in ThemeValues
      BY DEF Init
    <3>3. 0 \in 0..MaxWrites
      BY ConfigurationAssumption
    <3> QED
      BY <3>1, <3>2, <3>3, Zenon
  <2> QED
    BY <2>1, <2>2, <2>3, <2>4, Zenon DEF TypeOK
<1>2. TypeOK /\ [Next]_vars => TypeOK'
  <2> SUFFICES ASSUME TypeOK, [Next]_vars PROVE TypeOK'
    OBVIOUS
  <2>1. ASSUME NEW key \in Keys, NEW value \in Written, SetVolumeKey(key, value) PROVE TypeOK'
    <3>1. value \in Values /\ <<key, value>> \in Changes
      BY ConfigurationAssumption DEF Changes
    <3>2. notifications' \in Seq(Changes)
      BY <2>1, <3>1, NotifyType DEF SetVolumeKey
    <3> QED
      BY <2>1, <3>1, <3>2, ConfigurationAssumption DEF SetVolumeKey, TypeOK, table
  <2>2. ASSUME NEW value \in ThemeValues, SetThemeKey(value) PROVE TypeOK'
    <3>1. <<ThemeKey, value>> \in Changes
      BY DEF Changes
    <3>2. notifications' \in Seq(Changes)
      BY <2>2, <3>1, NotifyType DEF SetThemeKey
    <3> QED
      BY <2>2, <3>2, ConfigurationAssumption DEF SetThemeKey, TypeOK, table
  <2>3. CASE ConfigurationInit
    BY <2>3, IdRange DEF ConfigurationInit, TypeOK, table
  <2>4. CASE getTheme
    BY <2>4, ConfigurationAssumption DEF getTheme, TypeOK, table
  <2>5. CASE getVolumes
    <3>1. Len(newVolumes) \in Ids
      BY <2>5, IdRange DEF getVolumes, TypeOK
    <3>2. {DirOf(Len(newVolumes))} \X Backends \subseteq Keys
      BY <3>1, DirOfId DEF Keys
    <3>3. newVolumes' \in Seq(VolumeTable) /\ Len(newVolumes') <= maxVolumePriority + 1
      BY <2>5, IdRange, DirVolumesType DEF getVolumes, TypeOK
    <3>4. unknown' \subseteq Keys \cup {ThemeKey}
      BY <2>5, <3>2 DEF getVolumes, TypeOK
    <3> QED
      BY <2>5, <3>3, <3>4 DEF getVolumes, TypeOK, table
  <2>6. CASE ManagerInit
    <3>1. \A id \in Ids : newVolumes[id + 1] \in VolumeTable
      BY <2>6, IdRange DEF ManagerInit, TypeOK
    <3> QED
      BY <2>6, <3>1 DEF ManagerInit, TypeOK, table
  <2>7. CASE ServeNotification
    <3> DEFINE key == Head(notifications)[1]
               value == Head(notifications)[2]
    <3>1. Head(notifications) \in Changes /\ Tail(notifications) \in Seq(Changes)
      BY <2>7 DEF ServeNotification, TypeOK
    <3>2. CASE key = ThemeKey
      BY <2>7, <3>1, <3>2, ConfigurationAssumption
        DEF ServeNotification, themeChangedCallback, loadTheme, TypeOK, table
    <3>3. CASE key # ThemeKey
      <4>1. key \in Keys
        BY <3>1, <3>3 DEF Changes
      <4>2. key[2] \in Backends
        BY <4>1 DEF Keys
      <4>3. backendVolumes \in [Ids -> VolumeTable]
        BY <2>7 DEF ServeNotification, TypeOK
      <4>4. \/ backendVolumes' = backendVolumes
            \/ /\ VolumeId(key[1]) \in Ids
               /\ backendVolumes' = [backendVolumes EXCEPT ![VolumeId(key[1])][key[2]] = toVolume(value)]
        BY <2>7, <3>3, <4>3 DEF ServeNotification, volumeChangedCallback, setVolume
      <4>5. backendVolumes' \in [Ids -> VolumeTable]
        BY <4>2, <4>3, <4>4, ToVolumeType DEF VolumeTable
      <4> QED
        BY <2>7, <3>1, <3>3, <4>5 DEF ServeNotification, volumeChangedCallback, TypeOK, table
    <3> QED
      BY <3>2, <3>3
  <2>8. CASE Quit
    <3>1. phase' # "running" /\ backendVolumes' = <<>>
      BY <2>8 DEF Quit
    <3>2. backendVolumes' \in IF phase' = "running" THEN [Ids -> VolumeTable] ELSE {<<>>}
      BY <3>1, Zenon
    <3>3. /\ notifications' \in Seq(Changes)
          /\ newVolumes' \in Seq(VolumeTable) /\ Len(newVolumes') <= maxVolumePriority + 1
      BY <2>8 DEF Quit, TypeOK
    <3>4. /\ store' \in [Keys -> Values] /\ themeStore' \in ThemeValues /\ writes' \in 0..MaxWrites
          /\ phase' \in {"off", "reading", "running"} /\ gconfClient' \in BOOLEAN
          /\ newTheme' \in Themes \cup {NotRead} /\ currentThemeName' \in Themes \cup {NotRead}
          /\ unknown' \subseteq Keys \cup {ThemeKey}
      BY <2>8 DEF Quit, TypeOK
    <3> QED
      BY <3>2, <3>3, <3>4, Zenon DEF TypeOK
  <2>9. CASE UNCHANGED vars
    BY <2>9 DEF vars, TypeOK, table
  <2> QED
    BY <2>1, <2>2, <2>3, <2>4, <2>5, <2>6, <2>7, <2>8, <2>9 DEF Next
<1> QED
  BY <1>1, <1>2, PTL DEF Spec

-----------------------------------------------------------------------------
(* The tables follow GConf.  What is waiting is current: the last change of *)
(* a key in the queue is the value it has.  What is not waiting has been    *)
(* read or served: the table, or what has been read of it, has that value.  *)

Stored(key) == IF key = ThemeKey THEN themeStore ELSE store[key]

Pending(key) == \E i \in DOMAIN notifications : notifications[i][1] = key

\* The newest change waiting for a key is to the value the key has.
QueueCurrent ==
    gconfClient => \A i \in DOMAIN notifications :
        \/ \E j \in DOMAIN notifications : j > i /\ notifications[j][1] = notifications[i][1]
        \/ notifications[i][2] = Stored(notifications[i][1])

\* A volume that GConf could tell and no change is waiting for is known.
VolumeKnown(id, b) ==
    LET key == <<DirOf(id), b>>
    IN gconfClient /\ key \notin unknown /\ store[key] \in Strings /\ ~Pending(key) =>
         /\ phase = "reading" /\ id < Len(newVolumes) => newVolumes[id + 1][b] = toVolume(store[key])
         /\ phase = "running" => backendVolumes[id][b] = toVolume(store[key])

\* And so is the theme.
ThemeKnown ==
    gconfClient /\ ThemeKey \notin unknown /\ themeStore \in Themes /\ ~Pending(ThemeKey) =>
      /\ phase = "reading" /\ newTheme # NotRead => newTheme = themeStore
      /\ phase = "running" => currentThemeName = themeStore

Inv ==
    /\ QueueCurrent
    /\ \A id \in Ids, b \in Backends : VolumeKnown(id, b)
    /\ ThemeKnown

\* Serving a change: what waits in the tail was waiting, and the head is the
\* present value of its key unless a newer change of it waits.
LEMMA Served ==
  ASSUME TypeOK, QueueCurrent, gconfClient, notifications # <<>>, gconfClient' = gconfClient,
         notifications' = Tail(notifications), UNCHANGED <<store, themeStore>>
  PROVE  /\ QueueCurrent'
         /\ \A key : Pending(key) => Pending(key)' \/ key = Head(notifications)[1]
         /\ \A key : key = Head(notifications)[1] =>
                Pending(key)' \/ Head(notifications)[2] = Stored(key)
  <1> DEFINE n == Len(notifications)
  <1>1. /\ n \in Nat \ {0} /\ DOMAIN notifications = 1..n /\ DOMAIN notifications' = 1..(n - 1)
        /\ \A i \in 1..(n - 1) : notifications'[i] = notifications[i + 1]
        /\ Head(notifications) = notifications[1]
    BY DEF TypeOK
  <1>2. \A i \in 2..n : i - 1 \in 1..(n - 1) /\ notifications'[i - 1] = notifications[i]
    BY <1>1
  <1>3. \A key : Stored(key)' = Stored(key)
    BY DEF Stored
  <1>4. QueueCurrent'
    <2> SUFFICES ASSUME NEW i \in 1..(n - 1),
                        ~ \E j \in 1..(n - 1) : j > i /\ notifications'[j][1] = notifications'[i][1]
                 PROVE  (notifications[i][2] = Stored(notifications[i][1]))'
      BY <1>1, <1>3 DEF QueueCurrent
    <2>1. notifications'[i] = notifications[i + 1]
      BY <1>1
    <2>2. i + 1 \in 1..n
      BY <1>1
    <2>3. ASSUME NEW j \in 1..n, j > i + 1, notifications[j][1] = notifications[i + 1][1]
          PROVE  FALSE
      <3>1. j - 1 \in 1..(n - 1) /\ j - 1 > i /\ j \in 2..n
        BY <1>1, <2>3
      <3>2. notifications'[j - 1][1] = notifications'[i][1]
        BY <1>2, <2>1, <2>3, <3>1
      <3> QED
        BY <3>1, <3>2
    <2>4. notifications[i + 1][2] = Stored(notifications[i + 1][1])
      BY <1>1, <2>2, <2>3 DEF QueueCurrent
    <2> QED
      BY <1>3, <2>1, <2>4
  <1>5. ASSUME NEW key, Pending(key), ~Pending(key)' PROVE key = Head(notifications)[1]
    <2>1. PICK i \in 1..n : notifications[i][1] = key
      BY <1>1, <1>5 DEF Pending
    <2>2. ASSUME i # 1 PROVE FALSE
      <3>1. i - 1 \in DOMAIN notifications' /\ notifications'[i - 1][1] = key
        BY <1>1, <1>2, <2>1, <2>2
      <3> QED
        BY <1>5, <3>1 DEF Pending
    <2> QED
      BY <1>1, <2>1, <2>2
  <1>6. ASSUME NEW key, key = Head(notifications)[1], ~Pending(key)'
        PROVE  Head(notifications)[2] = Stored(key)
    <2>1. ASSUME NEW j \in 1..n, j > 1, notifications[j][1] = key PROVE FALSE
      <3>1. j - 1 \in DOMAIN notifications' /\ notifications'[j - 1][1] = key
        BY <1>1, <1>2, <2>1
      <3> QED
        BY <1>6, <3>1 DEF Pending
    <2> QED
      BY <1>1, <1>6, <2>1 DEF QueueCurrent
  <1> QED
    BY <1>4, <1>5, <1>6

\* A change that is announced to a client waits, with those that waited, and
\* is the newest.
LEMMA Announced ==
  ASSUME TypeOK, gconfClient, NEW key, NEW value, Notify(key, value)
  PROVE  /\ Pending(key)'
         /\ \A other : Pending(other) => Pending(other)'
         /\ \A i \in DOMAIN notifications' :
              \/ i \in DOMAIN notifications /\ notifications'[i] = notifications[i]
              \/ i = Len(notifications') /\ notifications'[i] = <<key, value>>
         /\ \A i \in DOMAIN notifications : i \in DOMAIN notifications' /\ i < Len(notifications')
         /\ Len(notifications') \in DOMAIN notifications'
         /\ notifications'[Len(notifications')] = <<key, value>>
  <1> DEFINE n == Len(notifications)
  <1>1. /\ n \in Nat /\ DOMAIN notifications = 1..n /\ DOMAIN notifications' = 1..(n + 1)
        /\ Len(notifications') = n + 1
        /\ \A i \in 1..n : notifications'[i] = notifications[i]
        /\ notifications'[n + 1] = <<key, value>>
    BY DEF TypeOK, Notify
  <1> QED
    BY <1>1 DEF Pending

\* The queue stays current when a key is written.
LEMMA AnnouncedCurrent ==
  ASSUME TypeOK, QueueCurrent, gconfClient, NEW key, NEW value, Notify(key, value),
         Stored(key)' = value, \A other \in (Keys \cup {ThemeKey}) \ {key} : Stored(other)' = Stored(other)
  PROVE  QueueCurrent'
  <1> SUFFICES ASSUME NEW i \in DOMAIN notifications',
                      ~ \E j \in DOMAIN notifications' :
                           j > i /\ notifications'[j][1] = notifications'[i][1]
               PROVE  (notifications[i][2] = Stored(notifications[i][1]))'
    BY DEF QueueCurrent
  <1>1. CASE i = Len(notifications') /\ notifications'[i] = <<key, value>>
    BY <1>1 DEF Stored
  <1>2. CASE i \in DOMAIN notifications /\ notifications'[i] = notifications[i]
    <2>1. notifications[i][1] # key
      BY <1>2, Announced
    <2>2. ~ \E j \in DOMAIN notifications : j > i /\ notifications[j][1] = notifications[i][1]
      <3> SUFFICES ASSUME NEW j \in DOMAIN notifications, j > i, notifications[j][1] = notifications[i][1]
                   PROVE  FALSE
        OBVIOUS
      <3>1. j \in DOMAIN notifications' /\ j < Len(notifications')
        BY Announced
      <3>2. notifications'[j] = notifications[j]
        BY <3>1, Announced
      <3> QED
        BY <1>2, <3>1, <3>2
    <2>3. notifications[i] \in Changes
      BY <1>2 DEF TypeOK
    <2>4. notifications[i][1] \in Keys \cup {ThemeKey}
      BY <2>3 DEF Changes
    <2> QED
      BY <1>2, <2>1, <2>2, <2>4 DEF QueueCurrent, Stored
  <1> QED
    BY <1>1, <1>2, Announced

\* Keys that are not the theme's and different ids have different keys.
LEMMA VolumeKey ==
  ASSUME NEW id \in Ids, NEW b \in Backends
  PROVE  <<DirOf(id), b>> \in Keys /\ <<DirOf(id), b>> # ThemeKey
  BY DirOfId, ConfigurationAssumption DEF Keys

\* A volume or theme key that is written and heard of.
LEMMA Heard ==
  ASSUME TypeOK, QueueCurrent, gconfClient,
         \/ \E key \in Keys, value \in Written : SetVolumeKey(key, value)
         \/ \E value \in ThemeValues : SetThemeKey(value)
  PROVE  /\ QueueCurrent'
         /\ \A key : Pending(key) => Pending(key)'
         /\ ThemeKnown => ThemeKnown'
<1>1. ASSUME NEW key \in Keys, NEW value \in Written, SetVolumeKey(key, value)
      PROVE  /\ QueueCurrent'
             /\ \A other : Pending(other) => Pending(other)'
             /\ ThemeKnown => ThemeKnown'
  <2>1. /\ Notify(key, value) /\ key # ThemeKey /\ store' = [store EXCEPT ![key] = value]
        /\ unknown' = unknown \ {key}
        /\ UNCHANGED <<themeStore, phase, gconfClient, newTheme, newVolumes, currentThemeName, backendVolumes>>
    BY <1>1, ConfigurationAssumption DEF SetVolumeKey, table
  <2>2. /\ Stored(key)' = value
        /\ \A other \in (Keys \cup {ThemeKey}) \ {key} : Stored(other)' = Stored(other)
    BY <2>1 DEF Stored, TypeOK
  <2>3. QueueCurrent'
    BY <2>1, <2>2, AnnouncedCurrent
  <2>4. \A other : Pending(other) => Pending(other)'
    BY <2>1, Announced
  <2> QED
    BY <2>1, <2>3, <2>4 DEF ThemeKnown
<1>2. ASSUME NEW value \in ThemeValues, SetThemeKey(value)
      PROVE  /\ QueueCurrent'
             /\ \A other : Pending(other) => Pending(other)'
             /\ ThemeKnown => ThemeKnown'
  <2>1. Notify(ThemeKey, value) /\ themeStore' = value /\ store' = store
    BY <1>2 DEF SetThemeKey
  <2>2. /\ Stored(ThemeKey)' = value
        /\ \A other \in (Keys \cup {ThemeKey}) \ {ThemeKey} : Stored(other)' = Stored(other)
    BY <2>1 DEF Stored
  <2>3. QueueCurrent'
    BY <2>1, <2>2, AnnouncedCurrent
  <2>4. Pending(ThemeKey)' /\ \A other : Pending(other) => Pending(other)'
    BY <2>1, Announced
  <2> QED
    BY <2>3, <2>4 DEF ThemeKnown
<1> QED
  BY <1>1, <1>2

\* What the main loop does when it serves a change.
LEMMA Serving ==
  ASSUME TypeOK, QueueCurrent, ServeNotification, gconfClient
  PROVE  /\ phase = "running" /\ Head(notifications) \in Changes
         /\ UNCHANGED <<store, themeStore, phase, gconfClient, unknown>>
         /\ IF Head(notifications)[1] = ThemeKey
              THEN themeChangedCallback(Head(notifications)[2])
              ELSE volumeChangedCallback(Head(notifications)[1], Head(notifications)[2])
         /\ QueueCurrent'
         /\ \A key : Pending(key) => Pending(key)' \/ key = Head(notifications)[1]
         /\ \A key : key = Head(notifications)[1] =>
                Pending(key)' \/ Head(notifications)[2] = Stored(key)
<1>1. /\ phase = "running" /\ notifications # <<>> /\ notifications' = Tail(notifications)
      /\ UNCHANGED <<store, themeStore, phase, gconfClient, unknown>>
      /\ IF Head(notifications)[1] = ThemeKey
           THEN themeChangedCallback(Head(notifications)[2])
           ELSE volumeChangedCallback(Head(notifications)[1], Head(notifications)[2])
  BY DEF ServeNotification
<1>2. Head(notifications) \in Changes
  BY <1>1 DEF TypeOK
<1> QED
  BY <1>1, <1>2, Served

\* No step breaks the queue or the theme, whatever the names.
LEMMA ThemeInductive ==
  ASSUME TypeOK, QueueCurrent, ThemeKnown, [Next]_vars
  PROVE  QueueCurrent' /\ ThemeKnown'
<1>1. CASE ~gconfClient'
  BY <1>1 DEF QueueCurrent, ThemeKnown
<1>2. CASE ConfigurationInit
  BY <1>2 DEF ConfigurationInit, QueueCurrent, ThemeKnown
<1>3. CASE Quit
  BY <1>3 DEF Quit, QueueCurrent, ThemeKnown
<1>4. ASSUME gconfClient', NEW key \in Keys, NEW value \in Written, SetVolumeKey(key, value)
      PROVE  QueueCurrent' /\ ThemeKnown'
  <2>1. gconfClient
    BY <1>4 DEF SetVolumeKey
  <2> QED
    BY <1>4, <2>1, Heard
<1>5. ASSUME gconfClient', NEW value \in ThemeValues, SetThemeKey(value)
      PROVE  QueueCurrent' /\ ThemeKnown'
  <2>1. gconfClient
    BY <1>5 DEF SetThemeKey
  <2> QED
    BY <1>5, <2>1, Heard
<1>6. CASE getTheme
  <2>1. UNCHANGED <<store, themeStore, phase, gconfClient, notifications>> /\ phase = "reading"
    BY <1>6 DEF getTheme
  <2> QED
    BY <1>6, <2>1 DEF getTheme, ThemeKnown, QueueCurrent, Stored
<1>7. CASE getVolumes
  <2>1. UNCHANGED <<store, themeStore, phase, gconfClient, notifications, newTheme, currentThemeName>>
    BY <1>7 DEF getVolumes, table
  <2>2. ThemeKey \notin unknown' => ThemeKey \notin unknown
    <3>1. Len(newVolumes) \in Ids
      BY <1>7, IdRange DEF getVolumes, TypeOK
    <3>2. ThemeKey \notin {DirOf(Len(newVolumes))} \X Backends
      BY <3>1, DirOfId, ConfigurationAssumption DEF Keys
    <3> QED
      BY <1>7, <3>2 DEF getVolumes
  <2> QED
    BY <2>1, <2>2 DEF ThemeKnown, QueueCurrent, Stored, Pending
<1>8. CASE ManagerInit
  BY <1>8 DEF ManagerInit, ThemeKnown, QueueCurrent, Stored, Pending
<1>9. ASSUME gconfClient', ServeNotification PROVE QueueCurrent' /\ ThemeKnown'
  <2> DEFINE change == Head(notifications)
  <2>1. gconfClient
    BY <1>9 DEF ServeNotification
  <2>2. CASE change[1] = ThemeKey
    <3>1. currentThemeName' = IF change[2] \in Themes THEN change[2] ELSE currentThemeName
      BY <1>9, <2>1, <2>2, Serving DEF themeChangedCallback, loadTheme
    <3> QED
      BY <1>9, <2>1, <2>2, <3>1, Serving DEF ThemeKnown, Stored
  <2>3. CASE change[1] # ThemeKey
    <3>1. currentThemeName' = currentThemeName
      BY <1>9, <2>1, <2>3, Serving DEF volumeChangedCallback
    <3> QED
      BY <1>9, <2>1, <2>3, <3>1, Serving DEF ThemeKnown
  <2> QED
    BY <2>2, <2>3
<1>10. CASE UNCHANGED vars
  BY <1>10 DEF vars, table, QueueCurrent, ThemeKnown, Pending, Stored
<1> QED
  BY <1>1, <1>2, <1>3, <1>4, <1>5, <1>6, <1>7, <1>8, <1>9, <1>10 DEF Next

\* Nor the volumes, with regular names.
LEMMA VolumesInductive ==
  ASSUME RegularNames, TypeOK, Inv, [Next]_vars,
         NEW id \in Ids, NEW b \in Backends
  PROVE  VolumeKnown(id, b)'
<1> DEFINE key == <<DirOf(id), b>>
<1>1. CASE ~gconfClient'
  BY <1>1 DEF VolumeKnown
<1>2. CASE ConfigurationInit
  <2>1. ~(id < Len(newVolumes')) /\ phase' = "reading"
    BY <1>2, IdRange DEF ConfigurationInit
  <2> QED
    BY <2>1 DEF VolumeKnown
<1>3. CASE Quit
  BY <1>3 DEF Quit, VolumeKnown
<1>4. ASSUME gconfClient', NEW k \in Keys, NEW value \in Written, SetVolumeKey(k, value)
      PROVE  VolumeKnown(id, b)'
  <2>1. /\ Notify(k, value) /\ store' = [store EXCEPT ![k] = value] /\ gconfClient
        /\ unknown' = unknown \ {k}
        /\ UNCHANGED <<phase, gconfClient, newVolumes, backendVolumes>>
    BY <1>4 DEF SetVolumeKey, table
  <2>2. Pending(k)' /\ \A other : Pending(other) => Pending(other)'
    BY <2>1, Announced
  <2>3. CASE key = k
    BY <2>2, <2>3 DEF VolumeKnown
  <2>4. CASE key # k
    <3>1. store'[key] = store[key]
      BY <2>1, <2>4, VolumeKey DEF TypeOK
    <3> QED
      BY <2>1, <2>2, <2>4, <3>1 DEF Inv, VolumeKnown
  <2> QED
    BY <2>3, <2>4
<1>5. ASSUME gconfClient', NEW value \in ThemeValues, SetThemeKey(value)
      PROVE  VolumeKnown(id, b)'
  <2>1. /\ gconfClient /\ unknown' = unknown \ {ThemeKey}
        /\ UNCHANGED <<store, phase, gconfClient, newVolumes, backendVolumes>>
    BY <1>5 DEF SetThemeKey, table
  <2>2. \A other : Pending(other) => Pending(other)'
    BY <1>5, <2>1, Heard DEF Inv
  <2> QED
    BY <2>1, <2>2, VolumeKey DEF Inv, VolumeKnown
<1>6. CASE getTheme
  <2>1. /\ key \notin unknown' => key \notin unknown
        /\ UNCHANGED <<store, phase, gconfClient, notifications, newVolumes, backendVolumes>>
    BY <1>6, VolumeKey DEF getTheme, table
  <2> QED
    BY <2>1 DEF Inv, VolumeKnown, Pending
<1>7. CASE getVolumes
  <2> DEFINE n == Len(newVolumes)
             keys == {DirOf(n)} \X Backends
  <2>1. /\ phase = "reading" /\ n \in Ids
        /\ UNCHANGED <<store, phase, gconfClient, notifications, backendVolumes>>
    BY <1>7, IdRange DEF getVolumes, table, TypeOK
  <2>2. PICK ok \in {gconfClient, FALSE} :
          /\ newVolumes' = Append(newVolumes, IF ok THEN getVolumesOfDir(DirOf(n)) ELSE NoVolumes)
          /\ unknown' = IF ok THEN unknown \ keys ELSE unknown \cup keys
    BY <1>7 DEF getVolumes
  <2>3. /\ Len(newVolumes') = n + 1
        /\ \A i \in 1..n : newVolumes'[i] = newVolumes[i]
        /\ newVolumes'[n + 1] = IF ok THEN getVolumesOfDir(DirOf(n)) ELSE NoVolumes
    BY <2>2 DEF TypeOK
  <2>4. CASE id = n
    <3>1. SUFFICES ASSUME key \notin unknown', store[key] \in Strings
                   PROVE  newVolumes'[id + 1][b] = toVolume(store[key])
      BY <2>1 DEF VolumeKnown
    <3>2. key \in keys
      BY <2>4
    <3>3. ok
      BY <2>2, <3>1, <3>2
    <3> QED
      BY <2>3, <2>4, <3>1, <3>3 DEF getVolumesOfDir
  <2>5. CASE id # n
    <3>1. key \notin keys
      BY <2>1, <2>5, DirOfId
    <3>2. key \notin unknown' => key \notin unknown
      BY <2>2, <3>1
    <3>3. id < Len(newVolumes') => id < n /\ id + 1 \in 1..n
      BY <2>1, <2>3, <2>5, IdRange
    <3>4. id < Len(newVolumes') => newVolumes'[id + 1] = newVolumes[id + 1]
      BY <2>3, <3>3
    <3> QED
      BY <2>1, <3>2, <3>3, <3>4 DEF Inv, VolumeKnown, Pending
  <2> QED
    BY <2>4, <2>5
<1>8. CASE ManagerInit
  <2>1. /\ phase = "reading" /\ phase' = "running" /\ Len(newVolumes) = maxVolumePriority + 1
        /\ backendVolumes' = [i \in Ids |-> newVolumes[i + 1]]
        /\ UNCHANGED <<store, gconfClient, notifications, unknown>>
    BY <1>8 DEF ManagerInit
  <2>2. id < Len(newVolumes) /\ backendVolumes'[id][b] = newVolumes[id + 1][b]
    BY <2>1, IdRange
  <2> QED
    BY <2>1, <2>2 DEF Inv, VolumeKnown, Pending
<1>9. ASSUME gconfClient', ServeNotification PROVE VolumeKnown(id, b)'
  <2> DEFINE change == Head(notifications)
  <2>1. gconfClient
    BY <1>9 DEF ServeNotification
  <2>2. /\ phase = "running" /\ change \in Changes
        /\ UNCHANGED <<store, phase, gconfClient, unknown>>
        /\ IF change[1] = ThemeKey THEN themeChangedCallback(change[2])
                                   ELSE volumeChangedCallback(change[1], change[2])
        /\ \A k : Pending(k) => Pending(k)' \/ k = change[1]
        /\ \A k : k = change[1] => Pending(k)' \/ change[2] = Stored(k)
    BY <1>9, <2>1, Serving DEF Inv
  <2>3. backendVolumes \in [Ids -> VolumeTable]
    BY <2>2 DEF TypeOK
  <2>4. CASE change[1] = ThemeKey
    <3>1. backendVolumes' = backendVolumes
      BY <2>2, <2>4 DEF themeChangedCallback
    <3>2. Pending(key) => Pending(key)'
      BY <2>2, <2>4, VolumeKey
    <3> QED
      BY <2>2, <3>1, <3>2 DEF Inv, VolumeKnown
  <2>5. CASE change[1] # ThemeKey
    <3>1. change[1] \in Keys /\ change[1] = <<change[1][1], change[1][2]>>
          /\ change[1][1] \in Dirs /\ change[1][2] \in Backends
      BY <2>2, <2>5 DEF Changes, Keys
    <3>2. IF change[2] \in Strings /\ VolumeId(change[1][1]) >= 0
            THEN setVolume(VolumeId(change[1][1]), change[1][2], toVolume(change[2]))
            ELSE UNCHANGED backendVolumes
      BY <2>2, <2>5 DEF volumeChangedCallback
    <3>3. SUFFICES ASSUME key \notin unknown, store[key] \in Strings, ~Pending(key)'
                   PROVE  backendVolumes'[id][b] = toVolume(store[key])
      BY <2>2 DEF VolumeKnown
    <3>4. CASE key = change[1]
      <4>1. change[2] = store[key]
        BY <2>2, <3>3, <3>4, VolumeKey DEF Stored
      <4>2. VolumeId(change[1][1]) = id /\ id >= 0 /\ change[1][2] = b
        BY <3>1, <3>4, DirOfDir, IdRange
      <4>3. backendVolumes' = [backendVolumes EXCEPT ![id][b] = toVolume(store[key])]
        BY <2>3, <3>2, <3>3, <4>1, <4>2 DEF setVolume
      <4> QED
        BY <2>3, <4>3 DEF VolumeTable
    <3>5. CASE key # change[1]
      <4>1. ~Pending(key)
        BY <2>2, <3>3, <3>5
      <4>2. backendVolumes[id][b] = toVolume(store[key])
        BY <2>1, <2>2, <3>3, <4>1 DEF Inv, VolumeKnown
      <4>3. VolumeId(change[1][1]) >= 0 => VolumeId(change[1][1]) # id \/ change[1][2] # b
        <5>1. SUFFICES ASSUME VolumeId(change[1][1]) >= 0, VolumeId(change[1][1]) = id, change[1][2] = b
                       PROVE  FALSE
          OBVIOUS
        <5>2. DirOf(id) = change[1][1]
          BY <3>1, <5>1, IdOfDir
        <5> QED
          BY <3>1, <3>5, <5>1, <5>2
      <4> QED
        BY <2>3, <3>1, <3>2, <4>2, <4>3 DEF setVolume, VolumeTable
    <3> QED
      BY <3>4, <3>5
  <2> QED
    BY <2>4, <2>5
<1>10. CASE UNCHANGED vars
  BY <1>10 DEF vars, table, Inv, VolumeKnown, Pending
<1> QED
  BY <1>1, <1>2, <1>3, <1>4, <1>5, <1>6, <1>7, <1>8, <1>9, <1>10 DEF Next

\* The invariant gives the volumes played.
LEMMA InvImplies ==
  ASSUME RegularNames, TypeOK, Inv
  PROVE  PlaysAsConfigured
<1> SUFFICES ASSUME Settled, NEW f \in Feedbacks, NEW b \in Backends,
                    NamePriority[f] <= maxVolumePriority,
                    <<CategoryDir(f), b>> \notin unknown,
                    store[<<CategoryDir(f), b>>] \in Strings
             PROVE  playVolume(f, b) = {toVolume(store[<<CategoryDir(f), b>>])}
  BY DEF PlaysAsConfigured
<1> DEFINE id == NamePriority[f]
<1>1. \A key : ~Pending(key)
  BY DEF Settled, Pending
<1>2. id \in Ids /\ id >= 0
  BY IdRange DEF RegularNames
<1>3. CategoryDir(f) = DirOf(id)
  BY <1>2, IdRange DEF CategoryDir, DirOf
<1>4. backendVolumes[id][b] = toVolume(store[<<DirOf(id), b>>])
  BY <1>1, <1>2, <1>3 DEF Inv, VolumeKnown, Settled
<1>5. DOMAIN backendVolumes = Ids
  BY DEF Settled, TypeOK
<1>6. toVolume(store[<<DirOf(id), b>>]) # NoVolume
  BY ToVolumeType DEF Volumes, NoVolume
<1>7. backendVolumes[id][b] # NoVolume /\ ~(id < 0)
  BY <1>2, <1>4, <1>6, IdRange
<1>8. playVolume(f, b) = {backendVolumes[id][b]}
  BY <1>2, <1>5, <1>7, Zenon DEF playVolume
<1> QED
  BY <1>3, <1>4, <1>8, Zenon

\* Once all changes are served, the current theme is the stored one, though it
\* is read before the event loop and heard of in it: whatever the names of
\* directories and feedbacks, and however many programs write.
THEOREM ThemeFollows == Spec => []ThemeFollowsStore
<1>1. Init => QueueCurrent /\ ThemeKnown
  BY DEF Init, QueueCurrent, ThemeKnown
<1>2. TypeOK /\ (QueueCurrent /\ ThemeKnown) /\ [Next]_vars => (QueueCurrent /\ ThemeKnown)'
  BY ThemeInductive
<1>3. QueueCurrent /\ ThemeKnown => ThemeFollowsStore
  BY DEF ThemeKnown, ThemeFollowsStore, Settled, Pending
<1> QED
  BY <1>1, <1>2, <1>3, TypeCorrect, PTL DEF Spec

\* With regular names every feedback is then played with the volume of its
\* category's key: for any number of programs writing any keys at any time.
THEOREM Configured == ASSUME RegularNames
                      PROVE  Spec => []PlaysAsConfigured
<1>1. Init => Inv
  BY DEF Init, Inv, QueueCurrent, VolumeKnown, ThemeKnown
<1>2. TypeOK /\ Inv /\ [Next]_vars => Inv'
  BY ThemeInductive, VolumesInductive DEF Inv
<1>3. TypeOK /\ Inv => PlaysAsConfigured
  BY InvImplies
<1> QED
  BY <1>1, <1>2, <1>3, TypeCorrect, PTL DEF Spec

=============================================================================
