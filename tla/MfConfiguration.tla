--------------------------- MODULE MfConfiguration ---------------------------
(***************************************************************************)
(* From GConf to the volume a feedback is played with and to the current   *)
(* theme: what daemon/mfconfiguration_p.cpp reads at start and hears of    *)
(* later, the tables of lib/mfmanager.cpp, and the choice of               *)
(* MfFeedback::play (lib/mffeedback.cpp).                                  *)
(*                                                                         *)
(* GConf is external.  A volume key is <<directory, backend>>; other       *)
(* programs set and unset keys at any time, and each change of a           *)
(* subscribed key is queued, with the value it had then, for the main loop *)
(* of the daemon.  Names are abstracted to what the code makes of them:    *)
(* PrefixNumber is the number behind "priority" in the name of a           *)
(* directory, NamePriority the one in the name of a feedback.              *)
(***************************************************************************)
EXTENDS Integers, Sequences, SequencesExt

CONSTANTS
    Backends,
    General,         \* the directory of the general volumes
    Priorities,      \* the directories of priority 1, 2, ..., maxVolumePriority
    OtherDirs,       \* other directories below General
    PrefixNumber,    \* directory -> number; NotANumber if it has none
    NotANumber,
    Feedbacks,
    NamePriority,    \* feedback -> feedbackVolumePriority, as load() sets it
    UnknownStrings,  \* string values that name no volume
    Themes, DefaultTheme,
    Written,         \* the values other programs write to volume keys
    MaxWrites        \* bound on the changes other programs make

Volumes == {"off", "low", "medium", "high"}
Strings == Volumes \cup UnknownStrings
NotAString == "not a string"
Unset == "unset"
Values == Strings \cup {NotAString, Unset}
ThemeValues == Themes \cup {NotAString, Unset}

maxVolumePriority == Len(Priorities)
Ids == 0..maxVolumePriority
Dirs == {General} \cup Range(Priorities) \cup OtherDirs
Keys == Dirs \X Backends
ThemeKey == <<"theme", "name">>
NoVolume == "none"
NotRead == "not read"

ASSUME ConfigurationAssumption ==
    /\ Priorities \in Seq(Range(Priorities)) /\ IsInjective(Priorities)
    /\ General \notin Range(Priorities)
    /\ ThemeKey \notin Keys
    /\ OtherDirs \cap ({General} \cup Range(Priorities)) = {}
    /\ NotANumber \notin Int
    /\ PrefixNumber \in [Dirs \ {General} -> Int \cup {NotANumber}]
    /\ \A i \in DOMAIN Priorities : PrefixNumber[Priorities[i]] = i
    /\ NamePriority \in [Feedbacks -> Int]
    /\ UnknownStrings \cap (Volumes \cup {NotAString, Unset, NoVolume}) = {}
    /\ DefaultTheme \in Themes /\ Themes \cap {NotAString, Unset, NotRead} = {}
    /\ Written \subseteq Values /\ MaxWrites \in Nat

VARIABLES
    store,             \* GConf: the volume keys
    themeStore,        \* GConf: /meegotouch/theme/name
    writes,            \* changes made by other programs
    phase,             \* off, reading (between the two inits), running
    gconfClient,       \* the client exists
    notifications,     \* changes GConf has sent and the main loop has not served
    newTheme,          \* configuration.theme(), NotRead before it is called
    newVolumes,        \* what configuration.volumes() has read, one directory after the other
    currentThemeName, backendVolumes,    \* MfManager
    unknown            \* ghost: the keys whose value GConf has failed to tell

table == <<currentThemeName, backendVolumes>>
vars == <<store, themeStore, writes, phase, gconfClient, notifications,
          newTheme, newVolumes, table, unknown>>

-----------------------------------------------------------------------------
\* Mutant: the string is taken as it is.
toVolumeUnchecked(value) == value

\* MfConfigurationPrivate::toVolume; medium is also what both callers make of
\* a string that is no volume.
toVolume(value) == IF value \in Volumes THEN value ELSE "medium"

\* MfConfigurationPrivate::getVolumesOfDir, when GConf answers.
getVolumesOfDir(dir) ==
    [b \in Backends |-> IF store[<<dir, b>>] \in Strings THEN toVolume(store[<<dir, b>>]) ELSE NoVolume]

NoVolumes == [b \in Backends |-> NoVolume]

DirOf(id) == IF id = 0 THEN General ELSE Priorities[id]

\* Mutant: the last priority is left out.
VolumeIdExclusive(dir) ==
    IF dir = General THEN 0
    ELSE IF PrefixNumber[dir] # NotANumber /\ PrefixNumber[dir] < maxVolumePriority
           THEN PrefixNumber[dir] ELSE -1

\* The volume id emitVolumeChanged() finds in a path; -1 if there is none.
VolumeId(dir) ==
    IF dir = General THEN 0
    ELSE IF PrefixNumber[dir] # NotANumber /\ PrefixNumber[dir] <= maxVolumePriority
           THEN PrefixNumber[dir] ELSE -1

\* MfManager::setVolume.
setVolume(id, backend, volume) ==
    backendVolumes' = IF id \in DOMAIN backendVolumes
                        THEN [backendVolumes EXCEPT ![id][backend] = volume] ELSE backendVolumes

\* The volume MfFeedback::play passes to a backend: whatever lies in front of
\* the list if the name has a negative number, which nothing checks.
playVolume(feedback, backend) ==
    LET id == NamePriority[feedback]
    IN IF id < 0 THEN Volumes
       ELSE IF id \in DOMAIN backendVolumes /\ backendVolumes[id][backend] # NoVolume
              THEN {backendVolumes[id][backend]} ELSE {"medium"}

-----------------------------------------------------------------------------
Init ==
    /\ \E v \in Written : store = [k \in Keys |-> v]
    /\ themeStore \in ThemeValues
    /\ writes = 0
    /\ phase = "off"
    /\ gconfClient = FALSE
    /\ notifications = <<>>
    /\ newTheme = NotRead /\ newVolumes = <<>>
    /\ currentThemeName = NotRead /\ backendVolumes = <<>>
    /\ unknown = {}

\* Another program changes a key.  A subscribed client will hear of it.
Notify(key, value) ==
    notifications' = IF gconfClient THEN Append(notifications, <<key, value>>) ELSE notifications

SetVolumeKey(key, value) ==
    /\ writes < MaxWrites /\ store[key] # value
    /\ writes' = writes + 1
    /\ store' = [store EXCEPT ![key] = value]
    /\ Notify(key, value)
    /\ unknown' = IF gconfClient THEN unknown \ {key} ELSE unknown
    /\ UNCHANGED <<themeStore, phase, gconfClient, newTheme, newVolumes, table>>

SetThemeKey(value) ==
    /\ writes < MaxWrites /\ themeStore # value
    /\ writes' = writes + 1
    /\ themeStore' = value
    /\ Notify(ThemeKey, value)
    /\ unknown' = IF gconfClient THEN unknown \ {ThemeKey} ELSE unknown
    /\ UNCHANGED <<store, phase, gconfClient, newTheme, newVolumes, table>>

\* MfConfigurationPrivate::init: subscribes to the keys; without the client if
\* any of its steps fails.
ConfigurationInit ==
    /\ phase = "off"
    /\ phase' = "reading"
    /\ gconfClient' \in BOOLEAN
    /\ notifications' = <<>>
    /\ unknown' = {}
    /\ newTheme' = NotRead /\ newVolumes' = <<>>
    /\ UNCHANGED <<store, themeStore, writes, table>>

\* getTheme() and getVolumes() are arguments of one call; each getVolumesOfDir()
\* is a request to GConf, which may fail.
getTheme ==
    /\ phase = "reading" /\ newTheme = NotRead
    /\ \E ok \in {gconfClient, FALSE} :
         /\ newTheme' = IF ok /\ themeStore \in Themes THEN themeStore ELSE DefaultTheme
         /\ unknown' = IF ok THEN unknown \ {ThemeKey} ELSE unknown \cup {ThemeKey}
    /\ UNCHANGED <<store, themeStore, writes, phase, gconfClient, notifications, newVolumes, table>>

getVolumes ==
    /\ phase = "reading" /\ Len(newVolumes) <= maxVolumePriority
    /\ LET dir == DirOf(Len(newVolumes))
           keys == {dir} \X Backends
       IN \E ok \in {gconfClient, FALSE} :
            /\ newVolumes' = Append(newVolumes, IF ok THEN getVolumesOfDir(dir) ELSE NoVolumes)
            /\ unknown' = IF ok THEN unknown \ keys ELSE unknown \cup keys
    /\ UNCHANGED <<store, themeStore, writes, phase, gconfClient, notifications, newTheme, table>>

\* MfManager::init; the event loop runs after it.
ManagerInit ==
    /\ phase = "reading" /\ newTheme # NotRead /\ Len(newVolumes) = maxVolumePriority + 1
    /\ phase' = "running"
    /\ currentThemeName' = newTheme
    /\ backendVolumes' = [id \in Ids |-> newVolumes[id + 1]]
    /\ UNCHANGED <<store, themeStore, writes, gconfClient, notifications, newTheme, newVolumes, unknown>>

\* Mutant: the theme of the start is thought to be still the current one.
loadThemeIfNew(theme) ==
    currentThemeName' = IF theme = newTheme THEN currentThemeName ELSE theme

\* MfManager::loadTheme; what it makes the sessions do is MfTheming's matter.
loadTheme(theme) == currentThemeName' = theme

\* themeChangedCallback and volumeChangedCallback: a key that was unset, or set
\* to something else than a string, leaves the tables as they are.
themeChangedCallback(value) ==
    /\ IF value \in Themes THEN loadTheme(value) ELSE UNCHANGED currentThemeName
    /\ UNCHANGED backendVolumes

volumeChangedCallback(key, value) ==
    /\ IF value \in Strings /\ VolumeId(key[1]) >= 0
         THEN setVolume(VolumeId(key[1]), key[2], toVolume(value))
         ELSE UNCHANGED backendVolumes
    /\ UNCHANGED currentThemeName

ServeNotification ==
    /\ phase = "running" /\ notifications # <<>>
    /\ LET key == Head(notifications)[1]
           value == Head(notifications)[2]
       IN IF key = ThemeKey THEN themeChangedCallback(value) ELSE volumeChangedCallback(key, value)
    /\ notifications' = Tail(notifications)
    /\ UNCHANGED <<store, themeStore, writes, phase, gconfClient, newTheme, newVolumes, unknown>>

\* The event loop ends; the client goes with its notifications.
Quit ==
    /\ phase = "running"
    /\ phase' = "off"
    /\ gconfClient' = FALSE
    /\ notifications' = <<>>
    /\ currentThemeName' = NotRead /\ backendVolumes' = <<>>
    /\ UNCHANGED <<store, themeStore, writes, newTheme, newVolumes, unknown>>

Next ==
    \/ \E key \in Keys, value \in Written : SetVolumeKey(key, value)
    \/ \E value \in ThemeValues : SetThemeKey(value)
    \/ ConfigurationInit \/ getTheme \/ getVolumes \/ ManagerInit
    \/ ServeNotification
    \/ Quit

Spec == Init /\ [][Next]_vars

-----------------------------------------------------------------------------
Changes == (Keys \X Values) \cup ({ThemeKey} \X ThemeValues)
VolumeTable == [Backends -> Volumes \cup {NoVolume}]

TypeOK ==
    /\ store \in [Keys -> Values] /\ themeStore \in ThemeValues
    /\ writes \in 0..MaxWrites
    /\ phase \in {"off", "reading", "running"}
    /\ gconfClient \in BOOLEAN
    /\ notifications \in Seq(Changes)
    /\ newTheme \in Themes \cup {NotRead} /\ currentThemeName \in Themes \cup {NotRead}
    /\ newVolumes \in Seq(VolumeTable) /\ Len(newVolumes) <= maxVolumePriority + 1
    /\ backendVolumes \in IF phase = "running" THEN [Ids -> VolumeTable] ELSE {<<>>}
    /\ unknown \subseteq Keys \cup {ThemeKey}

\* The configuration category of a feedback and its key path, as
\* doc/src/configuration.dox describes them.
CategoryDir(feedback) ==
    IF NamePriority[feedback] \in DOMAIN Priorities THEN Priorities[NamePriority[feedback]] ELSE General

Settled == phase = "running" /\ gconfClient /\ notifications = <<>>

\* "The name of the feedback determines the configuration category" and the
\* category the key path of its volume (configuration.dox:14-26): with no
\* change waiting, every feedback is played on every backend with the volume
\* its key has, whether it was read at start, changed between the reads or
\* changed since.
PlaysAsConfigured ==
    Settled => \A f \in Feedbacks, b \in Backends :
        LET key == <<CategoryDir(f), b>>
        IN NamePriority[f] <= maxVolumePriority /\ key \notin unknown /\ store[key] \in Strings
             => playVolume(f, b) = {toVolume(store[key])}

\* With no change waiting, the current theme is the one GConf names, though
\* it is read before the event loop and heard of in it.
ThemeFollowsStore ==
    Settled /\ ThemeKey \notin unknown /\ themeStore \in Themes => currentThemeName = themeStore

=============================================================================
