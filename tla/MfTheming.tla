------------------------------ MODULE MfTheming ------------------------------
(***************************************************************************)
(* Which directories a feedback is loaded from: the theme directories on   *)
(* disk, the lists lib/mfutil.cpp makes of them, and a session that is set *)
(* up from the lists of the current theme and reloaded when the theme      *)
(* changes (lib/mfsession.cpp).                                            *)
(*                                                                         *)
(* A theme tree is what is on disk: which themes have a directory, which   *)
(* theme each one's index.theme inherits (NoTheme if the file or the entry *)
(* is missing), and the names of the feedback directories it has for       *)
(* everybody ("common", <theme>/meegotouch/feedbacks) and for the          *)
(* application of the session ("app", <theme>/meegotouch/<app>/feedbacks). *)
(* A feedback directory is <<theme, kind, name>>.                          *)
(***************************************************************************)
EXTENDS Integers, Sequences, FiniteSets, SequencesExt

CONSTANTS
    Themes, Base,     \* Base is MeegoDefaultTheme
    NoTheme,
    NameOrder,        \* all directory names, in the order QDir lists them
    IllFormed,        \* those that break the naming conventions
    FallbackName,     \* "press-x" -> "press"; a name without a dash -> NoName
    NoName,
    Trees,            \* what may be on disk when the daemon starts
    UpdatedTrees,     \* what a package update may leave there
    MaxChanges        \* bound on theme changes

Names == Range(NameOrder)

TreeType == [installed : SUBSET Themes, inherits : [Themes -> Themes \cup {NoTheme}],
             common : [Themes -> SUBSET Names], app : [Themes -> SUBSET Names]]

ASSUME ThemingAssumption ==
    /\ IsFiniteSet(Themes) /\ Base \in Themes /\ NoTheme \notin Themes
    /\ NameOrder \in Seq(Names) /\ IsInjective(NameOrder) /\ NoName \notin Names
    /\ FallbackName \in [Names -> Names \cup {NoName}]
    /\ \A n \in Names : FallbackName[n] # NoName => FallbackName[FallbackName[n]] = NoName
    /\ Trees \subseteq TreeType /\ UpdatedTrees \subseteq TreeType
    /\ MaxChanges \in Nat

VARIABLES
    tree,               \* the disk
    currentThemeName,   \* MfManager::currentThemeName
    changes,            \* theme changes so far
    posted,             \* themeChanged calls posted to the session
    session,            \* none, scheduled, ready; aborted: qFatal(); endless: no way out of a recursion
    feedbackHash,       \* feedback name -> the list it was last loaded from
    lastRead,           \* ghost: the disk when the session last made its lists
    firstRead           \* ghost: the disk when the session was set up

ghosts == <<lastRead, firstRead>>
vars == <<tree, currentThemeName, changes, posted, session, feedbackHash, ghosts>>

-----------------------------------------------------------------------------
(* lib/mfutil.cpp: the lists.  tr is the disk at the time of the call.      *)

NameOf(dir) == dir[3]

\* The names listed, in the order of QDir.
Listing(listed) ==
    LET names[i \in 0 .. Len(NameOrder)] ==
            IF i = 0 THEN <<>>
            ELSE IF NameOrder[i] \in listed THEN Append(names[i - 1], NameOrder[i])
                                            ELSE names[i - 1]
    IN names[Len(NameOrder)]

\* Mutant: any directory is a feedback.
ListAll(listed, theme, kind) ==
    LET names == Listing(listed)
    IN [i \in DOMAIN names |-> <<theme, kind, names[i]>>]

getFeedbackDirsFromPath(listed, theme, kind) ==
    LET names == Listing(listed \ IllFormed)
    IN [i \in DOMAIN names |-> <<theme, kind, names[i]>>]

\* Mutant: the application's directories come first, so they end up behind
\* the common ones; and, in the base theme, beside them.
AppDirsFirst(tr, theme) ==
    getFeedbackDirsFromPath(tr.app[theme], theme, "app")
      \o getFeedbackDirsFromPath(tr.common[theme], theme, "common")

\* The base theme's application directories take the place of its common
\* ones; another theme's come after them.
getFeedbackDirsOfATheme(tr, theme) ==
    LET common == getFeedbackDirsFromPath(tr.common[theme], theme, "common")
        app == getFeedbackDirsFromPath(tr.app[theme], theme, "app")
        missing == getFeedbackDirsFromPath(tr.app[theme] \ tr.common[theme], theme, "app")
    IN IF theme # Base
         THEN common \o app
         ELSE [i \in DOMAIN common |->
                  IF NameOf(common[i]) \in tr.app[theme] THEN <<theme, "app", NameOf(common[i])>>
                                                         ELSE common[i]]
              \o missing

\* Base first.  Empty if the chain is broken.  The code recurses for ever if
\* it is a circle: here such a chain is longer than there are themes.
getThemeInheritanceChain(tr, themeName) ==
    LET chain[n \in 0..Cardinality(Themes)] ==
            [theme \in Themes \cup {NoTheme} |->
                CASE theme \notin tr.installed -> <<>>
                  [] theme \in tr.installed /\ theme = Base -> <<Base>>
                  [] OTHER -> IF n = 0 THEN <<theme>>
                              ELSE LET themeDirs == chain[n - 1][tr.inherits[theme]]
                                   IN IF themeDirs = <<>> THEN <<>> ELSE Append(themeDirs, theme)]
    IN chain[Cardinality(Themes)][themeName]

Endless(themeDirs) == Len(themeDirs) > Cardinality(Themes)

\* Mutant: no theme, no feedbacks.
OwnDirsOnly(tr, theme) == getThemeInheritanceChain(tr, theme)

\* With the base theme's chain when the theme's own is broken.
ThemeDirs(tr, theme) ==
    LET own == getThemeInheritanceChain(tr, theme)
    IN IF own = <<>> THEN getThemeInheritanceChain(tr, Base) ELSE own

findFeedbackFallbackPaths(names, lists) ==
    [i \in DOMAIN lists |->
        LET same == {j \in DOMAIN names : names[j] = FallbackName[names[i]]}
        IN IF same = {} THEN lists[i] ELSE lists[i] \o lists[CHOOSE j \in same : TRUE]]

\* What clients are told they can play; aborts if Base has no directory.
getFeedbackNames(tr) ==
    LET dirs == getFeedbackDirsOfATheme(tr, Base) IN [i \in DOMAIN dirs |-> NameOf(dirs[i])]

\* An application's directory that took the place of a common one goes before it.
BaseDirLists(tr) ==
    LET defaults == getFeedbackDirsFromPath(tr.common[Base], Base, "common")
        finals == getFeedbackDirsOfATheme(tr, Base)
    IN [i \in DOMAIN finals |->
           IF i <= Len(defaults) /\ defaults[i] # finals[i]
             THEN <<finals[i], defaults[i]>> ELSE <<finals[i]>>]

\* A theme's directories go before those of the same name; a common one only where
\* the base theme has a common one.
AddDirs(defaultNames, names, lists, dirs) ==
    LET Own(i, dir) == NameOf(dir) = names[i] /\ (dir[2] = "common" => names[i] \in defaultNames)
        added[k \in 0 .. Len(dirs)] ==
            IF k = 0 THEN lists
            ELSE [i \in DOMAIN lists |->
                     IF Own(i, dirs[k]) THEN <<dirs[k]>> \o added[k - 1][i] ELSE added[k - 1][i]]
    IN added[Len(dirs)]

\* themeDirs is a chain with an end, base first.
FeedbackDirLists(tr, themeDirs) ==
    LET names == getFeedbackNames(tr)
        defaultNames == tr.common[Base] \ IllFormed
        lists[k \in 1 .. Len(themeDirs)] ==
            IF k = 1 THEN BaseDirLists(tr)
            ELSE AddDirs(defaultNames, names, lists[k - 1],
                         getFeedbackDirsOfATheme(tr, themeDirs[k]))
    IN findFeedbackFallbackPaths(names, lists[Len(themeDirs)])

getFeedbackDirLists(tr, theme) == FeedbackDirLists(tr, ThemeDirs(tr, theme))

ListName(list) == NameOf(list[1])

-----------------------------------------------------------------------------
Init ==
    /\ tree \in Trees
    /\ currentThemeName \in Themes
    /\ changes = 0
    /\ posted = <<>>
    /\ session = "none"
    /\ feedbackHash = <<>>
    /\ lastRead = tree /\ firstRead = tree

Alive == session \notin {"aborted", "endless"}

\* MfSession::MfSession: setup() in 1 ms, themeChanged connected.
Connect ==
    /\ session = "none"
    /\ session' = "scheduled"
    /\ UNCHANGED <<tree, currentThemeName, changes, posted, feedbackHash, ghosts>>

\* MfManager::loadTheme.  The session's slot is a queued one.
loadTheme(theme) ==
    /\ Alive /\ changes < MaxChanges
    /\ changes' = changes + 1
    /\ currentThemeName' = theme
    /\ posted' = IF session \in {"scheduled", "ready"} THEN Append(posted, theme) ELSE posted
    /\ UNCHANGED <<tree, session, feedbackHash, ghosts>>

\* getFeedbackDirLists() does not return: the process recurses or aborts.
NoLists(themeDirs) ==
    /\ Endless(themeDirs) \/ themeDirs = <<>>
    /\ session' = IF themeDirs = <<>> THEN "aborted" ELSE "endless"
    /\ UNCHANGED <<feedbackHash, ghosts>>

\* MfSession::setup, when it is its turn.
setup ==
    /\ session = "scheduled"
    /\ LET themeDirs == ThemeDirs(tree, currentThemeName)
           lists == FeedbackDirLists(tree, themeDirs)
       IN \/ NoLists(themeDirs)
          \/ /\ themeDirs # <<>> /\ ~Endless(themeDirs)
             /\ IF lists = <<>>
                  THEN session' = "aborted" /\ UNCHANGED <<feedbackHash, ghosts>>
                  ELSE /\ session' = "ready"
                       /\ feedbackHash' =
                            [n \in {ListName(lists[i]) : i \in DOMAIN lists} |->
                                lists[CHOOSE i \in DOMAIN lists : ListName(lists[i]) = n]]
                       /\ lastRead' = tree /\ firstRead' = tree
    /\ UNCHANGED <<tree, currentThemeName, changes, posted>>

\* Mutant: the session forgets the feedbacks the new theme inherits.
themeChangedRebuilds ==
    /\ session = "ready" /\ posted # <<>>
    /\ LET lists == getFeedbackDirLists(tree, Head(posted))
           own == {i \in DOMAIN lists : lists[i][1][1] = Head(posted)}
       IN feedbackHash' = [n \in {ListName(lists[i]) : i \in own} |->
                              lists[CHOOSE i \in own : ListName(lists[i]) = n]]
    /\ lastRead' = tree
    /\ posted' = Tail(posted)
    /\ UNCHANGED <<tree, currentThemeName, changes, session, firstRead>>

\* MfSession::themeChanged: only feedbacks known from setup() are reloaded.
themeChanged ==
    /\ session \in {"scheduled", "ready"} /\ posted # <<>>
    /\ LET themeDirs == ThemeDirs(tree, Head(posted))
           lists == FeedbackDirLists(tree, themeDirs)
       IN \/ NoLists(themeDirs)
          \/ /\ themeDirs # <<>> /\ ~Endless(themeDirs)
             /\ feedbackHash' =
                  [n \in DOMAIN feedbackHash |->
                      IF \E i \in DOMAIN lists : ListName(lists[i]) = n
                        THEN lists[CHOOSE i \in DOMAIN lists : ListName(lists[i]) = n]
                        ELSE feedbackHash[n]]
             /\ lastRead' = tree
             /\ UNCHANGED <<session, firstRead>>
    /\ posted' = Tail(posted)
    /\ UNCHANGED <<tree, currentThemeName, changes>>

\* A theme package is updated under the running daemon.
UpdatePackage ==
    /\ Alive /\ tree = firstRead
    /\ tree' \in UpdatedTrees \ {tree}
    /\ UNCHANGED <<currentThemeName, changes, posted, session, feedbackHash, ghosts>>

Next ==
    \/ Connect
    \/ \E theme \in Themes : loadTheme(theme)
    \/ setup
    \/ themeChanged
    \/ UpdatePackage

Spec == Init /\ [][Next]_vars

-----------------------------------------------------------------------------
(* What the lists should be, said without the code's merging.               *)

FeedbackNames(tr) == (tr.common[Base] \cup tr.app[Base]) \ IllFormed

\* The ways from the base theme to a theme; one at most.
Lineages(tr, theme) ==
    {s \in UNION {[1..n -> tr.installed] : n \in 1..Cardinality(Themes)} :
        /\ s[1] = Base /\ s[Len(s)] = theme
        /\ \A i \in 2..Len(s) : s[i] # Base /\ tr.inherits[s[i]] = s[i - 1]}

Lineage(tr, theme) ==
    IF Lineages(tr, theme) = {} THEN <<Base>> ELSE CHOOSE s \in Lineages(tr, theme) : TRUE

\* How near a directory is: the nearer theme counts more than the application.
Rank(lineage, dir) ==
    2 * (CHOOSE i \in DOMAIN lineage : lineage[i] = dir[1]) + IF dir[2] = "app" THEN 1 ELSE 0

\* The directories of name along a lineage.  A name that only the application
\* has in the base theme takes no theme's common directory.
DirsAlong(tr, lineage, name) ==
    {<<theme, "app", name>> : theme \in {u \in Range(lineage) : name \in tr.app[u]}}
      \cup {<<theme, "common", name>> :
                theme \in {u \in Range(lineage) : name \in tr.common[u] \cap tr.common[Base]}}

\* Those for theme, the nearest first: the k-th has k that are at least as near.
Nearest(tr, theme, name) ==
    LET lineage == Lineage(tr, theme)
        dirs == DirsAlong(tr, lineage, name)
        AsNear(d) == {e \in dirs : Rank(lineage, e) >= Rank(lineage, d)}
    IN [k \in 1 .. Cardinality(dirs) |-> CHOOSE d \in dirs : Cardinality(AsNear(d)) = k]

\* And, behind its own directories, those of the name without the dash.
Best(tr, theme, name) ==
    IF FallbackName[name] \in FeedbackNames(tr)
      THEN Nearest(tr, theme, name) \o Nearest(tr, theme, FallbackName[name])
      ELSE Nearest(tr, theme, name)

-----------------------------------------------------------------------------
Dirs == Themes \X {"common", "app"} \X (Names \ IllFormed)

\* Types: the daemon only ever lists well-formed feedback directories.
TypeOK ==
    /\ tree \in TreeType
    /\ currentThemeName \in Themes
    /\ changes \in 0..MaxChanges
    /\ posted \in Seq(Themes)
    /\ session \in {"none", "scheduled", "ready", "aborted", "endless"}
    /\ DOMAIN feedbackHash \subseteq Names \ IllFormed
    /\ \A n \in DOMAIN feedbackHash : feedbackHash[n] \in Seq(Dirs) \ {<<>>}
    /\ lastRead \in TreeType /\ firstRead \in TreeType

\* Once a session has served its theme changes, each of its feedbacks is
\* loaded from the lists of the current theme, nearest directory first: no
\* reload skips a feedback, gets another one's directories or wins over a
\* later one, and a setup that ran after the change was posted agrees with
\* it (mfsession.cpp:61-122, mfutil.cpp:93-184).  And none is missing "if someone has
\* changed the theming directory" only (mfsession.cpp:115): as long as nobody has, the
\* session knows all feedbacks, whatever themes it has seen.
ListsCurrent ==
    /\ session = "ready" /\ posted = <<>> =>
         \A n \in DOMAIN feedbackHash \cap FeedbackNames(lastRead) :
             feedbackHash[n] = Best(lastRead, currentThemeName, n)
    /\ session = "ready" /\ tree = firstRead => DOMAIN feedbackHash = FeedbackNames(tree)

\* The names told to clients are, in every theme and in the same order, the
\* names of the lists, each once: the lists of a theme are aligned with the
\* base theme's by index alone (mfutil.cpp:68-91, 124-148).
NamesAligned ==
    LET names == getFeedbackNames(tree)
    IN /\ IsInjective(names) /\ Range(names) = FeedbackNames(tree)
       /\ \A theme \in Themes :
            LET themeDirs == ThemeDirs(tree, theme)
                lists == FeedbackDirLists(tree, themeDirs)
            IN themeDirs # <<>> /\ ~Endless(themeDirs) =>
                 /\ DOMAIN lists = DOMAIN names
                 /\ \A i \in DOMAIN lists : ListName(lists[i]) = names[i]

\* A theme that is missing, or whose chain is broken, costs the session
\* nothing but that theme: the daemon only stops for want of a base theme
\* or of any feedback in it, or when themes inherit each other in a circle
\* (mfutil.cpp:99-106, 329-335, 372).
StopsForCause ==
    LET circles == {s \in SUBSET (tree.installed \ {Base}) :
                      s # {} /\ \A u \in s : tree.inherits[u] \in s}
    IN /\ session = "aborted" => Base \notin tree.installed \/ FeedbackNames(tree) = {}
       /\ session = "endless" => circles # {}

=============================================================================
