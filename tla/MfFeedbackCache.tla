--------------------------- MODULE MfFeedbackCache ---------------------------
(***************************************************************************)
(* The feedback handles of the daemon: MfManager's cache of them           *)
(* (src/lib/mfmanager.cpp), their reference counts (mffeedbackhandle.cpp)  *)
(* and the sessions that load, reload and release them (mfsession.cpp,     *)
(* mffeedback.cpp).                                                        *)
(*                                                                         *)
(* All of it runs on the main thread, from slots the event loop calls one  *)
(* after the other; `stack' holds the slots that have not returned.  There *)
(* is more than one only when a backend's loadHandle() runs an event loop  *)
(* of its own while it uploads a sample, which mfconnection.cpp:43-45      *)
(* reckons with: Nested says whether the backends do that.  The backends   *)
(* are seen through their promise (BackendSignals, which MfBackendBase     *)
(* implements until a loss overtakes the connection it breaks): connected  *)
(* or not, with each change posted to the manager.                         *)
(***************************************************************************)
EXTENDS Integers, Sequences, FiniteSets, Functions, SequencesExt

CONSTANTS
    Sessions,     \* one per client connection
    NameList,     \* the feedback names, in the order of the directory lists
    BackendList,  \* the backends, in the order of MfManager::backendList
    Themes,
    DirList,      \* getFeedbackDirLists: theme -> name -> directories, best first
    Content,      \* what a backend finds there: backend -> directory -> kind
    Handles,      \* addresses for MfFeedbackHandle objects
    Null,
    Nested,       \* TRUE: loadHandle() may run a local event loop
    MaxEpoch,     \* bound on the connections each backend makes
    MaxChanges,   \* bound on the theme changes
    MaxDepth      \* bound on the slots called inside one another

Names == Range(NameList)
Backends == Range(BackendList)
Dirs == UNION {Range(DirList[t][n]) : t \in Themes, n \in Names}

ASSUME CacheAssumption ==
    /\ IsFiniteSet(Sessions)
    /\ NameList \in Seq(Names) \ {<<>>} /\ BackendList \in Seq(Backends) \ {<<>>}
    /\ \A t \in Themes, n \in Names : DirList[t][n] \in Seq(Dirs) \ {<<>>}
    /\ \A b \in Backends : Content[b] \in [Dirs -> {"none", "sound", "empty"}]
    /\ Null \notin Handles
    /\ Nested \in BOOLEAN
    /\ MaxEpoch \in [Backends -> Nat]
    /\ MaxChanges \in Nat /\ MaxDepth \in Nat \ {0}

VARIABLES
    connected,         \* a backend's state() is Connected
    epoch,             \* how many connections the backend has made
    currentTheme,      \* MfManager::currentThemeName
    feedbackHandleHash,\* MfManager's cache: <<directory, backend>> -> handle
    heap,              \* the MfFeedbackHandle objects that are alive
    session,           \* a session: none, scheduled, in setup(), ready
    feedbackHash,      \* MfSession::feedbackHash: the names already inserted
    feedbackHandles,   \* MfFeedback::feedbackHandles: session, name, backend
    setupInProgress,   \* the static flag of MfSession::setup
    events,            \* calls posted to the main thread, oldest first
    stack,             \* slots that have not returned, innermost first
    changes            \* ghost: theme changes so far, for MaxChanges

links == <<connected, epoch>>
sessions == <<session, feedbackHash, setupInProgress>>
objects == <<heap, feedbackHandleHash, feedbackHandles>>
theming == <<currentTheme, changes>>
vars == <<links, theming, objects, sessions, events, stack>>

Keys == Dirs \X Backends
HandleRecords == [key : Keys, refCnt : Int, epoch : Nat, state : {"Ready", "Ignored"}]
Calls == [slot : {"backendDisconnected", "backendConnected"}, on : Backends]
         \cup [slot : {"themeChanged"}, on : Sessions, theme : Themes]
Slots == Len(NameList) * Len(BackendList)
Frames == [kind : {"setup", "themeChanged"}, on : Sessions, theme : Themes,
           pos : 1 .. Slots + 1, dir : Nat \ {0}, old : Handles \cup {Null},
           busy : BOOLEAN, epoch : Nat]

TypeOK ==
    /\ connected \in [Backends -> BOOLEAN]
    /\ epoch \in [Backends -> Nat]
    /\ currentTheme \in Themes
    /\ DOMAIN heap \subseteq Handles /\ heap \in [DOMAIN heap -> HandleRecords]
    /\ DOMAIN feedbackHandleHash \subseteq Keys
    /\ feedbackHandleHash \in [DOMAIN feedbackHandleHash -> Handles]
    /\ session \in [Sessions -> {"none", "scheduled", "setup", "ready"}]
    /\ feedbackHash \in [Sessions -> SUBSET Names]
    /\ feedbackHandles \in [Sessions \X Names \X Backends -> Handles \cup {Null}]
    /\ setupInProgress \in BOOLEAN
    /\ events \in Seq(Calls)
    /\ stack \in Seq(Frames)
    /\ changes \in Nat

Init ==
    /\ connected = [b \in Backends |-> FALSE]
    /\ epoch = [b \in Backends |-> 0]
    /\ currentTheme \in Themes
    /\ heap = [h \in {} |-> Null] /\ feedbackHandleHash = [k \in {} |-> Null]
    /\ session = [s \in Sessions |-> "none"]
    /\ feedbackHash = [s \in Sessions |-> {}]
    /\ feedbackHandles = [x \in Sessions \X Names \X Backends |-> Null]
    /\ setupInProgress = FALSE
    /\ events = <<>>
    /\ stack = <<>>
    /\ changes = 0

-----------------------------------------------------------------------------
(* The event loop.                                                         *)

\* The main thread can call a slot: from main()'s loop, or from the local loop of a
\* backend that is uploading.
Idle == stack = <<>>
CanDispatch == IF Idle THEN TRUE ELSE Nested /\ stack[1].busy /\ Len(stack) < MaxDepth

\* The queue once the oldest call is taken, and that call.
Next1(slot) == CanDispatch /\ events # <<>> /\ Head(events).slot = slot

\* MfManager::themeChanged reaches every session through a posted call.
PostThemeChanged(queue, theme) ==
    LET live == {s \in Sessions : session[s] # "none"}
    IN  queue \o [i \in 1 .. Cardinality(live) |->
                    [slot |-> "themeChanged", on |-> SetToSeq(live)[i], theme |-> theme]]

Enter(kind, s, theme) ==
    stack' = <<[kind |-> kind, on |-> s, theme |-> theme, pos |-> 1, dir |-> 1,
                old |-> Null, busy |-> FALSE, epoch |-> 0]>> \o stack

-----------------------------------------------------------------------------
(* The backends, as MfBackendBase shows them to the rest of the daemon.    *)

\* A connection breaks, on whatever thread: the state changes at once, the manager's
\* slot is posted.
Lose(b) ==
    /\ connected[b]
    /\ connected' = [connected EXCEPT ![b] = FALSE]
    /\ events' = Append(events, [slot |-> "backendDisconnected", on |-> b])
    /\ UNCHANGED <<epoch, theming, objects, sessions, stack>>

\* connectionDone(): by then the manager has handled the loss before it.
Establish(b) ==
    /\ CanDispatch
    /\ ~connected[b]
    /\ [slot |-> "backendDisconnected", on |-> b] \notin Range(events)
    /\ epoch[b] < MaxEpoch[b]
    /\ connected' = [connected EXCEPT ![b] = TRUE]
    /\ epoch' = [epoch EXCEPT ![b] = @ + 1]
    /\ events' = Append(events, [slot |-> "backendConnected", on |-> b])
    /\ UNCHANGED <<theming, objects, sessions, stack>>

-----------------------------------------------------------------------------
(* MfManager's slots.                                                      *)

\* Dead handles leave every QPointer to them null.
Forget(dead) ==
    feedbackHandles' = [x \in DOMAIN feedbackHandles |->
        IF feedbackHandles[x] \in dead THEN Null ELSE feedbackHandles[x]]

\* Mutant: the sessions are not told.
backendConnectedQuietly ==
    /\ Next1("backendConnected")
    /\ events' = Tail(events)
    /\ UNCHANGED <<links, theming, objects, sessions, stack>>

\* backendConnected -> loadHandlesForABackend: everyone reloads the current theme.
backendConnected ==
    /\ Next1("backendConnected")
    /\ events' = PostThemeChanged(Tail(events), currentTheme)
    /\ UNCHANGED <<links, theming, objects, sessions, stack>>

\* Mutant: handles in use are left to their feedbacks.
UnusedHandlesOf(b) ==
    {h \in Range(feedbackHandleHash) \cap DOMAIN heap : heap[h].key[2] = b /\ heap[h].refCnt = 0}

\* unloadHandlesForABackend: the cached handles of the backend.
HandlesOf(b) == {h \in Range(feedbackHandleHash) \cap DOMAIN heap : heap[h].key[2] = b}

\* backendDisconnected -> unloadHandlesForABackend: the cached handles of the backend
\* are unloaded and deleted.
backendDisconnected ==
    LET b == Head(events).on
        dead == HandlesOf(b)
    IN  /\ Next1("backendDisconnected")
        /\ heap' = Restrict(heap, DOMAIN heap \ dead)
        /\ feedbackHandleHash' = RestrictValues(feedbackHandleHash, LAMBDA h : h \notin dead)
        /\ Forget(dead)
        /\ events' = Tail(events)
        /\ UNCHANGED <<links, theming, sessions, stack>>

\* loadTheme, called directly by MfConfiguration when the user picks a theme.
loadTheme(theme) ==
    /\ CanDispatch
    /\ theme # currentTheme
    /\ changes < MaxChanges
    /\ changes' = changes + 1
    /\ currentTheme' = theme
    /\ events' = PostThemeChanged(events, theme)
    /\ UNCHANGED <<links, objects, sessions, stack>>

-----------------------------------------------------------------------------
(* A session's slots.                                                      *)

\* MfConnection creates the session, which schedules its setup().
NewSession(s) ==
    /\ CanDispatch
    /\ session[s] = "none"
    /\ \A i \in DOMAIN stack : stack[i].on # s
    /\ session' = [session EXCEPT ![s] = "scheduled"]
    /\ UNCHANGED <<links, theming, objects, feedbackHash, setupInProgress, events,
                   stack>>

\* Mutant: setup() does not look at the flag.
setupAnyway(s) ==
    /\ CanDispatch
    /\ session[s] = "scheduled"
    /\ setupInProgress' = TRUE
    /\ session' = [session EXCEPT ![s] = "setup"]
    /\ Enter("setup", s, currentTheme)
    /\ UNCHANGED <<links, theming, objects, feedbackHash, events>>

\* setup(): one session at a time; the theme is the one of this moment.
setup(s) ==
    /\ CanDispatch
    /\ session[s] = "scheduled"
    /\ ~setupInProgress
    /\ setupInProgress' = TRUE
    /\ session' = [session EXCEPT ![s] = "setup"]
    /\ Enter("setup", s, currentTheme)
    /\ UNCHANGED <<links, theming, objects, feedbackHash, events>>

\* setup() while another is in progress: it is scheduled again.
setupLater(s) ==
    /\ CanDispatch
    /\ session[s] = "scheduled"
    /\ setupInProgress
    /\ UNCHANGED vars

themeChanged ==
    /\ Next1("themeChanged")
    /\ Enter("themeChanged", Head(events).on, Head(events).theme)
    /\ events' = Tail(events)
    /\ UNCHANGED <<links, theming, objects, sessions>>

-----------------------------------------------------------------------------
(* MfFeedback::load, one backend of one feedback at a time.  `top' is the   *)
(* slot that runs; its `pos' counts through the names and their backends.  *)

top == stack[1]
name == NameList[((top.pos - 1) \div Len(BackendList)) + 1]
backend == BackendList[((top.pos - 1) % Len(BackendList)) + 1]
dirs == DirList[top.theme][name]
here == <<top.on, name, backend>>

\* The object whose slot runs still exists.
Alive == stack # <<>> /\ session[top.on] # "none"
Running == Alive /\ ~top.busy
AtSlot == Running /\ top.pos <= Slots
LastBackend == top.pos % Len(BackendList) = 0

\* The raw pointer load() keeps to the handle it replaces.
old == IF top.dir = 1 /\ ~top.busy THEN feedbackHandles[here] ELSE top.old

\* searchFromCache: the entry is a QPointer, null when its handle is dead.
Cached(d) == /\ <<d, backend>> \in DOMAIN feedbackHandleHash
             /\ feedbackHandleHash[<<d, backend>>] \in DOMAIN heap
Loadable(d) == connected[backend] /\ Content[backend][d] # "none"

\* The first directory, from the one to be tried next, that gives a handle; 0 if none.
Found ==
    LET good == {i \in top.dir .. Len(dirs) : Cached(dirs[i]) \/ Loadable(dirs[i])}
    IN  IF good = {} THEN 0 ELSE CHOOSE i \in good : \A j \in good : i <= j

Advance ==
    /\ stack' = [stack EXCEPT ![1].pos = @ + 1, ![1].dir = 1, ![1].old = Null,
                              ![1].busy = FALSE, ![1].epoch = 0]
    /\ feedbackHash' = IF top.kind = "setup" /\ LastBackend
                       THEN [feedbackHash EXCEPT ![top.on] = @ \cup {name}]
                       ELSE feedbackHash

\* Mutant: a handle that is in use already is not counted again.
AttachOnce(new, hp) ==
    IF new = Null \/ hp[new].refCnt > 0 THEN hp ELSE [hp EXCEPT ![new].refCnt = @ + 1]

Attach(new, hp) == IF new = Null THEN hp ELSE [hp EXCEPT ![new].refCnt = @ + 1]

\* Mutant: the entry is left behind.
KeepInCache(cache, key) == cache

removeFromCache(cache, key) == Restrict(cache, DOMAIN cache \ {key})

\* detach() after the new handle is in place; the cache entry goes with the last
\* reference.  A pointer to a handle that a local event loop let
\* backendDisconnected() delete is followed without effect here; in the code it is undefined.
Settle(new, hp, cache) ==
    LET attached == Attach(new, hp)
        placed == [feedbackHandles EXCEPT ![here] = new]
        last == old \in DOMAIN attached /\ attached[old].refCnt <= 1
    IN  /\ heap' = IF last THEN Restrict(attached, DOMAIN attached \ {old})
                   ELSE IF old \in DOMAIN attached
                        THEN [attached EXCEPT ![old].refCnt = @ - 1]
                        ELSE attached
        /\ feedbackHandleHash' =
             IF last THEN removeFromCache(cache, attached[old].key) ELSE cache
        /\ feedbackHandles' =
             IF last THEN [x \in DOMAIN placed |-> IF placed[x] = old THEN Null ELSE placed[x]]
             ELSE placed
        /\ Advance

\* No directory gives a handle, or the best one is cached.
LoadFromCache ==
    /\ AtSlot
    /\ top.kind = "setup" \/ name \in feedbackHash[top.on]
    /\ Found # 0 => Cached(dirs[Found])
    /\ Settle(IF Found = 0 THEN Null ELSE feedbackHandleHash[<<dirs[Found], backend>>],
              heap, feedbackHandleHash)
    /\ UNCHANGED <<links, theming, session, setupInProgress, events>>

\* Mutant: one feedback too many is skipped.
SkipTwo ==
    /\ AtSlot
    /\ top.kind = "themeChanged" /\ name \notin feedbackHash[top.on]
    /\ stack' = [stack EXCEPT ![1].pos = @ + 2 * Len(BackendList)]
    /\ UNCHANGED <<links, theming, objects, sessions, events>>

\* MfSession::themeChanged skips a feedback setup() has not inserted.
SkipFeedback ==
    /\ AtSlot
    /\ top.kind = "themeChanged" /\ name \notin feedbackHash[top.on]
    /\ stack' = [stack EXCEPT ![1].pos = @ + Len(BackendList)]
    /\ UNCHANGED <<links, theming, objects, sessions, events>>

\* The backend is asked to upload the feedback.
BeginUpload ==
    /\ AtSlot
    /\ top.kind = "setup" \/ name \in feedbackHash[top.on]
    /\ Found # 0 /\ ~Cached(dirs[Found])
    /\ stack' = [stack EXCEPT ![1].dir = Found, ![1].old = old, ![1].busy = TRUE,
                              ![1].epoch = epoch[backend]]
    /\ UNCHANGED <<links, theming, objects, sessions, events>>

\* addToCache: a key that is already there keeps its handle.
WithCached(key, h) ==
    IF key \in DOMAIN feedbackHandleHash THEN feedbackHandleHash
    ELSE [k \in DOMAIN feedbackHandleHash \cup {key} |->
            IF k = key THEN h ELSE feedbackHandleHash[k]]

\* What new MfFeedbackHandle and load() make of a successful upload.
Loaded(d) == [key |-> <<d, backend>>, refCnt |-> 0, epoch |-> top.epoch,
              state |-> IF Content[backend][d] = "sound" THEN "Ready" ELSE "Ignored"]

EndUpload ==
    /\ Alive /\ top.busy
    /\ Handles # DOMAIN heap
    /\ LET h == CHOOSE h \in Handles : h \notin DOMAIN heap
           d == dirs[top.dir]
       IN  Settle(h,
                  [x \in DOMAIN heap \cup {h} |-> IF x = h THEN Loaded(d) ELSE heap[x]],
                  WithCached(<<d, backend>>, h))
    /\ UNCHANGED <<links, theming, session, setupInProgress, events>>

\* The connection broke during the upload: loadHandle() may return false, and load()
\* goes on with the next directory.
UploadFails ==
    /\ Alive /\ top.busy
    /\ ~connected[backend]
    /\ stack' = [stack EXCEPT ![1].busy = FALSE, ![1].dir = @ + 1]
    /\ UNCHANGED <<links, theming, objects, sessions, events>>

\* Mutant: the flag is never released.
ReturnKeepsFlag ==
    /\ Running
    /\ top.pos > Slots
    /\ stack' = Tail(stack)
    /\ session' = IF top.kind = "setup" THEN [session EXCEPT ![top.on] = "ready"] ELSE session
    /\ UNCHANGED <<links, theming, objects, feedbackHash, setupInProgress, events>>

\* The slot returns: setup() emits setupReady and lets the next session in.
Return ==
    /\ Running
    /\ top.pos > Slots
    /\ stack' = Tail(stack)
    /\ IF top.kind = "setup"
       THEN /\ session' = [session EXCEPT ![top.on] = "ready"]
            /\ setupInProgress' = FALSE
       ELSE UNCHANGED <<session, setupInProgress>>
    /\ UNCHANGED <<links, theming, objects, feedbackHash, events>>

\* The session was deleted while its slot waited for an upload.  What the slot does
\* next is undefined; here it does nothing.
Abandon ==
    /\ stack # <<>> /\ session[top.on] = "none"
    /\ stack' = Tail(stack)
    /\ UNCHANGED <<links, theming, objects, sessions, events>>

\* The queue without the calls posted to a session; the others keep their order.
DropCalls(queue, s) ==
    LET kept == {i \in DOMAIN queue : queue[i].slot = "themeChanged" => queue[i].on # s}
        place(i) == Cardinality({j \in kept : j <= i})
    IN  [n \in 1 .. Cardinality(kept) |-> queue[CHOOSE i \in kept : place(i) = n]]

\* The client is gone.  MfConnection::killMe waits for the end of setup(), and only for
\* that; deleteLater() acts when control is back in the event loop that called killMe,
\* which may be a local one.  ~MfSession deletes the feedbacks, each of which releases
\* its handles, and Qt drops the calls posted to the session.
Delete(s) ==
    LET mine == {x \in DOMAIN feedbackHandles : x[1] = s}
        uses(h) == Cardinality({x \in mine : feedbackHandles[x] = h})
        dead == {h \in DOMAIN heap : uses(h) > 0 /\ heap[h].refCnt <= uses(h)}
    IN  /\ CanDispatch
        /\ session[s] = "ready"
        /\ session' = [session EXCEPT ![s] = "none"]
        /\ feedbackHash' = [feedbackHash EXCEPT ![s] = {}]
        /\ heap' = [h \in DOMAIN heap \ dead |-> [heap[h] EXCEPT !.refCnt = @ - uses(h)]]
        /\ feedbackHandleHash' =
             Restrict(feedbackHandleHash, DOMAIN feedbackHandleHash \ {heap[h].key : h \in dead})
        /\ feedbackHandles' = [x \in DOMAIN feedbackHandles |->
             IF x \in mine \/ feedbackHandles[x] \in dead THEN Null ELSE feedbackHandles[x]]
        /\ events' = DropCalls(events, s)
        /\ UNCHANGED <<links, theming, setupInProgress, stack>>

-----------------------------------------------------------------------------

Dispatch ==
    backendConnected \/ backendDisconnected \/ themeChanged \/ \E s \in Sessions : setup(s)
Work == LoadFromCache \/ SkipFeedback \/ BeginUpload \/ EndUpload \/ UploadFails \/ Return
        \/ Abandon

Next ==
    \/ \E b \in Backends : Lose(b)
    \/ \E b \in Backends : Establish(b)
    \/ backendConnected
    \/ backendDisconnected
    \/ \E t \in Themes : loadTheme(t)
    \/ \E s \in Sessions : NewSession(s)
    \/ \E s \in Sessions : setup(s)
    \/ \E s \in Sessions : setupLater(s)
    \/ themeChanged
    \/ LoadFromCache
    \/ SkipFeedback
    \/ BeginUpload
    \/ EndUpload
    \/ UploadFails
    \/ Return
    \/ Abandon
    \/ \E s \in Sessions : Delete(s)

Spec == Init /\ [][Next]_vars

\* The slots of the main thread go on, posted calls and timers are served, and an upload
\* ends however busy the local event loop is meanwhile.
Fairness ==
    /\ WF_vars(Work)
    /\ SF_vars(EndUpload \/ UploadFails)
    /\ WF_vars(backendConnected \/ backendDisconnected \/ themeChanged)
    /\ \A s \in Sessions : SF_vars(setup(s))

FairSpec == Spec /\ Fairness

-----------------------------------------------------------------------------
(* Properties.                                                             *)

Users(h) == {x \in DOMAIN feedbackHandles : feedbackHandles[x] = h}

\* A handle's reference count is the number of feedbacks that hold it, and is never 0:
\* a handle is neither deleted under a feedback nor kept when the last one lets go
\* (attach before detach in MfFeedback::load, MfFeedback::unload).
RefCountExact ==
    \A h \in DOMAIN heap : heap[h].refCnt = Cardinality(Users(h)) /\ heap[h].refCnt > 0

\* The cache and the living handles are the same thing: no entry outlives its handle,
\* and no sample is uploaded twice for one directory and backend (addToCache,
\* removeFromCache, unloadHandlesForABackend).
CacheExact ==
    /\ \A k \in DOMAIN feedbackHandleHash : feedbackHandleHash[k] \in DOMAIN heap
    /\ \A h \in DOMAIN heap : /\ heap[h].key \in DOMAIN feedbackHandleHash
                              /\ feedbackHandleHash[heap[h].key] = h

\* MfFeedback::play plays the handle: it is Ready and its backend Connected.
Played(x) ==
    /\ feedbackHandles[x] \in DOMAIN heap
    /\ heap[feedbackHandles[x]].state = "Ready"
    /\ connected[x[3]]

\* What is played was uploaded over the connection the backend has now, not over one
\* it lost: the loss has always flushed the cache first (backendDisconnected).
PlaysFreshHandle ==
    \A x \in DOMAIN feedbackHandles :
        Played(x) => heap[feedbackHandles[x]].epoch = epoch[x[3]]

\* What a feedback holds, and what it should hold: the best directory with content.
Held(x) ==
    IF feedbackHandles[x] \in DOMAIN heap THEN heap[feedbackHandles[x]].key[1] ELSE Null

Wanted(x) ==
    LET choices == DirList[currentTheme][x[2]]
        good == {i \in DOMAIN choices : Content[x[3]][choices[i]] # "none"}
    IN  IF good = {} THEN Null
        ELSE choices[CHOOSE i \in good : \A j \in good : i <= j]

Settled(x) == Idle /\ events = <<>> /\ session[x[1]] = "ready"

\* mfsession.cpp:38, "update to the latest theme changes": once the posted calls are
\* served every feedback of every session has the handle the current theme gives it on a
\* connected backend, and none of a backend that is not, in whatever order sessions,
\* theme changes, losses and reconnections came; an upload that ends after the loss is
\* flushed by its news.
ThemeSettled ==
    \A x \in DOMAIN feedbackHandles :
        Settled(x) => Held(x) = (IF connected[x[3]] THEN Wanted(x) ELSE Null)

\* mfconnection.cpp:43-45, killMe keeps a session from being deleted under the upload of
\* a sample: the object whose slot has not returned exists.
SessionOutlivesSlot == \A i \in DOMAIN stack : session[stack[i].on] # "none"

\* setupInProgress keeps the setups apart, local event loops or not: two sessions are
\* never in setup() together.
OneSetupAtATime ==
    \A r, s \in Sessions : session[r] = "setup" /\ session[s] = "setup" => r = s

\* A client that connected gets its session: setup() is not put off for ever.
SetupCompletes ==
    \A s \in Sessions : session[s] = "scheduled" ~> session[s] = "ready"

=============================================================================
