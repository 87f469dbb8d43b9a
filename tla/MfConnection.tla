---------------------------- MODULE MfConnection ----------------------------
(***************************************************************************)
(* The daemon's side of its socket: MfServer accepts clients               *)
(* (daemon/mfserver.cpp), an MfConnection reads what each one sends        *)
(* (daemon/mfconnection.cpp) and starts an MfSession for it                *)
(* (lib/mfsession.cpp), whose setup() takes the static flag                *)
(* setupInProgress.                                                        *)
(*                                                                         *)
(* A client writes strings: the protocol version (unless it is older than  *)
(* versions), its application name, then the names of the feedbacks to     *)
(* play.  A string is two pieces on the wire, <<string, 1>> (its length)   *)
(* and <<string, 2>> (its text), because a read can end between them.      *)
(* What feedbacks a session loads is MfFeedbackCache's matter; setup() is  *)
(* here a span of time in which, if Nested, a local event loop serves the  *)
(* other slots.                                                            *)
(***************************************************************************)
EXTENDS Integers, Sequences, FiniteSets, SequencesExt

CONSTANTS
    Connections,
    Requests,    \* connection -> the feedback names its client asks for, in order
    Splits,      \* connection -> TRUE in it: a string can be cut by a read; FALSE: or come whole
    Nested       \* TRUE: setup() may run a local event loop

ASSUME ConnectionAssumption ==
    /\ DOMAIN Requests = Connections
    /\ \A c \in Connections : Requests[c] \in Seq(Range(Requests[c])) /\ IsInjective(Requests[c])
    /\ Splits \in [Connections -> (SUBSET BOOLEAN) \ {{}}] /\ Nested \in BOOLEAN

Names == UNION {Range(Requests[c]) : c \in Connections}

\* What a client says first, by the protocol it speaks.
Hello == [version1 |-> <<"FeedbackProtocolVersion#1", "appName">>,
          version2 |-> <<"FeedbackProtocolVersion#2", "appName">>,
          legacy   |-> <<"appName">>]
Protocols == DOMAIN Hello

VARIABLES
    protocol,      \* client: the protocol it speaks; "none" before it connects
    split,         \* network: a read can end in the middle of a string of this client
    said,          \* client: how many strings it has written
    closed,        \* client: it has closed its end
    wire,          \* written by the client and not yet in the daemon's socket buffer
    buffer,        \* the socket's read buffer
    state,         \* MfConnection::state; "none" before it is accepted
    socketOpen,    \* the daemon's end of the socket
    session,       \* MfSession: none, scheduled, setup, ready
    clientFeedbackProtocolVersion,
    killTimer,     \* the 10 ms timer of killMe() is running
    deleting,      \* deleteLater() was called
    setupInProgress,
    inSetup,       \* the connections whose setup() has not returned, innermost first
    played,        \* the requests posted to the feedbacks (emitPlay), in order
    waited         \* ghost: requests that arrived before the session was ready

client == <<protocol, split, said, closed>>
locks == <<setupInProgress, inSetup>>
ends == <<killTimer, deleting>>
vars == <<client, wire, buffer, state, socketOpen, session,
          clientFeedbackProtocolVersion, ends, locks, played, waited>>

Strings == (UNION {Range(Hello[p]) : p \in Protocols}) \cup Names
Pieces == Strings \X {1, 2}

TypeOK ==
    /\ protocol \in [Connections -> Protocols \cup {"none"}]
    /\ split \in [Connections -> BOOLEAN]
    /\ said \in [Connections -> Nat]
    /\ closed \in [Connections -> BOOLEAN]
    /\ wire \in [Connections -> Seq(Pieces)]
    /\ buffer \in [Connections -> Seq(Pieces)]
    /\ state \in [Connections -> {"none", "StateClientSetup", "StateWaitingSession",
                                  "StatePlayback", "StateTerminated", "StateDoomed"}]
    /\ socketOpen \in [Connections -> BOOLEAN]
    /\ session \in [Connections -> {"none", "scheduled", "setup", "ready"}]
    /\ clientFeedbackProtocolVersion \in [Connections -> {"Unknown", "Version_1"}]
    /\ killTimer \in [Connections -> BOOLEAN]
    /\ deleting \in [Connections -> BOOLEAN]
    /\ setupInProgress \in BOOLEAN
    /\ inSetup \in Seq(Connections)
    /\ played \in [Connections -> Seq(Names)]
    /\ waited \in [Connections -> SUBSET Names]

Init ==
    /\ protocol = [c \in Connections |-> "none"]
    /\ split = [c \in Connections |-> FALSE]
    /\ said = [c \in Connections |-> 0]
    /\ closed = [c \in Connections |-> FALSE]
    /\ wire = [c \in Connections |-> <<>>]
    /\ buffer = [c \in Connections |-> <<>>]
    /\ state = [c \in Connections |-> "none"]
    /\ socketOpen = [c \in Connections |-> FALSE]
    /\ session = [c \in Connections |-> "none"]
    /\ clientFeedbackProtocolVersion = [c \in Connections |-> "Unknown"]
    /\ killTimer = [c \in Connections |-> FALSE]
    /\ deleting = [c \in Connections |-> FALSE]
    /\ setupInProgress = FALSE
    /\ inSetup = <<>>
    /\ played = [c \in Connections |-> <<>>]
    /\ waited = [c \in Connections |-> {}]

-----------------------------------------------------------------------------
(* QDataStream.                                                            *)

Whole(s, i) == i + 1 <= Len(s) /\ s[i][2] = 1 /\ s[i + 1] = <<s[i][1], 2>>

\* Mutant: the string is looked at and left in the socket.
ReadStringPeeks(s) ==
    IF s # <<>> /\ Whole(s, 1) THEN [ok |-> TRUE, string |-> s[1][1], rest |-> s]
    ELSE [ok |-> FALSE, string |-> "", rest |-> <<>>]

\* `stream >> string': a whole string, or else a bad status and everything consumed,
\* be it a string cut short or a text taken for a length.
ReadString(s) ==
    IF s # <<>> /\ Whole(s, 1) THEN [ok |-> TRUE, string |-> s[1][1], rest |-> SubSeq(s, 3, Len(s))]
    ELSE [ok |-> FALSE, string |-> "", rest |-> <<>>]

\* How many whole strings the buffer begins with.
WholeStrings(s) ==
    CHOOSE n \in 0 .. Len(s) \div 2 :
        /\ \A i \in 1 .. n : Whole(s, 2 * i - 1)
        /\ 2 * n + 1 <= Len(s) => ~Whole(s, 2 * n + 1)

Asked(s, n) == [i \in 1 .. n |-> s[2 * i - 1][1]]

RequestsIn(s) == {s[i][1] : i \in DOMAIN s} \cap Names

-----------------------------------------------------------------------------
(* The client.                                                             *)

ToSay(c) == Hello[protocol[c]] \o Requests[c]

ClientConnects(c) ==
    /\ protocol[c] = "none"
    /\ \E p \in Protocols : protocol' = [protocol EXCEPT ![c] = p]
    /\ \E b \in Splits[c] : split' = [split EXCEPT ![c] = b]
    /\ socketOpen' = [socketOpen EXCEPT ![c] = TRUE]
    /\ UNCHANGED <<said, closed, wire, buffer, state, session,
                   clientFeedbackProtocolVersion, ends, locks, played, waited>>

ClientWrites(c) ==
    /\ protocol[c] # "none" /\ ~closed[c] /\ socketOpen[c]
    /\ said[c] < Len(ToSay(c))
    /\ said' = [said EXCEPT ![c] = @ + 1]
    /\ LET s == ToSay(c)[said[c] + 1]
       IN  wire' = [wire EXCEPT ![c] = @ \o <<<<s, 1>>, <<s, 2>>>>]
    /\ UNCHANGED <<protocol, split, closed, buffer, state, socketOpen, session,
                   clientFeedbackProtocolVersion, ends, locks, played, waited>>

ClientCloses(c) ==
    /\ protocol[c] # "none" /\ ~closed[c]
    /\ closed' = [closed EXCEPT ![c] = TRUE]
    /\ UNCHANGED <<protocol, split, said, wire, buffer, state, socketOpen, session,
                   clientFeedbackProtocolVersion, ends, locks, played, waited>>

-----------------------------------------------------------------------------
(* MfConnection.                                                           *)

CanDispatch == IF inSetup = <<>> THEN TRUE ELSE Nested
Accepted(c) == state[c] # "none"

\* Mutants: any version will do; a string without a version will not.
AnyVersion(string) == TRUE
OnlyVersion1(string) == string = "FeedbackProtocolVersion#1"

\* No version at all is taken for the application name of a client of version 1.
Supported(string) == string # "FeedbackProtocolVersion#2"

\* MfConnection::setup on a buffer that holds s.
ClientSetup(c, s) ==
    LET first == ReadString(s)
        versioned == first.string \in {"FeedbackProtocolVersion#1", "FeedbackProtocolVersion#2"}
        known == Supported(first.string)
        last == IF versioned /\ known THEN ReadString(first.rest) ELSE first
        accepted == first.ok /\ last.ok /\ known
    IN  /\ buffer' = [buffer EXCEPT ![c] = last.rest]
        /\ clientFeedbackProtocolVersion' =
             [clientFeedbackProtocolVersion EXCEPT ![c] = IF known THEN "Version_1" ELSE @]
        /\ state' = [state EXCEPT ![c] = IF accepted THEN "StateWaitingSession" ELSE "StateDoomed"]
        /\ session' = [session EXCEPT ![c] = IF accepted THEN "scheduled" ELSE @]
        /\ waited' = [waited EXCEPT ![c] = @ \cup RequestsIn(last.rest)]
        /\ UNCHANGED <<socketOpen, ends, played>>

\* Mutant: what has been played stays in the socket.
PlaybackKeeps(c, s) ==
    /\ played' = [played EXCEPT ![c] = @ \o Asked(s, WholeStrings(s))]
    /\ buffer' = [buffer EXCEPT ![c] = s]
    /\ UNCHANGED <<state, socketOpen, session, clientFeedbackProtocolVersion, ends, waited>>

\* readSocketData in playback: fetchPlaybackRequest for every string there is; a string
\* that cannot be read ends the connection (terminate, then killMe, which deletes it).
Playback(c, s) ==
    LET n == WholeStrings(s)
    IN  /\ played' = [played EXCEPT ![c] = @ \o Asked(s, n)]
        /\ buffer' = [buffer EXCEPT ![c] = <<>>]
        /\ IF Len(s) = 2 * n
           THEN UNCHANGED <<state, socketOpen, deleting>>
           ELSE /\ state' = [state EXCEPT ![c] = "StateTerminated"]
                /\ socketOpen' = [socketOpen EXCEPT ![c] = FALSE]
                /\ deleting' = [deleting EXCEPT ![c] = TRUE]
        /\ UNCHANGED <<session, clientFeedbackProtocolVersion, killTimer, waited>>

\* Mutant: a read of a fixed size instead of readAll().
DiscardSome(c, s) ==
    /\ buffer' = [buffer EXCEPT ![c] = SubSeq(s, 2, Len(s))]
    /\ waited' = [waited EXCEPT ![c] = @ \cup RequestsIn(s)]
    /\ UNCHANGED <<state, socketOpen, session, clientFeedbackProtocolVersion, ends, played>>

\* readSocketData while doomed or waiting for the session: readAll().
DiscardAll(c, s) ==
    /\ buffer' = [buffer EXCEPT ![c] = <<>>]
    /\ waited' = [waited EXCEPT ![c] = @ \cup RequestsIn(s)]
    /\ UNCHANGED <<state, socketOpen, session, clientFeedbackProtocolVersion, ends, played>>

\* MfServer::onNewConnection; the constructor reads what is already there.
Accept(c) ==
    /\ CanDispatch
    /\ protocol[c] # "none" /\ state[c] = "none"
    /\ IF buffer[c] # <<>>
       THEN ClientSetup(c, buffer[c])
       ELSE /\ state' = [state EXCEPT ![c] = "StateClientSetup"]
            /\ UNCHANGED <<buffer, socketOpen, session, clientFeedbackProtocolVersion,
                           ends, played, waited>>
    /\ UNCHANGED <<client, wire, locks>>

\* How much of what is on the wire one read can find.
Amounts(c) == {k \in 1 .. Len(wire[c]) : split[c] \/ k % 2 = 0}

\* Bytes arrive before the connection is accepted.
ArrivesEarly(c) ==
    /\ CanDispatch
    /\ socketOpen[c] /\ ~Accepted(c)
    /\ \E k \in Amounts(c) :
         /\ buffer' = [buffer EXCEPT ![c] = @ \o SubSeq(wire[c], 1, k)]
         /\ wire' = [wire EXCEPT ![c] = SubSeq(@, k + 1, Len(@))]
    /\ UNCHANGED <<client, state, socketOpen, session, clientFeedbackProtocolVersion,
                   ends, locks, played, waited>>

\* Bytes arrive and readyRead() calls readSocketData().
readSocketData(c) ==
    /\ CanDispatch
    /\ socketOpen[c] /\ Accepted(c)
    /\ \E k \in Amounts(c) :
         LET s == buffer[c] \o SubSeq(wire[c], 1, k)
         IN  /\ wire' = [wire EXCEPT ![c] = SubSeq(@, k + 1, Len(@))]
             /\ \/ state[c] = "StatePlayback" /\ Playback(c, s)
                \/ state[c] \in {"StateDoomed", "StateWaitingSession"} /\ DiscardAll(c, s)
                \/ state[c] = "StateClientSetup" /\ ClientSetup(c, s)
    /\ UNCHANGED <<client, locks>>

\* Mutant: disconnected() is connected to deleteLater().
DisconnectedDeletes(c) ==
    /\ CanDispatch
    /\ Accepted(c) /\ socketOpen[c] /\ closed[c] /\ wire[c] = <<>>
    /\ socketOpen' = [socketOpen EXCEPT ![c] = FALSE]
    /\ deleting' = [deleting EXCEPT ![c] = TRUE]
    /\ UNCHANGED <<client, wire, buffer, state, session, clientFeedbackProtocolVersion,
                   killTimer, locks, played, waited>>

\* The client's end is closed and everything it wrote has been read: disconnected()
\* calls killMe(), which puts the deletion off while the session is being set up.
Disconnected(c) ==
    /\ CanDispatch
    /\ Accepted(c) /\ socketOpen[c] /\ closed[c] /\ wire[c] = <<>>
    /\ socketOpen' = [socketOpen EXCEPT ![c] = FALSE]
    /\ IF state[c] = "StateWaitingSession"
       THEN killTimer' = [killTimer EXCEPT ![c] = TRUE] /\ UNCHANGED deleting
       ELSE deleting' = [deleting EXCEPT ![c] = TRUE] /\ UNCHANGED killTimer
    /\ UNCHANGED <<client, wire, buffer, state, session, clientFeedbackProtocolVersion,
                   locks, played, waited>>

\* killMe() again, 10 ms later.
killMeLater(c) ==
    /\ CanDispatch
    /\ killTimer[c] /\ state[c] = "StateWaitingSession"
    /\ UNCHANGED vars

\* Mutant: the timer is started again whatever the state.
killMeAgain(c) == CanDispatch /\ killTimer[c] /\ UNCHANGED vars

killMe(c) ==
    /\ CanDispatch
    /\ killTimer[c] /\ state[c] # "StateWaitingSession"
    /\ killTimer' = [killTimer EXCEPT ![c] = FALSE]
    /\ deleting' = [deleting EXCEPT ![c] = TRUE]
    /\ UNCHANGED <<client, wire, buffer, state, socketOpen, session,
                   clientFeedbackProtocolVersion, locks, played, waited>>

\* The deferred deletion, of the session too; the next client starts from nothing.
Delete(c) ==
    /\ CanDispatch
    /\ deleting[c]
    /\ protocol' = [protocol EXCEPT ![c] = "none"]
    /\ split' = [split EXCEPT ![c] = FALSE]
    /\ said' = [said EXCEPT ![c] = 0]
    /\ closed' = [closed EXCEPT ![c] = FALSE]
    /\ wire' = [wire EXCEPT ![c] = <<>>]
    /\ buffer' = [buffer EXCEPT ![c] = <<>>]
    /\ state' = [state EXCEPT ![c] = "none"]
    /\ socketOpen' = [socketOpen EXCEPT ![c] = FALSE]
    /\ session' = [session EXCEPT ![c] = "none"]
    /\ clientFeedbackProtocolVersion' =
         [clientFeedbackProtocolVersion EXCEPT ![c] = "Unknown"]
    /\ killTimer' = [killTimer EXCEPT ![c] = FALSE]
    /\ deleting' = [deleting EXCEPT ![c] = FALSE]
    /\ played' = [played EXCEPT ![c] = <<>>]
    /\ waited' = [waited EXCEPT ![c] = {}]
    /\ UNCHANGED locks

-----------------------------------------------------------------------------
(* MfSession::setup.                                                       *)

BeginSetup(c) ==
    /\ CanDispatch
    /\ session[c] = "scheduled"
    /\ ~setupInProgress
    /\ setupInProgress' = TRUE
    /\ inSetup' = <<c>> \o inSetup
    /\ session' = [session EXCEPT ![c] = "setup"]
    /\ UNCHANGED <<client, wire, buffer, state, socketOpen, clientFeedbackProtocolVersion,
                   ends, played, waited>>

\* Another setup is in progress: the timer is started again, for 10 ms.
SetupLater(c) ==
    /\ CanDispatch
    /\ session[c] = "scheduled"
    /\ setupInProgress
    /\ UNCHANGED vars

\* The feedbacks are loaded: setupReady() opens the playback, the flag is released.
EndSetup(c) ==
    /\ inSetup # <<>> /\ Head(inSetup) = c
    /\ inSetup' = Tail(inSetup)
    /\ setupInProgress' = FALSE
    /\ session' = [session EXCEPT ![c] = "ready"]
    /\ state' = [state EXCEPT ![c] = "StatePlayback"]
    /\ UNCHANGED <<client, wire, buffer, socketOpen, clientFeedbackProtocolVersion,
                   ends, played, waited>>

-----------------------------------------------------------------------------

Next ==
    \E c \in Connections :
        \/ ClientConnects(c) \/ ClientWrites(c) \/ ClientCloses(c)
        \/ Accept(c) \/ ArrivesEarly(c) \/ readSocketData(c)
        \/ Disconnected(c) \/ killMe(c) \/ killMeLater(c) \/ Delete(c)
        \/ BeginSetup(c) \/ SetupLater(c) \/ EndSetup(c)

Spec == Init /\ [][Next]_vars

\* What the event loop does for a connection; at most one of these is ever possible.
Serve(c) == Accept(c) \/ readSocketData(c) \/ Disconnected(c) \/ killMe(c) \/ Delete(c)

\* The event loop serves sockets, timers and deferred deletions, setup() returns, and
\* the 10 ms retries get through in the end.  Clients do as they like.
Fairness ==
    \A c \in Connections :
        /\ WF_vars(Serve(c))
        /\ SF_vars(BeginSetup(c)) /\ WF_vars(EndSetup(c))

FairSpec == Spec /\ Fairness

-----------------------------------------------------------------------------
(* Properties.                                                             *)

\* Requests are played at most once and in the order the client made them, although
\* some are thrown away and reads cut the stream anywhere (fetchPlaybackRequest).
PlayedInOrder ==
    \A c \in Connections : \A i, j \in DOMAIN played[c] :
        i < j => \E k, l \in DOMAIN Requests[c] :
                    k < l /\ Requests[c][k] = played[c][i] /\ Requests[c][l] = played[c][j]

\* The session is there as long as something uses it: fetchPlaybackRequest() follows
\* `session' without asking, so in playback it exists and has its feedbacks; and killMe()
\* deletes neither connection nor session while setup() has not returned, whoever hangs
\* up during a local event loop.
SessionInUse ==
    /\ \A c \in Connections : state[c] = "StatePlayback" => session[c] = "ready"
    /\ \A i \in DOMAIN inSetup : session[inSetup[i]] = "setup"

\* A client of an unknown protocol never gets a session and nothing it sends is
\* played, wherever its strings are cut (setup, StateDoomed).
UnknownNeverServed ==
    \A c \in Connections : protocol[c] = "version2" => session[c] = "none" /\ played[c] = <<>>

\* A client whose strings arrive whole is never cut off (terminate): what is thrown
\* away while the session is set up does not put the stream out of step.
WholeNeverTerminated ==
    \A c \in Connections : ~split[c] => state[c] # "StateTerminated"

\* mfconnection.cpp:71-72, "discard all data when in doomed state or waiting for session
\* creation to finish": no request that came while the session was set up is played.
WaitingIsDiscarded ==
    \A c \in Connections : Range(played[c]) \cap waited[c] = {}

\* A client that hung up is forgotten, with its session, also when it does so in the
\* middle of the setup (killMe, deleteLater).
GoneIsDeleted == \A c \in Connections : closed[c] ~> protocol[c] = "none"

\* A client older than protocol versions whose name arrives whole gets its session,
\* unless it hangs up first.
LegacyServed ==
    \A c \in Connections :
        protocol[c] = "legacy" /\ ~split[c] /\ said[c] > 0 ~> state[c] = "StatePlayback" \/ closed[c]

=============================================================================
