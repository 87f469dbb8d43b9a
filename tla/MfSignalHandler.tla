--------------------------- MODULE MfSignalHandler ---------------------------
(***************************************************************************)
(* The signal handlers of the daemon (daemon/mfsignalhandler.cpp), each    *)
(* for one signal: what the kernel calls writes the signal into a socket   *)
(* pair, and a notifier has the event loop read it again and emit          *)
(* signalReceived().  The actions are those of the objects; MfDaemon says  *)
(* when main() calls them.                                                 *)
(*                                                                         *)
(* init() and the destructor change dispositions and the static map with   *)
(* all signals blocked, so each is one step for a signal that the main     *)
(* thread takes.  Sockets have room for MaxUnread signals.                 *)
(***************************************************************************)
EXTENDS Naturals, Functions

CONSTANTS
    Handlers,
    SignalOf,     \* handler -> the signal it is initialized with, each its own
    MaxUnread     \* room in a socket

Signals == {SignalOf[h] : h \in Handlers}

VARIABLES
    disposition,  \* what the kernel does with a signal: "default" or "onSignal"
    signal2fd,    \* the static map; a socket is known by the handler that opened it
    fd,           \* a handler's socket pair: "unset", "open" or "closed"
    watchOver,    \* the signals a handler is for
    notify,       \* the handlers that have a socket notifier
    unread        \* a handler's socket: how many signals it holds

\* A process that has just begun.
NoHandlers ==
    [disposition |-> [s \in Signals |-> "default"],
     signal2fd   |-> [s \in {} |-> s],
     fd          |-> [h \in Handlers |-> "unset"],
     watchOver   |-> [h \in Handlers |-> {}],
     notify      |-> {},
     unread      |-> [h \in Handlers |-> 0]]

SignalInit ==
    /\ disposition = NoHandlers.disposition /\ signal2fd = NoHandlers.signal2fd
    /\ fd = NoHandlers.fd /\ watchOver = NoHandlers.watchOver
    /\ notify = NoHandlers.notify /\ unread = NoHandlers.unread

\* The process ends, and the kernel closes what it had open; or another one begins.
Forget ==
    /\ disposition' = NoHandlers.disposition /\ signal2fd' = NoHandlers.signal2fd
    /\ fd' = NoHandlers.fd /\ watchOver' = NoHandlers.watchOver
    /\ notify' = NoHandlers.notify /\ unread' = NoHandlers.unread

-----------------------------------------------------------------------------
(* init(signal).                                                           *)

\* Mutant: the map is made anew.
InsertOnly(h) == [s \in {SignalOf[h]} |-> h]

\* signal2fd.insert.
Insert(h) == [s \in DOMAIN signal2fd \cup {SignalOf[h]} |->
                IF s = SignalOf[h] THEN h ELSE signal2fd[s]]

catchSignal(h) == watchOver' = [watchOver EXCEPT ![h] = @ \cup {SignalOf[h]}]

InitSucceeds(h) ==
    /\ catchSignal(h)
    /\ fd' = [fd EXCEPT ![h] = "open"]
    /\ disposition' = [disposition EXCEPT ![SignalOf[h]] = "onSignal"]
    /\ signal2fd' = Insert(h)
    /\ notify' = notify \cup {h}
    /\ UNCHANGED unread

\* socketpair() fails.
NoSocket(h) ==
    /\ catchSignal(h)
    /\ UNCHANGED <<disposition, signal2fd, fd, notify, unread>>

\* sigaction() fails.
NoAction(h) ==
    /\ catchSignal(h)
    /\ fd' = [fd EXCEPT ![h] = "open"]
    /\ UNCHANGED <<disposition, signal2fd, notify, unread>>

-----------------------------------------------------------------------------

\* onSignal, which the kernel calls for a signal that is not at its default.
onSignal(s) ==
    /\ disposition[s] = "onSignal"
    /\ IF s \in DOMAIN signal2fd
       THEN /\ unread[signal2fd[s]] < MaxUnread
            /\ unread' = [unread EXCEPT ![signal2fd[s]] = @ + 1]
       ELSE UNCHANGED unread
    /\ UNCHANGED <<disposition, signal2fd, fd, watchOver, notify>>

\* The notifier calls retranslate(), which emits signalReceived().
retranslate(h) ==
    /\ h \in notify
    /\ unread[h] > 0
    /\ unread' = [unread EXCEPT ![h] = @ - 1]
    /\ UNCHANGED <<disposition, signal2fd, fd, watchOver, notify>>

\* Mutant: the map keeps its entries.
ReleaseKeepsMap(h) ==
    /\ notify' = notify \ {h}
    /\ disposition' = [s \in Signals |-> IF s \in watchOver[h] THEN "default" ELSE disposition[s]]
    /\ UNCHANGED <<signal2fd, fd, watchOver, unread>>

\* ~MfSignalHandler: first the signals are given up, with all of them blocked.
Release(h) ==
    /\ notify' = notify \ {h}
    /\ disposition' = [s \in Signals |-> IF s \in watchOver[h] THEN "default" ELSE disposition[s]]
    /\ signal2fd' = Restrict(signal2fd, DOMAIN signal2fd \ watchOver[h])
    /\ UNCHANGED <<fd, watchOver, unread>>

\* Then the sockets are closed; those of a handler that has none are descriptor 0.
Close(h) ==
    /\ fd' = [fd EXCEPT ![h] = "closed"]
    /\ UNCHANGED <<disposition, signal2fd, watchOver, notify, unread>>

-----------------------------------------------------------------------------

\* A signal is never written into a socket that is not open: the map names only sockets
\* of handlers that have opened theirs and not closed it, and every signal that is caught
\* has its socket (init, ~MfSignalHandler, of either handler beside the other).
MappedIsOpen ==
    /\ \A s \in DOMAIN signal2fd : fd[signal2fd[s]] = "open"
    /\ \A s \in Signals : disposition[s] = "onSignal" <=> s \in DOMAIN signal2fd

=============================================================================
