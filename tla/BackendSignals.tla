--------------------------- MODULE BackendSignals ---------------------------
(***************************************************************************)
(* What a backend promises to MfManager: it is connected or not, it posts  *)
(* a signal at each change, in order, and it does not announce a new       *)
(* connection before the manager has handled the loss of the last one, so  *)
(* the handles of a lost connection are always flushed before new ones are *)
(* loaded (MfManager::backendDisconnected, MfManager::backendConnected).   *)
(* All this holds until a loss overtakes the announcement of the           *)
(* connection it breaks; then the announcement comes after the loss, and   *)
(* nothing is promised any more.                                           *)
(***************************************************************************)
EXTENDS Sequences

VARIABLES
    connected,   \* the backend is usable, and has announced it
    inbox,       \* the signals posted to MfManager, oldest first
    overtaken    \* a connection broke before it was announced

Init ==
    /\ connected = FALSE
    /\ inbox = <<>>
    /\ overtaken = FALSE

Lose ==
    /\ connected
    /\ connected' = FALSE
    /\ inbox' = Append(inbox, "backendDisconnected")
    /\ UNCHANGED overtaken

Establish ==
    /\ ~connected
    /\ \A i \in DOMAIN inbox : inbox[i] # "backendDisconnected"
    /\ connected' = TRUE
    /\ inbox' = Append(inbox, "backendConnected")
    /\ UNCHANGED overtaken

Handle ==
    /\ inbox # <<>>
    /\ inbox' = Tail(inbox)
    /\ UNCHANGED <<connected, overtaken>>

\* The daemon exits: what is still posted is never handled.
Exit ==
    /\ inbox' = <<>>
    /\ UNCHANGED <<connected, overtaken>>

\* Only a connection that is not announced can be overtaken; from then on anything goes.
Overtake == ~connected /\ overtaken' = TRUE
NoPromise == overtaken /\ overtaken' = TRUE

Next == Lose \/ Establish \/ Handle \/ Exit \/ Overtake \/ NoPromise

Spec == Init /\ [][Next]_<<connected, inbox, overtaken>>

=============================================================================
