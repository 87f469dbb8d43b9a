--------------------------- MODULE MCMfConnection ---------------------------
(* The first client asks for two feedbacks, any other for none and only    *)
(* competes for the setup; its strings arrive whole.                       *)
EXTENDS MfConnection, TLC

First == CHOOSE c \in Connections : TRUE
MCRequests == [c \in Connections |-> IF c = First THEN <<"press", "release">> ELSE <<>>]
MCSplits == [c \in Connections |-> IF c = First THEN {TRUE, FALSE} ELSE {FALSE}]

=============================================================================
