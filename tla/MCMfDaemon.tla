----------------------------- MODULE MCMfDaemon -----------------------------
EXTENDS MfDaemon, TLC

MCSignalOf == [h \in Handlers |-> IF h = sigTermHandler THEN "SIGTERM" ELSE "SIGINT"]

=============================================================================
