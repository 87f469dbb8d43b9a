------------------------- MODULE MCMfReconnection -------------------------
EXTENDS MfReconnection, TLC

MCIntervals == <<500, 1000, 5000, 10000, 30000, 120000>>

=============================================================================
