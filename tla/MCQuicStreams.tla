--------------------------- MODULE MCQuicStreams ---------------------------
EXTENDS QuicStreams, QuicPlans
=============================================================================
