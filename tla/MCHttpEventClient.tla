------------------------- MODULE MCHttpEventClient -------------------------
EXTENDS HttpEventClient

CONSTANTS r1, r2, r3

P == INSTANCE HttpClientPlans
HeldPlans == P!HeldPlans
ClientPlans == P!ClientPlans
=============================================================================
