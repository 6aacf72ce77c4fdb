--------------------------- MODULE MC_PspLifecycle ---------------------------
EXTENDS PspLifecycle

CONSTANTS v1, v2, none

MC_N == 3
MC_Versions == {v1, v2}
MC_PMs == {"pmi"}
MC_Debug == {0, 1}
MC_Timeouts == {0, 5}

==============================================================================
