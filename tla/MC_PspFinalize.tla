--------------------------- MODULE MC_PspFinalize ---------------------------
EXTENDS PspFinalize
CONSTANTS p0, p1, p2
MC_Ranks == {p0, p1, p2}
\* PSP_FINALIZE_TIMEOUT=0 (no second barrier) or the default of 5 seconds
MC_Timeouts == {0, 5}
==============================================================================
