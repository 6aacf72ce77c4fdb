------------------------- MODULE MC_CompressorRegistry -------------------------
EXTENDS CompressorRegistry

CONSTANTS t1, t2, n1, n2, bad, none

MC_Threads == {t1, t2}
MC_Names == {n1, n2}
MC_MaxCalls == 2

==============================================================================
