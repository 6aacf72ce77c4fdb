------------------------ MODULE MC_AlltoallPairwise -------------------------
EXTENDS AlltoallPairwise
\* Four ranks: each rank is i for some pairs, j for others, and exchanges
\* with itself once
MC_N == 4
==============================================================================
