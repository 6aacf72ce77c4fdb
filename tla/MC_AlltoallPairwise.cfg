\* The pairwise in-place alltoall on four ranks, fair scheduling.
CONSTANT N <- MC_N
SPECIFICATION Spec
PROPERTY AlltoallRefined
