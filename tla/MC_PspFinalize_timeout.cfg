\* Three ranks running MPID_Finalize; where may the finalize alarm fire?
CONSTANTS
    p0 = p0  p1 = p1  p2 = p2
    Ranks <- MC_Ranks
    Timeouts <- MC_Timeouts
SPECIFICATION Spec
INVARIANT TimeoutOnlyAbortsBarrier2
\* every rank ends (exited or killed): the processes really stop
CHECK_DEADLOCK FALSE
