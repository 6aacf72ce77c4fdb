\* Three ranks whose psmpi versions and environments differ in every way the
\* settings string, PSP_DEBUG_SETTINGS and PSP_FINALIZE_TIMEOUT can.
\* Deadlock is not checked: a rank whose MPI_Init failed, or that waits in
\* a barrier for such a rank, really stops; the liveness properties tell
\* these cases apart.
CONSTANTS
    v1 = v1  v2 = v2  none = none
    N <- MC_N
    Versions <- MC_Versions
    PMs <- MC_PMs
    DebugValues <- MC_Debug
    PscomResults = {"SUCCESS"}
    NoValue = none
    Timeouts <- MC_Timeouts
SPECIFICATION Spec
INVARIANT CheckAcceptsExactlyAgreeing
PROPERTIES InitReturnsWhenUniform FinalizeTerminates
CHECK_DEADLOCK FALSE
