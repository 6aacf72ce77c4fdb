----------------------------- MODULE PspLifecycle -----------------------------
(***************************************************************************)
(* A job of N ranks from MPI_Init to the end of the processes: MPID_Init  *)
(* with the settings check (PspInitSettings), the application, and        *)
(* MPID_Finalize with its barriers and alarm (PspFinalize).  A rank calls  *)
(* MPI_Finalize only after MPID_Init and MPID_InitCompleted succeeded on   *)
(* it; a rank whose                                                        *)
(* MPI_Init failed or exited never does, so the first finalize barrier     *)
(* waits for it as the real one would.                                     *)
(***************************************************************************)
EXTENDS Naturals

CONSTANTS N, Versions, PMs, DebugValues, PscomResults, NoValue, Timeouts

VARIABLES
    ipc, env, kvs, arrived, checkRes,           \* PspInitSettings
    fpc, timeout, armed, arrived2, killedAt     \* PspFinalize

ivars == <<ipc, env, kvs, arrived, checkRes>>
fvars == <<fpc, timeout, armed, arrived2, killedAt>>
vars == <<ivars, fvars>>

I == INSTANCE PspInitSettings WITH pc <- ipc
F == INSTANCE PspFinalize WITH pc <- fpc, Ranks <- 0..N-1

Init == I!Init /\ F!Init

\* A step of MPID_Init on rank r
InitStep(r) == I!RankStep(r) /\ UNCHANGED fvars

\* The application calls MPI_Finalize once its MPI_Init succeeded
\* (MPID_Init and MPID_InitCompleted)
AppFinalize(r) == ipc[r] = "completed" /\ F!MPID_Finalize(r) /\ UNCHANGED ivars

\* The steps of MPID_Finalize after its entry, and the end of the process
LeaveBarrier1(r)      == F!LeaveBarrier1(r) /\ UNCHANGED ivars
LeaveBarrier2(r)      == F!LeaveBarrier2(r) /\ UNCHANGED ivars
QueueCleanup(r)       == F!QueueCleanup(r) /\ UNCHANGED ivars
RmaCleanup(r)         == F!RmaCleanup(r) /\ UNCHANGED ivars
PmiFinalize(r)        == F!PmiFinalize(r) /\ UNCHANGED ivars
SigFinalizeTimeout(r) == F!SigFinalizeTimeout(r) /\ UNCHANGED ivars
ProcessExit(r)        == F!ProcessExit(r) /\ UNCHANGED ivars

Next ==
    \E r \in 0..N-1 :
        \/ InitStep(r) \/ AppFinalize(r)
        \/ LeaveBarrier1(r) \/ LeaveBarrier2(r) \/ QueueCleanup(r)
        \/ RmaCleanup(r) \/ PmiFinalize(r) \/ SigFinalizeTimeout(r) \/ ProcessExit(r)

\* The fairness of the two components: the code of MPID_Init and of
\* MPID_Finalize runs, and time passes for the alarm; the application's
\* call of MPI_Finalize and the process exit get none.
Spec ==
    /\ Init /\ [][Next]_vars
    /\ \A r \in 0..N-1 :
          /\ WF_vars(InitStep(r))
          /\ WF_vars(LeaveBarrier1(r)) /\ WF_vars(LeaveBarrier2(r))
          /\ WF_vars(QueueCleanup(r)) /\ WF_vars(RmaCleanup(r)) /\ WF_vars(PmiFinalize(r))
          /\ WF_vars(SigFinalizeTimeout(r))

-----------------------------------------------------------------------------
(* Properties *)

\* check_psmpi_settings in the job: a rank other than 0 passes the check
\* exactly when its settings string equals rank 0's.
CheckAcceptsExactlyAgreeing == I!CheckAcceptsExactlyAgreeing

\* MPID_Init returns on every rank when all set PSP_DEBUG_SETTINGS alike,
\* while other ranks may already be in MPI_Finalize.
InitReturnsWhenUniform == I!InitReturnsWhenUniform

\* MPID_Finalize terminates: once every rank has called MPI_Finalize, each
\* returns or is ended by its alarm, whatever the ranks' timeouts.
FinalizeTerminates == F!FinalizeTerminates

==============================================================================
