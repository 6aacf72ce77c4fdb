----------------------------- MODULE PspFinalize -----------------------------
(***************************************************************************)
(* MPID_Finalize of the psp device (mpid_finalize.c) on every rank of     *)
(* MPI_COMM_WORLD: a first barrier, then, when PSP_FINALIZE_TIMEOUT read   *)
(* from the rank's own environment is positive, SIGALRM armed with         *)
(* alarm(timeout) and a second barrier, then the request-queue cleanup,   *)
(* the RMA cleanup and PMI_Finalize.  The alarm is never disarmed: its     *)
(* handler sig_finalize_timeout calls _exit(0) whenever it fires before    *)
(* the process ends.                                                       *)
(*                                                                         *)
(* A barrier (MPIR_Barrier_impl, not in this tree) releases a rank once    *)
(* every rank of the communicator has entered it.  Time is not modelled:   *)
(* an armed alarm may fire at any later step.                              *)
(***************************************************************************)
EXTENDS Naturals

CONSTANTS
    Ranks,      \* the processes of MPI_COMM_WORLD
    Timeouts    \* values PSP_FINALIZE_TIMEOUT may have in a rank's environment

ASSUME Timeouts \subseteq Nat /\ Timeouts # {}

VARIABLES
    pc,        \* where each rank is
    timeout,   \* each rank's PSP_FINALIZE_TIMEOUT
    armed,     \* alarm(timeout) has been called
    arrived2,  \* ranks that entered the second barrier
    killedAt   \* ghost: the pc at which the alarm ended the rank ("none")

vars == <<pc, timeout, armed, arrived2, killedAt>>

Pcs == {"app", "barrier1", "barrier2", "cleanup", "rma", "pmi", "returned",
        "exited", "killed"}


\* _getenv_i("PSP_FINALIZE_TIMEOUT", 5): every rank reads its own environment
Init ==
    /\ pc = [r \in Ranks |-> "app"]
    /\ timeout \in [Ranks -> Timeouts]
    /\ armed = [r \in Ranks |-> FALSE]
    /\ arrived2 = {}
    /\ killedAt = [r \in Ranks |-> "none"]

Step(r, from, to) ==
    /\ pc[r] = from
    /\ pc' = [pc EXCEPT ![r] = to]

\* The application calls MPI_Finalize; MPID_Finalize enters the first barrier
MPID_Finalize(r) ==
    /\ Step(r, "app", "barrier1")
    /\ UNCHANGED <<timeout, armed, arrived2, killedAt>>

\* Mutant of LeaveBarrier1: the handler installed but alarm() never called
LeaveBarrier1_no_alarm(r) ==
    /\ pc[r] = "barrier1"
    /\ \A q \in Ranks : pc[q] # "app"
    /\ IF timeout[r] > 0
       THEN /\ pc' = [pc EXCEPT ![r] = "barrier2"]
            /\ arrived2' = arrived2 \cup {r}
            /\ UNCHANGED armed
       ELSE /\ pc' = [pc EXCEPT ![r] = "cleanup"]
            /\ UNCHANGED <<armed, arrived2>>
    /\ UNCHANGED <<timeout, killedAt>>

\* Leaving the first barrier (all ranks entered it); with a positive
\* timeout: signal(SIGALRM, ...), alarm(timeout), enter the second barrier
LeaveBarrier1(r) ==
    /\ pc[r] = "barrier1"
    /\ \A q \in Ranks : pc[q] # "app"
    /\ IF timeout[r] > 0
       THEN /\ pc' = [pc EXCEPT ![r] = "barrier2"]
            /\ armed' = [armed EXCEPT ![r] = TRUE]
            /\ arrived2' = arrived2 \cup {r}
       ELSE /\ pc' = [pc EXCEPT ![r] = "cleanup"]
            /\ UNCHANGED <<armed, arrived2>>
    /\ UNCHANGED <<timeout, killedAt>>

\* Leaving the second barrier: every rank has entered it
LeaveBarrier2(r) ==
    /\ pc[r] = "barrier2"
    /\ arrived2 = Ranks
    /\ pc' = [pc EXCEPT ![r] = "cleanup"]
    /\ UNCHANGED <<timeout, armed, arrived2, killedAt>>

\* MPID_req_queue_cleanup, MPID_PSP_rma_cleanup, PMI_Finalize and return
QueueCleanup(r) == Step(r, "cleanup", "rma") /\ UNCHANGED <<timeout, armed, arrived2, killedAt>>
RmaCleanup(r)   == Step(r, "rma", "pmi")     /\ UNCHANGED <<timeout, armed, arrived2, killedAt>>
PmiFinalize(r)  == Step(r, "pmi", "returned") /\ UNCHANGED <<timeout, armed, arrived2, killedAt>>

\* The program ends after MPI_Finalize returned
ProcessExit(r) == Step(r, "returned", "exited") /\ UNCHANGED <<timeout, armed, arrived2, killedAt>>

\* sig_finalize_timeout: the armed alarm fires while the process still runs
SigFinalizeTimeout(r) ==
    /\ armed[r]
    /\ pc[r] \notin {"exited", "killed"}
    /\ pc' = [pc EXCEPT ![r] = "killed"]
    /\ killedAt' = [killedAt EXCEPT ![r] = pc[r]]
    /\ UNCHANGED <<timeout, armed, arrived2>>

Next ==
    \E r \in Ranks :
        \/ MPID_Finalize(r) \/ LeaveBarrier1(r) \/ LeaveBarrier2(r)
        \/ QueueCleanup(r) \/ RmaCleanup(r) \/ PmiFinalize(r) \/ ProcessExit(r)
        \/ SigFinalizeTimeout(r)

Spec == Init /\ [][Next]_vars

\* The barriers, the cleanup and the timer progress on their own once the
\* application has called MPI_Finalize; time passes, so an armed alarm
\* eventually fires unless the process ends first.
FairSpec ==
    /\ Spec
    /\ \A r \in Ranks :
          /\ WF_vars(LeaveBarrier1(r)) /\ WF_vars(LeaveBarrier2(r))
          /\ WF_vars(QueueCleanup(r)) /\ WF_vars(RmaCleanup(r)) /\ WF_vars(PmiFinalize(r))
          /\ WF_vars(SigFinalizeTimeout(r))

-----------------------------------------------------------------------------
(* Properties *)

Finished(r) == pc[r] \in {"returned", "exited", "killed"}

\* MPID_Finalize terminates: once every rank has called MPI_Finalize, every
\* rank eventually returns from it or is ended by the finalize timeout,
\* whatever PSP_FINALIZE_TIMEOUT each rank's environment holds.
FinalizeTerminates ==
    (\A r \in Ranks : pc[r] # "app") ~> (\A r \in Ranks : Finished(r))

\* The comments of mpid_finalize.c and of PSP_FINALIZE_TIMEOUT in
\* mpid_env_init: the timeout aborts the second barrier; the alarm never
\* ends a rank anywhere else.
TimeoutOnlyAbortsBarrier2 ==
    \A r \in Ranks : killedAt[r] \in {"none", "barrier2"}

==============================================================================
