--------------------------- MODULE PspInitSettings ---------------------------
(***************************************************************************)
(* MPID_Init of the psp device (mpid_init.c) on every rank of a job        *)
(* started by a process manager: pscom_init, mpid_env_init, and, when the  *)
(* rank's PSP_DEBUG_SETTINGS is set, check_psmpi_settings: rank 0 puts its *)
(* settings string into the PMI KVS, every rank enters MPIR_pmi_barrier,  *)
(* and the other ranks get rank 0's string and compare it with their own.  *)
(* Then MPIDI_PSP_connection_init, MPIDI_PSP_PG_init and the rest of       *)
(* MPID_Init (not in this tree: one step that succeeds or fails), and     *)
(* MPID_InitCompleted after a successful MPID_Init.                        *)
(*                                                                         *)
(* The settings string "version-pm-ondemand" is the triple of its parts:  *)
(* pm and the ondemand word come from fixed sets without '-', so two      *)
(* strings are equal exactly when the triples are.  A PMI barrier          *)
(* releases the ranks once every rank has entered it.  The singleton case  *)
(* (no process manager) is not modelled: the runs have several ranks.      *)
(***************************************************************************)
EXTENDS Naturals

CONSTANTS
    N,              \* number of ranks
    Versions,       \* MPIDI_PSP_VC_VERSION of the psmpi a rank runs
    PMs,            \* pm_to_str(): "pmi" or "pmix", fixed at build time
    DebugValues,    \* values of PSP_DEBUG_SETTINGS in a rank's environment
    PscomResults,   \* outcomes of pscom_init / pscom_init_thread
    NoValue         \* the KVS holds no value for the key

Ranks == 0..N-1

VARIABLES
    pc,        \* where each rank is in MPID_Init
    env,       \* per rank: [version, pm, ondemand, debug, pscom]
    kvs,       \* the value of key "psmpi_settings" in the PMI KVS
    arrived,   \* ranks that entered MPIR_pmi_barrier
    checkRes   \* per rank: result of check_psmpi_settings ("none" if not run)

vars == <<pc, env, kvs, arrived, checkRes>>

\* ondemand_to_str
OndemandToStr(o) == IF o # 0 THEN "ondemand" ELSE "immediate"

\* snprintf(settings, max_len, "%s-%s-%s", version, pm, ondemand)
Settings(r) == <<env[r].version, env[r].pm, OndemandToStr(env[r].ondemand)>>

Env == [version : Versions, pm : PMs, ondemand : {0, 1},
        debug : DebugValues, pscom : PscomResults]

Init ==
    /\ pc = [r \in Ranks |-> "start"]
    /\ env \in [Ranks -> Env]
    /\ kvs = NoValue
    /\ arrived = {}
    /\ checkRes = [r \in Ranks |-> "none"]

\* MPID_Init up to the settings check: pscom_init (exit(1) on failure),
\* mpid_env_init, mpid_add_finalize_callbacks
MPID_Init(r) ==
    /\ pc[r] = "start"
    /\ pc' = [pc EXCEPT ![r] = IF env[r].pscom # "SUCCESS" THEN "exited"
                              ELSE IF env[r].debug # 0 THEN "check"
                              ELSE "conn"]
    /\ UNCHANGED <<env, kvs, arrived, checkRes>>

\* Mutant of CheckSettingsPut: the ranks other than 0 read the KVS without
\* waiting in the barrier
CheckSettingsPut_no_barrier(r) ==
    /\ pc[r] = "check"
    /\ kvs' = IF r = 0 THEN Settings(0) ELSE kvs
    /\ arrived' = arrived \cup {r}
    /\ pc' = [pc EXCEPT ![r] = IF r = 0 THEN "barrier" ELSE "get"]
    /\ UNCHANGED <<env, checkRes>>

\* Mutant of CheckSettingsPut: only the ranks that read enter the barrier
CheckSettingsPut_barrier_nonzero(r) ==
    /\ pc[r] = "check"
    /\ kvs' = IF r = 0 THEN Settings(0) ELSE kvs
    /\ arrived' = IF r = 0 THEN arrived ELSE arrived \cup {r}
    /\ pc' = [pc EXCEPT ![r] = IF r = 0 THEN "conn" ELSE "barrier"]
    /\ checkRes' = IF r = 0 THEN [checkRes EXCEPT ![r] = "SUCCESS"] ELSE checkRes
    /\ UNCHANGED env

\* check_psmpi_settings: rank 0 puts its settings, then MPIR_pmi_barrier
CheckSettingsPut(r) ==
    /\ pc[r] = "check"
    /\ kvs' = IF r = 0 THEN Settings(0) ELSE kvs
    /\ arrived' = arrived \cup {r}
    /\ pc' = [pc EXCEPT ![r] = "barrier"]
    /\ UNCHANGED <<env, checkRes>>

\* Every rank entered the barrier; rank 0 returns MPI_SUCCESS from the
\* check, the others go on to the get
LeavePmiBarrier(r) ==
    /\ pc[r] = "barrier"
    /\ arrived = Ranks
    /\ pc' = [pc EXCEPT ![r] = IF r = 0 THEN "conn" ELSE "get"]
    /\ checkRes' = IF r = 0 THEN [checkRes EXCEPT ![r] = "SUCCESS"] ELSE checkRes
    /\ UNCHANGED <<env, kvs, arrived>>

\* MPIR_pmi_kvs_get(0, key, ...) (an error when the key is missing) and
\* strcmp with the own settings: MPI_ERR_OTHER on a difference; an error
\* makes MPID_Init return it
CheckSettingsGet(r) ==
    LET res == IF kvs = NoValue THEN "ERR_KVS_GET"
               ELSE IF kvs # Settings(r) THEN "ERR_OTHER"
               ELSE "SUCCESS"
    IN  /\ pc[r] = "get"
        /\ checkRes' = [checkRes EXCEPT ![r] = res]
        /\ pc' = [pc EXCEPT ![r] = IF res = "SUCCESS" THEN "conn" ELSE "failed"]
        /\ UNCHANGED <<env, kvs, arrived>>

\* MPIDI_PSP_connection_init, MPIDI_PSP_PG_init, MPID_PSP_shm_rma_init,
\* *provided, the partitioned lists: MPID_Init returns, or one of the
\* first two fails and MPID_Init returns its error
InitRest(r) ==
    /\ pc[r] = "conn"
    /\ \E to \in {"returned", "failed"} : pc' = [pc EXCEPT ![r] = to]
    /\ UNCHANGED <<env, kvs, arrived, checkRes>>

\* MPID_InitCompleted, called once MPID_Init succeeded: the world model,
\* MPID_PSP_comm_init (not in this tree), the "cuda_aware" entry of
\* MPI_INFO_ENV; an error of comm_init or of the info set is returned
MPID_InitCompleted(r) ==
    /\ pc[r] = "returned"
    /\ \E to \in {"completed", "failed"} : pc' = [pc EXCEPT ![r] = to]
    /\ UNCHANGED <<env, kvs, arrived, checkRes>>

RankStep(r) ==
    \/ MPID_Init(r) \/ CheckSettingsPut(r) \/ LeavePmiBarrier(r)
    \/ CheckSettingsGet(r) \/ InitRest(r) \/ MPID_InitCompleted(r)

Next == \E r \in Ranks : RankStep(r)

\* Every process calls MPI_Init; the code of MPID_Init runs without waiting
\* on anything but the PMI barrier.
Spec == Init /\ [][Next]_vars /\ \A r \in Ranks : WF_vars(RankStep(r))

-----------------------------------------------------------------------------
(* Properties *)

Returned(r) == pc[r] \in {"returned", "completed", "failed", "exited"}

\* check_psmpi_settings: a rank other than 0 passes the check exactly when
\* its settings string equals rank 0's; the put before the barrier and the
\* get after it mean no rank fails for a value it read too early.
CheckAcceptsExactlyAgreeing ==
    \A r \in Ranks \ {0} :
        checkRes[r] # "none" => (checkRes[r] = "SUCCESS" <=> Settings(r) = Settings(0))

\* MPID_Init returns on every rank (with success or an error) when every
\* rank's environment sets PSP_DEBUG_SETTINGS alike.  The premise is
\* needed: PSP_DEBUG_SETTINGS is read per process, and a rank that sets it
\* waits in the PMI barrier for a rank that skips the check.
InitReturnsWhenUniform ==
    (\A r, q \in Ranks : (env[r].debug # 0) = (env[q].debug # 0))
        => <>(\A r \in Ranks : Returned(r))

==============================================================================
