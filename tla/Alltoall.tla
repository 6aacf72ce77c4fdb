------------------------------ MODULE Alltoall -------------------------------
(***************************************************************************)
(* What MPI_Alltoall with MPI_IN_PLACE promises: block k of the buffer of *)
(* rank r, the data r had for k, ends up as block r of the buffer of rank  *)
(* k; the exchange happens once.                                           *)
(***************************************************************************)
EXTENDS Naturals

CONSTANT N            \* comm_size
VARIABLES buf, done   \* buf[r][k]: block k of rank r's recvbuf

Procs == 0..N-1

\* Block k of rank r before the call: the data r sends to k
InitBuf == [r \in Procs |-> [k \in Procs |-> <<r, k>>]]

Init == buf = InitBuf /\ done = FALSE

\* The whole collective as one step: the buffers are transposed
Exchange ==
    /\ ~done
    /\ buf' = [r \in Procs |-> [k \in Procs |-> buf[k][r]]]
    /\ done' = TRUE

Spec == Init /\ [][Exchange]_<<buf, done>> /\ WF_<<buf, done>>(Exchange)
==============================================================================
