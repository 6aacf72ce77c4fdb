--------------------------- MODULE AlltoallPairwise ---------------------------
(***************************************************************************)
(* MPIR_Alltoall_intra_pairwise_sendrecv_replace: every rank walks the    *)
(* same schedule of pairs (i, j), i <= j; rank i exchanges its block j     *)
(* with rank j, and rank j its block i with rank i, by a blocking          *)
(* MPIC_Sendrecv_replace.  Sendrecv_replace copies the block, posts the    *)
(* receive and the send, and waits for both; it ends for rank r once the   *)
(* peer's message for r has arrived.  All messages carry                   *)
(* MPIR_ALLTOALL_TAG, so chan[<<p, q>>] is the in-order channel p -> q.    *)
(***************************************************************************)
EXTENDS Naturals, Sequences

CONSTANT N   \* comm_size

VARIABLES
    idx,    \* loop counters <<i, j>> of each rank
    phase,  \* "loop", "recv" (inside Sendrecv_replace) or "done"
    cur,    \* peer and block of the exchange a rank is in
    buf,    \* buf[r][k]: block k of rank r's recvbuf
    chan    \* messages in flight between ordered pairs of ranks

vars == <<idx, phase, cur, buf, chan>>

Procs == 0..N-1
Blocks == Procs \X Procs


InitBlocks == [r \in Procs |-> [k \in Procs |-> <<r, k>>]]

Init ==
    /\ idx = [r \in Procs |-> <<0, 0>>]
    /\ phase = [r \in Procs |-> "loop"]
    /\ cur = [r \in Procs |-> <<0, 0>>]
    /\ buf = InitBlocks
    /\ chan = [c \in Procs \X Procs |-> <<>>]

\* Mutant of Succ: the inner loop restarts at 0 instead of at i
Succ_from_zero(i, j) == IF j + 1 < N THEN <<i, j + 1>> ELSE <<i + 1, 0>>

\* ++j; at the end of the inner loop ++i and j = i
Succ(i, j) == IF j + 1 < N THEN <<i, j + 1>> ELSE <<i + 1, i + 1>>

\* The outer loop ends: return mpi_errno_ret
LoopExit(r) ==
    /\ phase[r] = "loop" /\ idx[r][1] >= N
    /\ phase' = [phase EXCEPT ![r] = "done"]
    /\ UNCHANGED <<idx, cur, buf, chan>>

\* Mutant of Iterate: the rank == j branch exchanges block j (its own)
\* instead of block i
Iterate_block_j(r) ==
    LET i == idx[r][1]
        j == idx[r][2]
        Start(peer, blk) ==
            /\ chan' = [chan EXCEPT ![<<r, peer>>] = Append(@, buf[r][blk])]
            /\ cur' = [cur EXCEPT ![r] = <<peer, blk>>]
            /\ phase' = [phase EXCEPT ![r] = "recv"]
            /\ UNCHANGED idx
    IN  /\ phase[r] = "loop" /\ i < N
        /\ \/ r = i /\ Start(j, j)
           \/ r # i /\ r = j /\ Start(i, j)
           \/ r # i /\ r # j /\ idx' = [idx EXCEPT ![r] = Succ(i, j)]
                             /\ UNCHANGED <<phase, cur, chan>>
        /\ UNCHANGED buf

\* One iteration (i, j) of the inner loop: rank i enters
\* Sendrecv_replace with peer j on block j, rank j with peer i on block i
\* (this also covers i = j, an exchange with itself); the others go on.
Iterate(r) ==
    LET i == idx[r][1]
        j == idx[r][2]
        Start(peer, blk) ==
            /\ chan' = [chan EXCEPT ![<<r, peer>>] = Append(@, buf[r][blk])]
            /\ cur' = [cur EXCEPT ![r] = <<peer, blk>>]
            /\ phase' = [phase EXCEPT ![r] = "recv"]
            /\ UNCHANGED idx
    IN  /\ phase[r] = "loop" /\ i < N
        /\ \/ r = i /\ Start(j, j)
           \/ r # i /\ r = j /\ Start(i, i)
           \/ r # i /\ r # j /\ idx' = [idx EXCEPT ![r] = Succ(i, j)]
                             /\ UNCHANGED <<phase, cur, chan>>
        /\ UNCHANGED buf

\* Sendrecv_replace returns: the peer's block replaces the rank's block
SendrecvDone(r) ==
    LET peer == cur[r][1]
        blk  == cur[r][2]
    IN  /\ phase[r] = "recv"
        /\ chan[<<peer, r>>] # <<>>
        /\ buf' = [buf EXCEPT ![r][blk] = Head(chan[<<peer, r>>])]
        /\ chan' = [chan EXCEPT ![<<peer, r>>] = Tail(@)]
        /\ idx' = [idx EXCEPT ![r] = Succ(idx[r][1], idx[r][2])]
        /\ phase' = [phase EXCEPT ![r] = "loop"]
        /\ UNCHANGED cur

AllDone == \A r \in Procs : phase[r] = "done"

\* The collective has returned on every rank
Terminated == AllDone /\ UNCHANGED vars

Next ==
    \/ \E r \in Procs : LoopExit(r) \/ Iterate(r) \/ SendrecvDone(r)
    \/ Terminated

\* Every rank keeps running its loop; the transport delivers
Spec == Init /\ [][Next]_vars /\ \A r \in Procs : WF_vars(LoopExit(r) \/ Iterate(r) \/ SendrecvDone(r))

-----------------------------------------------------------------------------
(* Refinement: the schedule implements the one-step collective.  Until    *)
(* the last rank returns the abstract buffers are the initial ones.        *)

Abstract == INSTANCE Alltoall WITH buf <- IF AllDone THEN buf ELSE InitBlocks,
                                   done <- AllDone

\* MPIR_Alltoall_intra_pairwise_sendrecv_replace implements MPI_Alltoall
\* in place: it terminates on every rank (the schedule does not deadlock)
\* and leaves block k of rank r holding the data rank k had for r.
AlltoallRefined == Abstract!Spec

==============================================================================
