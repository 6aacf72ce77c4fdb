------------------------------ MODULE PspP2P ------------------------------
(***************************************************************************)
(* Point-to-point engine of the psp device (mpid_isend.c, mpid_irecv.c)   *)
(* on top of an abstract pscom transport.                                  *)
(*                                                                         *)
(* Roles: the ranks in Senders post Isend/Issend requests to Receiver;     *)
(* Receiver posts Irecv, Probe and Iprobe.  Acknowledgements of the        *)
(* synchronous-send rendezvous and the cancel handshake flow back.         *)
(*                                                                         *)
(* Transport (pscom), modelled from its contract in the spec:              *)
(*   sendq[<<p,q>>]  posted sends of connection p->q not yet written      *)
(*                   (pscom_cancel_send can still retract them);           *)
(*   wire[<<p,q>>]   written messages in flight, delivered in order;      *)
(*   posted[q]       receive requests posted at q, in posting order;      *)
(*   unexp[q]        generated requests of messages no posted request     *)
(*                   accepted, in arrival order.                           *)
(* Every io_done callback and every user call is one atomic step: pscom   *)
(* runs callbacks one at a time under its own lock.                        *)
(***************************************************************************)
EXTENDS Naturals, Sequences, SequencesExt

CONSTANTS
    Senders,       \* ranks that post sends
    Receiver,      \* the rank that posts receives and probes
    Sends,         \* send request handles
    Recvs,         \* receive request handles
    Tags,          \* user tags
    Contexts,      \* context ids (comm->context_id + context_offset)
    Sizes,         \* message lengths
    ANY_TAG, ANY_SOURCE, PROC_NULL, BadRank,  \* special rank/tag values
    NoReq,         \* "no request" (ghost field of control messages)
    PscomFailures, \* TRUE: a pscom request may end in an error state (connection loss)
    \* The inputs the application passes (subsets of the values above):
    SendDests,     \* destination ranks of sends, within {Receiver, PROC_NULL}
    RecvSources,   \* source ranks of receives and probes
    RecvTags,      \* tags of receives and probes, within Tags \cup {ANY_TAG}
    RecvCaps,      \* receive buffer capacities, within Sizes
    ProbeSources   \* source ranks of probes ({}: the application never probes)

ASSUME /\ Receiver \notin Senders
       /\ PscomFailures \in BOOLEAN
       /\ Sizes \subseteq Nat \ {0}
       /\ SendDests \subseteq {Receiver, PROC_NULL}
       /\ RecvSources \subseteq Senders \cup {ANY_SOURCE, PROC_NULL, BadRank}
       /\ ProbeSources \subseteq Senders \cup {ANY_SOURCE, PROC_NULL, BadRank}
       /\ RecvTags \subseteq Tags \cup {ANY_TAG}
       /\ RecvCaps \subseteq Sizes

Ranks == Senders \cup {Receiver}
Conns == {c \in Ranks \X Ranks : c[1] # c[2]}

\* enum MPID_PSP_MSGTYPE (wire header type); the order matters for cb_accept_data
MPID_PSP_MSGTYPE_DATA                    == 0
MPID_PSP_MSGTYPE_DATA_REQUEST_ACK        == 1
MPID_PSP_MSGTYPE_DATA_ACK                == 2
MPID_PSP_MSGTYPE_CANCEL_DATA_REQUEST_ACK == 3
MPID_PSP_MSGTYPE_CANCEL_DATA_ACK         == 4
MsgTypes == 0..4

\* The xheader of a message.  sreq is a ghost: the send request the message
\* carries data of, acknowledges, or asks to cancel.  No predicate of the
\* code reads it.
Msg == [type: MsgTypes, tag: Tags, ctx: Contexts, src: Ranks \cup {PROC_NULL},
        len: {0} \cup Sizes, sreq: Sends \cup {NoReq}]

\* A posted pscom receive request: a user receive (cb_accept_data) or the
\* ack receive of a synchronous send (cb_accept_ack); con is the connection
\* it was posted on, ANY_SOURCE for all of them.
Posted == [kind: {"user"}, id: Recvs, con: Senders \cup {ANY_SOURCE}]
          \cup [kind: {"ack"}, id: Sends, con: {Receiver}]

VARIABLES
    sreq,     \* MPIR_Request of every send handle
    rreq,     \* MPID_Request of every receive handle
    sdone,    \* per sender: written sends whose io_done has not run, in write order
    sendq, wire, posted, unexp,   \* pscom (see above)
    probe,    \* result of the last MPID_Probe/MPID_Iprobe: return code and flag
              \* (the status fields it copies from the message are left out)
    cancelReq,  \* sends the user called MPI_Cancel on
    cancelBeforeMatch, \* ghost: sends whose cancel request reached the
                       \* receiver while their message was still unmatched
    broken    \* senders whose pscom connection with Receiver failed

vars == <<sreq, rreq, sdone, sendq, wire, posted, unexp, probe, cancelReq, cancelBeforeMatch,
          broken>>

NoSend == [st |-> "unused", rank |-> PROC_NULL, type |-> 0, tag |-> CHOOSE t \in Tags : TRUE,
           ctx |-> CHOOSE c \in Contexts : TRUE, len |-> 0, cc |-> 0, ref |-> 0,
           err |-> "NONE", cancelled |-> FALSE, freed |-> FALSE, failed |-> FALSE]
NoRecv == [st |-> "unused", src |-> PROC_NULL, tag |-> ANY_TAG,
           ctx |-> CHOOSE c \in Contexts : TRUE, cap |-> 0, cc |-> 0, count |-> 0,
           source |-> PROC_NULL, mtag |-> ANY_TAG, err |-> "NONE",
           cancelled |-> FALSE, from |-> NoReq]

TypeOK ==
    /\ sreq \in [Sends -> [st: {"unused", "active"}, rank: Ranks \cup {PROC_NULL},
                            type: {MPID_PSP_MSGTYPE_DATA, MPID_PSP_MSGTYPE_DATA_REQUEST_ACK},
                            tag: Tags, ctx: Contexts, len: {0} \cup Sizes, cc: 0..2, ref: 0..3,
                            err: {"NONE", "SUCCESS", "OTHER"}, cancelled: BOOLEAN, freed: BOOLEAN,
                            failed: BOOLEAN]]
    /\ rreq \in [Recvs -> [st: {"unused", "posted", "done"},
                            src: Senders \cup {ANY_SOURCE, PROC_NULL, BadRank},
                            tag: Tags \cup {ANY_TAG}, ctx: Contexts, cap: {0} \cup Sizes,
                            cc: 0..1, count: {0} \cup Sizes,
                            source: Ranks \cup {PROC_NULL, ANY_SOURCE},
                            mtag: Tags \cup {ANY_TAG},
                            err: {"NONE", "SUCCESS", "TRUNCATE", "OTHER"},
                            cancelled: BOOLEAN, from: Sends \cup {NoReq}]]
    /\ sdone \in [Senders -> Seq(Sends)]
    /\ sendq \in [Conns -> Seq(Msg)]
    /\ wire \in [Conns -> Seq(Msg)]
    /\ posted \in [Ranks -> Seq(Posted)]
    /\ unexp \in [Ranks -> Seq([msg: Msg, con: Ranks])]
    /\ probe \in [ret: {"NONE", "SUCCESS", "RANK"}, found: BOOLEAN]
    /\ cancelReq \subseteq Sends
    /\ cancelBeforeMatch \subseteq Sends
    /\ broken \subseteq Senders

Init ==
    /\ sreq = [s \in Sends |-> NoSend]
    /\ rreq = [r \in Recvs |-> NoRecv]
    /\ sdone = [p \in Senders |-> <<>>]
    /\ sendq = [c \in Conns |-> <<>>]
    /\ wire = [c \in Conns |-> <<>>]
    /\ posted = [p \in Ranks |-> <<>>]
    /\ unexp = [p \in Ranks |-> <<>>]
    /\ probe = [ret |-> "NONE", found |-> FALSE]
    /\ cancelReq = {}
    /\ cancelBeforeMatch = {}
    /\ broken = {}

-----------------------------------------------------------------------------
(* Helpers of the transport and of the device *)

\* MPID_PSCOM_rank2connection: a connection exists for the ranks of the comm
rank2connection(rank) == rank \in Ranks

\* MPID_PSP_SendCtrl: post a control message (no data) on connection p->q
SendCtrl(tag, ctx, src, p, q, type, s) ==
    sendq' = [sendq EXCEPT ![<<p, q>>] =
                 Append(@, [type |-> type, tag |-> tag, ctx |-> ctx, src |-> src,
                            len |-> 0, sreq |-> s])]

\* A request posted on connection con (ANY_SOURCE: on all of them) listens
\* to messages from rank 'from'
ConMatch(con, from) == con = ANY_SOURCE \/ con = from

\* Connection c runs between a sender whose connection failed and Receiver
Broken(c) == c[1] \in broken \/ c[2] \in broken

IsData(m) == m.type <= MPID_PSP_MSGTYPE_DATA_REQUEST_ACK

-----------------------------------------------------------------------------
(* Matching predicates (pscom recv_accept callbacks) *)

\* cb_accept_data: a data message for the receive (or probe) request rec
cb_accept_data(rec, m) ==
    /\ m.type <= MPID_PSP_MSGTYPE_DATA_REQUEST_ACK
    /\ (m.tag = rec.tag \/ rec.tag = ANY_TAG)
    /\ m.ctx = rec.ctx

\* cb_accept_ack: the (cancel) ack of synchronous send s
cb_accept_ack(s, m) ==
    /\ m.type \in {MPID_PSP_MSGTYPE_DATA_ACK, MPID_PSP_MSGTYPE_CANCEL_DATA_ACK}
    /\ m.tag = sreq[s].tag
    /\ m.ctx = sreq[s].ctx

\* cb_accept_cancel_data: the synchronous message a cancel request cm retracts
cb_accept_cancel_data(cm, m) ==
    /\ m.type = MPID_PSP_MSGTYPE_DATA_REQUEST_ACK
    /\ m.tag = cm.tag
    /\ m.ctx = cm.ctx

\* A posted request accepts message m arriving from rank 'from'
Accepts(e, from, m) ==
    /\ ConMatch(e.con, from)
    /\ IF e.kind = "user" THEN cb_accept_data(rreq[e.id], m) ELSE cb_accept_ack(e.id, m)

-----------------------------------------------------------------------------
(* Completion callbacks (pscom io_done) *)

receive_done_status(rec, m) ==
    [rec EXCEPT !.count = m.len, !.source = m.src, !.mtag = m.tag,
                !.err = IF m.len > rec.cap THEN "TRUNCATE" ELSE "SUCCESS",
                !.cc = @ - 1, !.st = "done", !.from = m.sreq]

\* receive_done on a request that ended in another state: MPI_ERR_OTHER
\* "**read", Subrequest_completed, dequeue.  The count, source and tag it
\* copies from the request's headers, which no message filled, are left
\* out.
receive_done_failed(rec) ==
    [rec EXCEPT !.err = "OTHER", !.cc = @ - 1, !.st = "done"]

\* receive_done: the whole callback for receive r (record rec) and message m
\* from rank 'from': status, the DATA_ACK of a successful synchronous
\* receive, Subrequest_completed and dequeue.
receive_done(r, rec, m, from) ==
    /\ rreq' = [rreq EXCEPT ![r] = receive_done_status(rec, m)]
    /\ IF m.len <= rec.cap /\ m.type = MPID_PSP_MSGTYPE_DATA_REQUEST_ACK
       THEN SendCtrl(m.tag, m.ctx, Receiver, Receiver, from, MPID_PSP_MSGTYPE_DATA_ACK, m.sreq)
       ELSE UNCHANGED sendq

\* cb_io_done_ack: the send record after its ack (or cancel ack) m arrived
cb_io_done_ack(rec, m) ==
    [rec EXCEPT !.cancelled = @ \/ m.type = MPID_PSP_MSGTYPE_CANCEL_DATA_ACK,
                !.cc = @ - 1, !.ref = @ - 1]

\* Index in unexp[p] of an already arrived ack of send s, 0 if none
AckIndex(s, p) ==
    SelectInSeq(unexp[p], LAMBDA g : g.con = Receiver /\ cb_accept_ack(s, g.msg))

\* Mutants of MPID_PSP_RecvAck: MPID_PSP_Subrequest_add or
\* MPIR_Request_add_ref left out.
MPID_PSP_RecvAck_no_subrequest(s, rec) ==
    LET rec1 == [rec EXCEPT !.ref = @ + 1]
        i    == AckIndex(s, rec.rank)
    IN  IF i > 0 THEN cb_io_done_ack(rec1, unexp[rec.rank][i].msg) ELSE rec1
MPID_PSP_RecvAck_no_add_ref(s, rec) ==
    LET rec1 == [rec EXCEPT !.cc = @ + 1]
        i    == AckIndex(s, rec.rank)
    IN  IF i > 0 THEN cb_io_done_ack(rec1, unexp[rec.rank][i].msg) ELSE rec1

\* MPID_PSP_RecvAck: the send record after Subrequest_add and add_ref; when
\* the ack has already arrived, pscom_post_recv completes it at once.
MPID_PSP_RecvAck(s, rec) ==
    LET rec1 == [rec EXCEPT !.cc = @ + 1, !.ref = @ + 1]
        i    == AckIndex(s, rec.rank)
    IN  IF i > 0 THEN cb_io_done_ack(rec1, unexp[rec.rank][i].msg) ELSE rec1

\* pscom_post_recv of the ack receive of MPID_PSP_RecvAck
PostAckRecv(s, p) ==
    LET i == AckIndex(s, p) IN
    IF i > 0
    THEN /\ unexp' = [unexp EXCEPT ![p] = RemoveAt(@, i)]
         /\ UNCHANGED posted
    ELSE /\ posted' = [posted EXCEPT ![p] = Append(@, [kind |-> "ack", id |-> s, con |-> Receiver])]
         /\ UNCHANGED unexp

\* Mutant of sendrequest_common_done: the error branch returns right after
\* setting MPI_ERR_OTHER, without Subrequest_completed and Request_free
sendrequest_common_done_error_return(s, st) ==
    LET rec0  == [sreq[s] EXCEPT !.err = IF st = "ERROR" THEN "OTHER" ELSE "SUCCESS",
                                 !.cancelled = @ \/ st = "CANCELED",
                                 !.failed = @ \/ st = "ERROR"]
        acked == st = "SUCCESS" /\ sreq[s].type = MPID_PSP_MSGTYPE_DATA_REQUEST_ACK
        rec1  == IF acked THEN MPID_PSP_RecvAck(s, rec0) ELSE rec0
    IN  /\ sreq' = [sreq EXCEPT ![s] = IF st = "ERROR" THEN rec0
                                       ELSE [rec1 EXCEPT !.cc = @ - 1, !.ref = @ - 1]]
        /\ IF acked THEN PostAckRecv(s, sreq[s].rank) ELSE UNCHANGED <<posted, unexp>>

\* sendrequest_common_done: status of send s after its pscom request ended
\* in state st: "SUCCESS"; "CANCELED" (cancel bit set); "ERROR", any other
\* state (MPI_ERR_OTHER "**write"; the ghost field failed records it).  A
\* synchronous send whose request succeeded waits for its ack; then
\* Subrequest_completed and MPIR_Request_free.
sendrequest_common_done(s, st) ==
    LET rec0  == [sreq[s] EXCEPT !.err = IF st = "ERROR" THEN "OTHER" ELSE "SUCCESS",
                                 !.cancelled = @ \/ st = "CANCELED",
                                 !.failed = @ \/ st = "ERROR"]
        acked == st = "SUCCESS" /\ sreq[s].type = MPID_PSP_MSGTYPE_DATA_REQUEST_ACK
        rec1  == IF acked THEN MPID_PSP_RecvAck(s, rec0) ELSE rec0
    IN  /\ sreq' = [sreq EXCEPT ![s] = [rec1 EXCEPT !.cc = @ - 1, !.ref = @ - 1]]
        /\ IF acked THEN PostAckRecv(s, sreq[s].rank) ELSE UNCHANGED <<posted, unexp>>

\* MPID_do_recv_cancel_data_request_ack: the cancel request cm from rank p
\* arrived at q.  It tries to eat the generated request of the synchronous
\* message; found: reply CANCEL_DATA_ACK; not found: the ack is already
\* sent, cancel the cancel.
MPID_do_recv_cancel_data_request_ack(q, p, cm) ==
    LET i == SelectInSeq(unexp[q], LAMBDA g : g.con = p /\ cb_accept_cancel_data(cm, g.msg))
    IN  /\ cancelBeforeMatch' =
              IF \E k \in 1..Len(unexp[q]) : IsData(unexp[q][k].msg) /\ unexp[q][k].msg.sreq = cm.sreq
              THEN cancelBeforeMatch \cup {cm.sreq} ELSE cancelBeforeMatch
        /\ IF i > 0
           THEN /\ unexp' = [unexp EXCEPT ![q] = RemoveAt(@, i)]
                /\ SendCtrl(cm.tag, cm.ctx, PROC_NULL, q, p,
                            MPID_PSP_MSGTYPE_CANCEL_DATA_ACK, unexp[q][i].msg.sreq)
           ELSE UNCHANGED <<unexp, sendq>>

\* receive_dispatch (pscom default_recv) for a message no posted request
\* accepted: a cancel request is forwarded to its handler, everything else
\* (DATA fast path, DATA_REQUEST_ACK, acks) becomes a generated request.
receive_dispatch(m) ==
    IF m.type = MPID_PSP_MSGTYPE_CANCEL_DATA_REQUEST_ACK THEN "cancel" ELSE "generated"

-----------------------------------------------------------------------------
(* Operations of the sending rank p *)

\* MPID_PSP_Sendtype (MPIDI_PSP_Isend: type DATA, MPIDI_PSP_Issend: type
\* DATA_REQUEST_ACK) to a valid rank or to MPI_PROC_NULL.
MPID_PSP_Sendtype(s, p, rank, tag, ctx, len, type) ==
    /\ sreq[s].st = "unused"
    /\ \/ /\ rank = Receiver
          /\ sreq' = [sreq EXCEPT ![s] = [NoSend EXCEPT !.st = "active", !.rank = p, !.type = type,
                                             !.tag = tag, !.ctx = ctx, !.len = len,
                                             !.cc = 1, !.ref = 2]]
          /\ sendq' = [sendq EXCEPT ![<<p, Receiver>>] =
                          Append(@, [type |-> type, tag |-> tag, ctx |-> ctx, src |-> p,
                                     len |-> len, sreq |-> s])]
       \/ /\ rank = PROC_NULL
          /\ sreq' = [sreq EXCEPT ![s] = [NoSend EXCEPT !.st = "active", !.type = type,
                                             !.tag = tag, !.ctx = ctx, !.ref = 1]]
          /\ UNCHANGED sendq
    /\ UNCHANGED <<rreq, sdone, wire, posted, unexp, probe, cancelReq, cancelBeforeMatch, broken>>

\* sendrequest_done: io_done of the written send s of rank p.  pscom may
\* run the io_done callbacks of one connection in any order (spec section
\* 5), so any due send may be next.
sendrequest_done(s, p) ==
    /\ \E i \in 1..Len(sdone[p]) :
          /\ sdone[p][i] = s
          /\ sdone' = [sdone EXCEPT ![p] = RemoveAt(@, i)]
    /\ sendrequest_common_done(s, "SUCCESS")
    /\ UNCHANGED <<rreq, sendq, wire, probe, cancelReq, cancelBeforeMatch, broken>>

\* MPID_Cancel_send (mpid_cancel.c, not in this tree): pscom_cancel_send
\* retracts a send not yet written and runs its io_done as cancelled;
\* otherwise a synchronous send asks the receiver with
\* CANCEL_DATA_REQUEST_ACK, and a plain send cannot be cancelled.
MPID_Cancel_send(s) ==
    LET p == sreq[s].rank
        c == <<p, Receiver>>
        i == SelectInSeq(sendq[c], LAMBDA m : IsData(m) /\ m.sreq = s)
    IN  /\ sreq[s].st = "active" /\ p # PROC_NULL
        /\ s \notin cancelReq /\ ~sreq[s].freed /\ sreq[s].cc > 0
        /\ cancelReq' = cancelReq \cup {s}
        /\ IF i > 0
           THEN /\ sendq' = [sendq EXCEPT ![c] = RemoveAt(@, i)]
                /\ sendrequest_common_done(s, "CANCELED")
           ELSE /\ \/ /\ sreq[s].type = MPID_PSP_MSGTYPE_DATA_REQUEST_ACK
                      /\ SendCtrl(sreq[s].tag, sreq[s].ctx, p, p, Receiver,
                                  MPID_PSP_MSGTYPE_CANCEL_DATA_REQUEST_ACK, s)
                   \/ /\ sreq[s].type = MPID_PSP_MSGTYPE_DATA
                      /\ UNCHANGED sendq
                /\ sreq' = sreq
                /\ UNCHANGED <<posted, unexp>>
        /\ UNCHANGED <<rreq, sdone, wire, probe, cancelBeforeMatch, broken>>

\* MPI_Request_free / the release after MPI_Wait (MPIR layer): the user
\* drops its reference to send s, complete or not
MPIR_Request_free_user(s) ==
    /\ sreq[s].st = "active" /\ ~sreq[s].freed
    /\ sreq' = [sreq EXCEPT ![s].freed = TRUE, ![s].ref = @ - 1]
    /\ UNCHANGED <<rreq, sdone, sendq, wire, posted, unexp, probe, cancelReq, cancelBeforeMatch, broken>>

-----------------------------------------------------------------------------
(* Operations of the receiving rank *)

\* MPID_Irecv: a receive from a rank with a connection or MPI_ANY_SOURCE is
\* posted (pscom_post_recv first takes the oldest acceptable generated
\* request); MPI_PROC_NULL completes at once.  Any other rank (err_rank)
\* releases the new request and returns MPI_ERR_RANK without a handle,
\* which changes no state of the model: it is a stuttering step.
MPID_Irecv(r, rank, tag, ctx, cap) ==
    LET q   == Receiver
        rec == [NoRecv EXCEPT !.st = "posted", !.src = rank, !.tag = tag, !.ctx = ctx,
                              !.cap = cap, !.cc = 1]
        e   == [kind |-> "user", id |-> r, con |-> rank]
        i   == SelectInSeq(unexp[q], LAMBDA g : ConMatch(rank, g.con) /\ cb_accept_data(rec, g.msg))
    IN  /\ rreq[r].st = "unused"
        /\ \/ /\ rank2connection(rank) \/ rank = ANY_SOURCE
              /\ IF i > 0
                 THEN /\ unexp' = [unexp EXCEPT ![q] = RemoveAt(@, i)]
                      /\ receive_done(r, rec, unexp[q][i].msg, unexp[q][i].con)
                      /\ UNCHANGED posted
                 ELSE /\ posted' = [posted EXCEPT ![q] = Append(@, e)]
                      /\ rreq' = [rreq EXCEPT ![r] = rec]
                      /\ UNCHANGED <<unexp, sendq>>
           \/ /\ rank = PROC_NULL
              /\ rreq' = [rreq EXCEPT ![r] = [rec EXCEPT !.st = "done", !.cc = 0, !.err = "SUCCESS",
                                                  !.source = PROC_NULL, !.mtag = ANY_TAG]]
              /\ UNCHANGED <<sendq, posted, unexp>>
        /\ UNCHANGED <<sreq, sdone, wire, probe, cancelReq, cancelBeforeMatch, broken>>

\* Mutant of MPID_Cancel_recv: the result of pscom_cancel_recv is not
\* checked, so a receive that already completed is marked cancelled
MPID_Cancel_recv_unchecked(r) ==
    LET q == Receiver
        i == SelectInSeq(posted[q], LAMBDA e : e.kind = "user" /\ e.id = r)
    IN  /\ rreq[r].st \in {"posted", "done"}
        /\ posted' = IF i > 0 THEN [posted EXCEPT ![q] = RemoveAt(@, i)] ELSE posted
        /\ rreq' = [rreq EXCEPT ![r] = [@ EXCEPT !.st = "done", !.cc = 0, !.err = "SUCCESS",
                                                 !.cancelled = TRUE]]
        /\ UNCHANGED <<sreq, sdone, sendq, wire, unexp, probe, cancelReq, cancelBeforeMatch, broken>>

\* MPID_Cancel_recv (mpid_cancel.c, not in this tree): pscom_cancel_recv
\* retracts a still posted receive; receive_done reports it cancelled
MPID_Cancel_recv(r) ==
    LET q == Receiver
        i == SelectInSeq(posted[q], LAMBDA e : e.kind = "user" /\ e.id = r)
    IN  /\ i > 0
        /\ posted' = [posted EXCEPT ![q] = RemoveAt(@, i)]
        /\ rreq' = [rreq EXCEPT ![r] = [@ EXCEPT !.st = "done", !.cc = 0, !.err = "SUCCESS",
                                                 !.cancelled = TRUE]]
        /\ UNCHANGED <<sreq, sdone, sendq, wire, unexp, probe, cancelReq, cancelBeforeMatch, broken>>

\* Index of the oldest generated request a probe (rank, tag, ctx) accepts
ProbeIndex(rank, tag, ctx) ==
    LET rec == [NoRecv EXCEPT !.tag = tag, !.ctx = ctx]
    IN  SelectInSeq(unexp[Receiver], LAMBDA g : ConMatch(rank, g.con) /\ cb_accept_data(rec, g.msg))

\* MPID_Probe: blocks in pscom_probe until a matching message has arrived
\* and reports it without consuming it
MPID_Probe(rank, tag, ctx) ==
    LET i == ProbeIndex(rank, tag, ctx) IN
    /\ \/ /\ rank2connection(rank) \/ rank = ANY_SOURCE
          /\ i > 0
          /\ probe' = [ret |-> "SUCCESS", found |-> TRUE]
       \/ /\ rank = PROC_NULL
          /\ probe' = [ret |-> "SUCCESS", found |-> TRUE]
       \/ /\ ~rank2connection(rank) /\ rank \notin {ANY_SOURCE, PROC_NULL}
          /\ probe' = [ret |-> "RANK", found |-> FALSE]
    /\ UNCHANGED <<sreq, rreq, sdone, sendq, wire, posted, unexp, cancelReq, cancelBeforeMatch, broken>>

\* MPID_Iprobe: pscom_iprobe polls once; flag tells whether a message matched
MPID_Iprobe(rank, tag, ctx) ==
    LET i == ProbeIndex(rank, tag, ctx) IN
    /\ \/ /\ rank2connection(rank) \/ rank = ANY_SOURCE
          /\ probe' = [ret |-> "SUCCESS", found |-> i > 0]
       \/ /\ rank = PROC_NULL
          /\ probe' = [ret |-> "SUCCESS", found |-> TRUE]
       \/ /\ ~rank2connection(rank) /\ rank \notin {ANY_SOURCE, PROC_NULL}
          /\ probe' = [ret |-> "RANK", found |-> FALSE]
    /\ UNCHANGED <<sreq, rreq, sdone, sendq, wire, posted, unexp, cancelReq, cancelBeforeMatch, broken>>

-----------------------------------------------------------------------------
(* The pscom transport *)

\* pscom writes the oldest posted send of connection c; a data send's
\* io_done becomes due, a control message's io_done only frees it.
PscomWrite(c) ==
    LET m == Head(sendq[c]) IN
    /\ sendq[c] # <<>> /\ ~Broken(c)
    /\ sendq' = [sendq EXCEPT ![c] = Tail(@)]
    /\ wire' = [wire EXCEPT ![c] = Append(@, m)]
    /\ sdone' = IF IsData(m) THEN [sdone EXCEPT ![c[1]] = Append(@, m.sreq)] ELSE sdone
    /\ UNCHANGED <<sreq, rreq, posted, unexp, probe, cancelReq, cancelBeforeMatch, broken>>

\* The oldest message in flight on c = <<p, q>> and the oldest request
\* posted at q that accepts it (0: none)
InFlight(c) == Head(wire[c])
AcceptorOf(c) == SelectInSeq(posted[c[2]], LAMBDA e : Accepts(e, c[1], Head(wire[c])))

\* Arrival of a data message at a posted user receive: receive_done
DeliverToRecv(c) ==
    LET i == AcceptorOf(c)
        e == posted[c[2]][i]
    IN  /\ wire[c] # <<>> /\ i > 0 /\ e.kind = "user"
        /\ wire' = [wire EXCEPT ![c] = Tail(@)]
        /\ posted' = [posted EXCEPT ![c[2]] = RemoveAt(@, i)]
        /\ receive_done(e.id, rreq[e.id], InFlight(c), c[1])
        /\ UNCHANGED <<sreq, sdone, unexp, probe, cancelReq, cancelBeforeMatch, broken>>

\* Arrival of an ack at the posted ack receive of a synchronous send
DeliverAck(c) ==
    LET i == AcceptorOf(c)
        e == posted[c[2]][i]
    IN  /\ wire[c] # <<>> /\ i > 0 /\ e.kind = "ack"
        /\ wire' = [wire EXCEPT ![c] = Tail(@)]
        /\ posted' = [posted EXCEPT ![c[2]] = RemoveAt(@, i)]
        /\ sreq' = [sreq EXCEPT ![e.id] = cb_io_done_ack(@, InFlight(c))]
        /\ UNCHANGED <<rreq, sdone, sendq, unexp, probe, cancelReq, cancelBeforeMatch, broken>>

\* Arrival of a message no posted request accepts: receive_dispatch
\* forwards a cancel request to its handler ...
DeliverCancelRequest(c) ==
    /\ wire[c] # <<>> /\ AcceptorOf(c) = 0
    /\ receive_dispatch(InFlight(c)) = "cancel"
    /\ wire' = [wire EXCEPT ![c] = Tail(@)]
    /\ MPID_do_recv_cancel_data_request_ack(c[2], c[1], InFlight(c))
    /\ UNCHANGED <<sreq, rreq, sdone, posted, probe, cancelReq, broken>>

\* ... and pscom keeps anything else as a generated request
DeliverUnexpected(c) ==
    /\ wire[c] # <<>> /\ AcceptorOf(c) = 0
    /\ receive_dispatch(InFlight(c)) = "generated"
    /\ wire' = [wire EXCEPT ![c] = Tail(@)]
    /\ unexp' = [unexp EXCEPT ![c[2]] = Append(@, [msg |-> InFlight(c), con |-> c[1]])]
    /\ UNCHANGED <<sreq, rreq, sdone, sendq, posted, probe, cancelReq, cancelBeforeMatch, broken>>

\* The pscom connection of sender p with Receiver fails (both ends see it
\* closed): the messages in flight on it are lost.  Its requests then end
\* in an error state one by one (PscomSendFailed, PscomAckRecvFailed).
PscomConnectionFailed(p) ==
    /\ PscomFailures /\ p \notin broken
    /\ broken' = broken \cup {p}
    /\ wire' = [c \in Conns |-> IF p \in {c[1], c[2]} THEN <<>> ELSE wire[c]]
    /\ UNCHANGED <<sreq, rreq, sdone, sendq, posted, unexp, probe, cancelReq, cancelBeforeMatch>>

\* A posted send on the failed connection c ends in an error state: the io_done
\* of a data send, sendrequest_done, runs; a control message is freed.
PscomSendFailed(c) ==
    /\ Broken(c)
    /\ \E i \in 1..Len(sendq[c]) :
          /\ sendq' = [sendq EXCEPT ![c] = RemoveAt(@, i)]
          /\ IF IsData(sendq[c][i])
             THEN sendrequest_common_done(sendq[c][i].sreq, "ERROR")
             ELSE UNCHANGED <<sreq, posted, unexp>>
    /\ UNCHANGED <<rreq, sdone, wire, probe, cancelReq, cancelBeforeMatch, broken>>

\* A receive posted for the source of the failed connection ends in an
\* error state; its io_done, receive_done, runs.  Receives from
\* MPI_ANY_SOURCE stay posted: other connections may still match them.
PscomRecvFailed(p) ==
    /\ p \in broken
    /\ \E i \in 1..Len(posted[Receiver]) :
          LET e == posted[Receiver][i] IN
          /\ e.kind = "user" /\ e.con = p
          /\ posted' = [posted EXCEPT ![Receiver] = RemoveAt(@, i)]
          /\ rreq' = [rreq EXCEPT ![e.id] = receive_done_failed(@)]
    /\ UNCHANGED <<sreq, sdone, sendq, wire, unexp, probe, cancelReq, cancelBeforeMatch, broken>>

\* The xheader of the ack receive of send s: MPID_PSP_RecvAck copies it
\* from the send request
AckXheader(s) == [type |-> sreq[s].type, tag |-> sreq[s].tag, ctx |-> sreq[s].ctx,
                  src |-> sreq[s].rank, len |-> sreq[s].len, sreq |-> s]

\* The posted ack receive of a send of p, on the failed connection, ends in
\* an error state; its io_done, cb_io_done_ack, runs on the request's own
\* xheader.
PscomAckRecvFailed(p) ==
    /\ p \in broken
    /\ \E i \in 1..Len(posted[p]) :
          LET e == posted[p][i] IN
          /\ e.kind = "ack"
          /\ posted' = [posted EXCEPT ![p] = RemoveAt(@, i)]
          /\ sreq' = [sreq EXCEPT ![e.id] = [cb_io_done_ack(@, AckXheader(e.id)) EXCEPT !.failed = TRUE]]
    /\ UNCHANGED <<rreq, sdone, sendq, wire, unexp, probe, cancelReq, cancelBeforeMatch, broken>>

-----------------------------------------------------------------------------
SendTypes == {MPID_PSP_MSGTYPE_DATA, MPID_PSP_MSGTYPE_DATA_REQUEST_ACK}

UserNext ==
    \/ \E s \in Sends, p \in Senders, rank \in SendDests, tag \in Tags,
          ctx \in Contexts, len \in Sizes, type \in SendTypes :
          MPID_PSP_Sendtype(s, p, rank, tag, ctx, len, type)
    \/ \E s \in Sends : MPID_Cancel_send(s) \/ MPIR_Request_free_user(s)
    \/ \E r \in Recvs, rank \in RecvSources, tag \in RecvTags, ctx \in Contexts,
          cap \in RecvCaps :
          MPID_Irecv(r, rank, tag, ctx, cap)
    \/ \E r \in Recvs : MPID_Cancel_recv(r)
    \/ \E rank \in ProbeSources, tag \in RecvTags, ctx \in Contexts :
          MPID_Probe(rank, tag, ctx) \/ MPID_Iprobe(rank, tag, ctx)

ProgressNext ==
    \/ \E c \in Conns : \/ PscomWrite(c) \/ DeliverToRecv(c) \/ DeliverAck(c)
                       \/ DeliverCancelRequest(c) \/ DeliverUnexpected(c)
    \/ \E p \in Senders, s \in Sends : sendrequest_done(s, p)

\* Transport failures: pscom ends a request in an error state
FaultNext ==
    \/ \E p \in Senders : PscomConnectionFailed(p) \/ PscomAckRecvFailed(p) \/ PscomRecvFailed(p)
    \/ \E c \in Conns : PscomSendFailed(c)

Next == UserNext \/ ProgressNext \/ FaultNext

Spec == Init /\ [][Next]_vars

\* The progress engine runs whenever a thread waits in MPI_Wait/MPI_Probe:
\* every transport step and every due io_done callback eventually happens,
\* and pscom ends the requests of a closed connection.  A connection
\* failure itself gets no fairness.
FairSpec ==
    /\ Spec
    /\ \A c \in Conns : /\ WF_vars(PscomWrite(c)) /\ WF_vars(DeliverToRecv(c))
                       /\ WF_vars(DeliverAck(c)) /\ WF_vars(DeliverCancelRequest(c))
                       /\ WF_vars(DeliverUnexpected(c))
    /\ \A p \in Senders, s \in Sends : WF_vars(sendrequest_done(s, p))
    /\ \A c \in Conns : WF_vars(PscomSendFailed(c))
    /\ \A p \in Senders : WF_vars(PscomAckRecvFailed(p)) /\ WF_vars(PscomRecvFailed(p))


-----------------------------------------------------------------------------
(* Properties *)

\* Send s's data reached a user receive
Delivered(s) == \E r \in Recvs : rreq[r].from = s

\* The pscom send request of s is still outstanding (queued, or written
\* with its io_done due); it holds a reference to s
PscomHolds(s) ==
    \/ \E c \in Conns : \E i \in 1..Len(sendq[c]) : IsData(sendq[c][i]) /\ sendq[c][i].sreq = s
    \/ \E p \in Senders : \E i \in 1..Len(sdone[p]) : sdone[p][i] = s

\* The ack receive of s is posted; it holds a reference to s
AckPosted(s) == \E p \in Ranks : \E i \in 1..Len(posted[p]) :
                    posted[p][i].kind = "ack" /\ posted[p][i].id = s

CancelBeforeMatchSucceeds ==
    \A s \in cancelBeforeMatch : ~Delivered(s)

\* Rendezvous (Issend, sendrequest_common_done, MPID_PSP_RecvAck): a
\* synchronous send to a real rank that completed without being cancelled
\* has been matched by a receive.
SyncCompletionImpliesMatch ==
    \A s \in Sends :
        /\ sreq[s].st = "active" /\ sreq[s].rank # PROC_NULL
        /\ sreq[s].type = MPID_PSP_MSGTYPE_DATA_REQUEST_ACK
        /\ sreq[s].cc = 0 /\ ~sreq[s].cancelled
        => Delivered(s)

\* Reference counting of send requests (MPIR_Request_add_ref in Sendtype,
\* add_ref in MPID_PSP_RecvAck, the releases in sendrequest_common_done and
\* cb_io_done_ack): the count is exactly the number of holders still
\* referencing the request: the user, the pscom send, the ack receive.
RefCountExact ==
    \A s \in Sends : sreq[s].st = "active" =>
        sreq[s].ref = (IF sreq[s].freed THEN 0 ELSE 1)
                      + (IF PscomHolds(s) THEN 1 ELSE 0)
                      + (IF AckPosted(s) THEN 1 ELSE 0)

\* Spec section 4.3/8 scenario D (receive_done on a truncated message):
\* the status of a truncated receive reports the bytes actually stored,
\* the capacity of the buffer.
TruncatedCountIsCapacity ==
    \A r \in Recvs : rreq[r].err = "TRUNCATE" => rreq[r].count = rreq[r].cap

\* Spec sections 4 and 7 (sendrequest_common_done, cb_io_done_ack): a send
\* one of whose pscom requests, the send or the ack receive of the
\* rendezvous, ended in an error state reports MPI_ERR_OTHER once it
\* completes; a transport error is never reported as success.
ErrorsSurfaced ==
    \A s \in Sends : sreq[s].failed /\ sreq[s].cc = 0 => sreq[s].err = "OTHER"

\* Failure paths of sendrequest_common_done, cb_io_done_ack and
\* receive_done: once the connection of a rank has failed, each of its
\* sends and each receive posted for it as source eventually completes
\* (MPI_Wait returns), whether the send was queued, written with its
\* io_done due, or waiting for its ack.
FailedConnectionRequestsComplete ==
    /\ \A s \in Sends : (sreq[s].rank \in broken /\ sreq[s].cc > 0) ~> sreq[s].cc = 0
    /\ \A r \in Recvs : (rreq[r].src \in broken /\ rreq[r].cc > 0) ~> rreq[r].cc = 0

\* The view of a request that MPI_Test gives: free before the call, active
\* while its completion counter is positive, then complete with its
\* status.  MPIR_Request_create sets status.MPI_ERROR to MPI_SUCCESS, which
\* the records show as "NONE" until a callback writes it.
ReqView(used, cc, err, cancelled) ==
    IF ~used THEN [state |-> "free", err |-> "NONE", cancelled |-> FALSE]
    ELSE IF cc # 0 THEN [state |-> "active", err |-> "NONE", cancelled |-> FALSE]
    ELSE [state |-> "complete", err |-> IF err = "NONE" THEN "SUCCESS" ELSE err,
          cancelled |-> cancelled]

Requests == INSTANCE MPIRequests WITH
    Handles <- Sends \cup Recvs,
    Errors  <- {"SUCCESS", "OTHER", "TRUNCATE"},
    req     <- [h \in Sends \cup Recvs |->
                   IF h \in Sends
                   THEN ReqView(sreq[h].st # "unused", sreq[h].cc, sreq[h].err, sreq[h].cancelled)
                   ELSE ReqView(rreq[h].st # "unused", rreq[h].cc, rreq[h].err, rreq[h].cancelled)]

\* Spec sections 3 and 7 against every callback that touches a request
\* (sendrequest_common_done, MPID_PSP_RecvAck, cb_io_done_ack,
\* receive_done, MPID_Cancel_send/recv, the failure paths): each send and
\* receive request completes exactly once, its status never changes
\* afterwards, and a cancelled request reports success.
RequestsRefined == Requests!Spec

\* Rendezvous liveness (receive_done's DATA_ACK, cb_io_done_ack): once a
\* receive took the data of a synchronous send, the send eventually
\* completes (MPI_Wait on it returns).
MatchedSyncSendCompletes ==
    \A s \in Sends :
        (Delivered(s) /\ sreq[s].type = MPID_PSP_MSGTYPE_DATA_REQUEST_ACK) ~> sreq[s].cc = 0

==============================================================================
