\* Fair progress with the sender's connection allowed to fail: a
\* synchronous or plain send to the receiver or MPI_PROC_NULL, a receive
\* with a fixed source or MPI_PROC_NULL into a buffer shorter than the
\* longer message, probes with every kind of source, cancellation on both
\* sides.
CONSTANTS
    a = a  b = b  R = R  s1 = s1  s2 = s2  s3 = s3  r1 = r1  r2 = r2  r3 = r3
    t1 = t1  t2 = t2  c1 = c1  c2 = c2
    ANY_TAG = ANY_TAG  ANY_SOURCE = ANY_SOURCE  PROC_NULL = PROC_NULL
    BadRank = BadRank  NoReq = NoReq
    Senders = {a}
    Receiver = R
    Sends = {s1}
    Recvs = {r1}
    Tags = {t1}
    Contexts = {c1}
    Sizes = {1, 2}
    PscomFailures = TRUE
    SendDests = {R, PROC_NULL}
    RecvSources = {a, PROC_NULL}
    RecvTags = {t1}
    RecvCaps = {1}
    ProbeSources = {ANY_SOURCE, PROC_NULL, BadRank}
SPECIFICATION FairSpec
INVARIANT RefCountExact
PROPERTIES RequestsRefined FailedConnectionRequestsComplete
CHECK_DEADLOCK FALSE
