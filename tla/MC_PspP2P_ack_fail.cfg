\* One synchronous send whose connection to the receiver may fail: the
\* send's pscom request and the ack receive of the rendezvous can end in
\* an error state.
CONSTANTS
    a = a  b = b  R = R  s1 = s1  s2 = s2  s3 = s3  r1 = r1  r2 = r2  r3 = r3
    t1 = t1  t2 = t2  c1 = c1  c2 = c2
    ANY_TAG = ANY_TAG  ANY_SOURCE = ANY_SOURCE  PROC_NULL = PROC_NULL
    BadRank = BadRank  NoReq = NoReq
    Senders = {a}
    Receiver = R
    Sends = {s1}
    Recvs = {r1}
    Tags = {t1}
    Contexts = {c1}
    Sizes = {1}
    PscomFailures = TRUE
    SendDests = {R}
    RecvSources = {a}
    RecvTags = {t1}
    RecvCaps = {1}
    ProbeSources = {}
SPECIFICATION Spec
INVARIANT ErrorsSurfaced
CHECK_DEADLOCK FALSE
