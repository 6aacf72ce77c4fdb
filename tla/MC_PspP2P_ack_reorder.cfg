\* Two synchronous sends of one sender with the same tag and context and a
\* receive with that source and tag; pscom runs the send io_done
\* callbacks in either order.
CONSTANTS
    a = a  b = b  R = R  s1 = s1  s2 = s2  s3 = s3  r1 = r1  r2 = r2  r3 = r3
    t1 = t1  t2 = t2  c1 = c1  c2 = c2
    ANY_TAG = ANY_TAG  ANY_SOURCE = ANY_SOURCE  PROC_NULL = PROC_NULL
    BadRank = BadRank  NoReq = NoReq
    Senders = {a}
    Receiver = R
    Sends = {s1, s2}
    Recvs = {r1}
    Tags = {t1}
    Contexts = {c1}
    Sizes = {1}
    PscomFailures = FALSE
    SendDests = {R}
    RecvSources = {a}
    RecvTags = {t1}
    RecvCaps = {1}
    ProbeSources = {}
SPECIFICATION Spec
INVARIANT SyncCompletionImpliesMatch
CHECK_DEADLOCK FALSE
