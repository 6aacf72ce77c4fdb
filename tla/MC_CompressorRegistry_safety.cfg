\* Two threads registering and looking up compressors, two calls each.
\* Deadlock is checked: every call returns through fn_exit and frees the
\* critical section, so the threads always finish their calls.
CONSTANTS
    t1 = t1  t2 = t2  n1 = n1  n2 = n2  bad = bad  none = none
    Threads <- MC_Threads
    Names <- MC_Names
    BadName = bad
    NoThread = none
    MaxCalls <- MC_MaxCalls
SPECIFICATION Spec
INVARIANT NoDuplicateNames
