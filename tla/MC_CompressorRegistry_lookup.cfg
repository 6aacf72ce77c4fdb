\* A lookup's return code, read from an uninitialized variable
CONSTANTS
    t1 = t1  t2 = t2  n1 = n1  n2 = n2  bad = bad  none = none
    Threads <- MC_Threads
    Names <- MC_Names
    BadName = bad
    NoThread = none
    MaxCalls <- MC_MaxCalls
SPECIFICATION Spec
INVARIANT LookupCodeTellsFound
