--------------------------- MODULE CompressorRegistry ---------------------------
(***************************************************************************)
(* ROMIO's compressor registry (register_compressor.c): the list headed   *)
(* by ADIOI_Compressor_head, MPIOI_Register_compressor (under             *)
(* ROMIO_THREAD_CS) and MPIOI_Lookup_compressor (no critical section),     *)
(* called by application threads and by the plugin's compressor_register   *)
(* (mpicompressor.c).                                                      *)
(*                                                                         *)
(* Names are model values; BadName stands for NULL, "" and names longer   *)
(* than MPIX_MAX_COMPRESSOR_STRING.  Valid names are at most              *)
(* MPIX_MAX_COMPRESSOR_STRING long, so strncmp over that length is string  *)
(* equality.  The functions of a registration are "valid" or "null".      *)
(***************************************************************************)
EXTENDS Naturals, Sequences

CONSTANTS
    Threads,   \* application threads calling into ROMIO
    Names,     \* valid compressor names
    BadName,   \* an invalid name
    NoThread,  \* the critical section is free
    MaxCalls   \* calls per thread

ASSUME MaxCalls \in Nat /\ NoThread \notin Threads /\ BadName \notin Names

VARIABLES
    reg,       \* the registry list, head first: [name, fns]
    cs,        \* holder of ROMIO_THREAD_CS
    pc,        \* per thread: "idle", "wait_cs", "check", "insert", "exit"
    arg,       \* per thread: the arguments of its registration
    ret,       \* per thread: error code of its last registration
    lookup,    \* per thread: the outcome of its last lookup
    calls      \* per thread: number of calls made

vars == <<reg, cs, pc, arg, ret, lookup, calls>>

Init ==
    /\ reg = <<>>
    /\ cs = NoThread
    /\ pc = [t \in Threads |-> "idle"]
    /\ arg = [t \in Threads |-> [name |-> BadName, fns |-> "null"]]
    /\ ret = [t \in Threads |-> "NONE"]
    /\ lookup = [t \in Threads |-> [name |-> BadName, found |-> FALSE, code |-> "NONE"]]
    /\ calls = [t \in Threads |-> 0]

Registered(name) == \E i \in 1..Len(reg) : reg[i].name = name

\* MPIX_Register_compressor: a thread calls in, MPIOI_Register_compressor
\* takes the arguments
MPIX_Register_compressor(t, name, fns) ==
    /\ pc[t] = "idle" /\ calls[t] < MaxCalls
    /\ pc' = [pc EXCEPT ![t] = "wait_cs"]
    /\ arg' = [arg EXCEPT ![t] = [name |-> name, fns |-> fns]]
    /\ calls' = [calls EXCEPT ![t] = @ + 1]
    /\ UNCHANGED <<reg, cs, ret, lookup>>

\* compressor_register (mpicompressor.c): the plugin registers its three
\* functions under the given name and ignores the returned error code
compressor_register(t, name) ==
    /\ pc[t] = "idle" /\ calls[t] < MaxCalls
    /\ pc' = [pc EXCEPT ![t] = "wait_cs"]
    /\ arg' = [arg EXCEPT ![t] = [name |-> name, fns |-> "valid"]]
    /\ calls' = [calls EXCEPT ![t] = @ + 1]
    /\ UNCHANGED <<reg, cs, ret, lookup>>

\* Mutant of CsEnter: ROMIO_THREAD_CS_ENTER does not exclude (a build
\* whose critical-section macro is empty although threads call in)
CsEnter_no_lock(t) ==
    /\ pc[t] = "wait_cs"
    /\ cs' = t
    /\ pc' = [pc EXCEPT ![t] = "check"]
    /\ UNCHANGED <<reg, arg, ret, lookup, calls>>

\* ROMIO_THREAD_CS_ENTER
CsEnter(t) ==
    /\ pc[t] = "wait_cs" /\ cs = NoThread
    /\ cs' = t
    /\ pc' = [pc EXCEPT ![t] = "check"]
    /\ UNCHANGED <<reg, arg, ret, lookup, calls>>

\* The checks in order: the name, MPIR_MPIOInit (succeeds), a registered
\* entry of the same name, NULL function pointers
RegisterCheck(t) ==
    LET a   == arg[t]
        err == IF a.name = BadName THEN "ERR_ARG"
               ELSE IF Registered(a.name) THEN "ERR_DUP_COMPRESSOR"
               ELSE IF a.fns = "null" THEN "ERR_INVALID_COMPRESSOR"
               ELSE "SUCCESS"
    IN  /\ pc[t] = "check"
        /\ IF err = "SUCCESS"
           THEN /\ pc' = [pc EXCEPT ![t] = "insert"]
                /\ UNCHANGED ret
           ELSE /\ pc' = [pc EXCEPT ![t] = "exit"]
                /\ ret' = [ret EXCEPT ![t] = err]
        /\ UNCHANGED <<reg, cs, arg, lookup, calls>>

\* ADIOI_Malloc, fill in, prepend to ADIOI_Compressor_head
RegisterInsert(t) ==
    /\ pc[t] = "insert"
    /\ reg' = <<[name |-> arg[t].name, fns |-> arg[t].fns]>> \o reg
    /\ ret' = [ret EXCEPT ![t] = "SUCCESS"]
    /\ pc' = [pc EXCEPT ![t] = "exit"]
    /\ UNCHANGED <<cs, arg, lookup, calls>>

\* fn_exit: ROMIO_THREAD_CS_EXIT and return error_code
CsExit(t) ==
    /\ pc[t] = "exit"
    /\ cs' = NoThread
    /\ pc' = [pc EXCEPT ![t] = "idle"]
    /\ UNCHANGED <<reg, arg, ret, lookup, calls>>

\* MPIOI_Lookup_compressor walks the list without the critical section.
\* error_code is never assigned: the value returned is whatever the stack
\* slot holds, MPI_SUCCESS (0) or anything else.
MPIOI_Lookup_compressor(t, name) ==
    /\ pc[t] = "idle" /\ calls[t] < MaxCalls
    /\ \E code \in {"SUCCESS", "GARBAGE"} :
          lookup' = [lookup EXCEPT ![t] = [name |-> name, found |-> Registered(name), code |-> code]]
    /\ calls' = [calls EXCEPT ![t] = @ + 1]
    /\ UNCHANGED <<reg, cs, pc, arg, ret>>

\* Every thread has made its calls and returned from them
Terminated ==
    /\ \A t \in Threads : pc[t] = "idle" /\ calls[t] = MaxCalls
    /\ UNCHANGED vars

Next ==
    \E t \in Threads :
        \/ \E name \in Names : compressor_register(t, name)
        \/ \E name \in Names \cup {BadName}, fns \in {"valid", "null"} :
              MPIX_Register_compressor(t, name, fns)
        \/ CsEnter(t) \/ RegisterCheck(t) \/ RegisterInsert(t) \/ CsExit(t)
        \/ \E name \in Names : MPIOI_Lookup_compressor(t, name)
    \/ Terminated

Spec == Init /\ [][Next]_vars

-----------------------------------------------------------------------------
(* Properties *)

\* MPIOI_Register_compressor under concurrent registrations: the
\* duplicate check and the insert happen in one critical section, so the
\* registry never holds two entries with the same name.
NoDuplicateNames ==
    \A i, k \in 1..Len(reg) : i # k => reg[i].name # reg[k].name

\* What a caller of MPIOI_Lookup_compressor relies on: the returned code
\* is MPI_SUCCESS exactly when the name is registered and the function
\* pointers were filled in.
LookupCodeTellsFound ==
    \A t \in Threads : lookup[t].code # "NONE" => (lookup[t].code = "SUCCESS" <=> lookup[t].found)

==============================================================================
