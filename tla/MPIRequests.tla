----------------------------- MODULE MPIRequests -----------------------------
(***************************************************************************)
(* What a nonblocking MPI request promises its caller (spec sections 3,   *)
(* 4.3 and 7): a handle is free until a call starts it; it then completes  *)
(* exactly once, with an error class and a cancelled flag that MPI_Test    *)
(* and MPI_Wait report and that never change afterwards.  A cancelled      *)
(* request reports success.  A call may also return a request that is     *)
(* complete at once (MPI_PROC_NULL, an early match, an invalid rank).     *)
(***************************************************************************)
CONSTANTS
    Handles,   \* request handles
    Errors     \* error classes a completed request may report

VARIABLE req   \* per handle: [state, err, cancelled]

Free == [state |-> "free", err |-> "NONE", cancelled |-> FALSE]

\* The status of a completed request: cancellation never reports an error
Outcomes == {o \in [state : {"complete"}, err : Errors, cancelled : BOOLEAN] :
                o.cancelled => o.err = "SUCCESS"}

Init == req = [h \in Handles |-> Free]

\* A call starts the request
Start(h) ==
    /\ req[h].state = "free"
    /\ req' = [req EXCEPT ![h] = [Free EXCEPT !.state = "active"]]

\* The request completes
Complete(h) ==
    /\ req[h].state = "active"
    /\ \E o \in Outcomes : req' = [req EXCEPT ![h] = o]

\* A call returns a request that is already complete
StartComplete(h) ==
    /\ req[h].state = "free"
    /\ \E o \in Outcomes : req' = [req EXCEPT ![h] = o]

Next == \E h \in Handles : Start(h) \/ Complete(h) \/ StartComplete(h)

Spec == Init /\ [][Next]_req

==============================================================================
