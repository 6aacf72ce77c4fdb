---------------------------- MODULE MC_PspP2P ----------------------------
(* Model-checking instances of PspP2P.  The model values are declared here;
   each .cfg picks the sets of a run. *)
EXTENDS PspP2P, TLC

CONSTANTS a, b, R, s1, s2, s3, r1, r2, r3, t1, t2, c1, c2

\* Send and receive handles are interchangeable names
HandleSymmetry == Permutations(Sends) \cup Permutations(Recvs)
==============================================================================
