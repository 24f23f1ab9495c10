--------------------------- MODULE MCEventStream ---------------------------
(* EventStream on small instances.                                         *)
EXTENDS EventStream, TLC

(* Bound: a stream that has forgotten its log is not followed further, as  *)
(* the properties say nothing of it.                                       *)
NotForgotten == ~forgot

(* The programs are interchangeable.                                       *)
Symmetry == Permutations(Clients)
=============================================================================
