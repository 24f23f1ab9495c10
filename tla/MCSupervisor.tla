---------------------------- MODULE MCSupervisor ----------------------------
(* Small instances of Supervisor.                                          *)
EXTENDS Supervisor, TLC

(* The clients are interchangeable.                                        *)
Symmetry == Permutations(Handlers)
=============================================================================
