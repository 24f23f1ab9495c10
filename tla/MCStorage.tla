----------------------------- MODULE MCStorage -----------------------------
(* Small instances of Storage.                                             *)
EXTENDS Storage, TLC

(* Bound: where the files of all are astray nothing is left to check.      *)
NotAllAstray == stray # Ids

(* The clients are interchangeable.                                        *)
Symmetry == Permutations(Handlers)
=============================================================================
