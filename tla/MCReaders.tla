------------------------------ MODULE MCReaders -----------------------------
(* Small instances of Readers.                                             *)
EXTENDS Readers, TLC

(* Those who only own, or only view, are interchangeable.                  *)
Symmetry ==
  Permutations(Owners \ Viewers) \cup Permutations(Viewers \ Owners)

(* What handlers do with a session that was removed is not explored.       *)
InTable == present
=============================================================================
