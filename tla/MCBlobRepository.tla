-------------------------- MODULE MCBlobRepository --------------------------
(* BlobRepository for TLC: calls of the same kind are interchangeable.     *)
EXTENDS BlobRepository, TLC

Symmetry ==
    Permutations(Creators) \cup Permutations(Changers) \cup Permutations(Readers)
=============================================================================
