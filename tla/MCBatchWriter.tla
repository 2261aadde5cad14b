--------------------------- MODULE MCBatchWriter ---------------------------
(* Model values and symmetry for model checking BatchWriter.               *)
EXTENDS BatchWriter, TLC

Symmetry == Permutations(Followers)
=============================================================================
