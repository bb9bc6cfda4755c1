------------------------ MODULE MCDatasetPreparation ------------------------
(* A few samples and two of the five classes.                              *)
EXTENDS DatasetPreparation, TLC

Symmetry == Permutations(Samples) \cup Permutations(Classes)
=============================================================================
