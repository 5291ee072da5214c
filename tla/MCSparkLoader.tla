--------------------------- MODULE MCSparkLoader ---------------------------
(***************************************************************************)
(* SparkLoader for TLC: loaders are interchangeable, and so are students.  *)
(***************************************************************************)
EXTENDS SparkLoader, TLC

Symmetry == Permutations(Loaders) \cup Permutations(Students)
=============================================================================
