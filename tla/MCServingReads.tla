--------------------------- MODULE MCServingReads ---------------------------
(***************************************************************************)
(* ServingReads for TLC: all rows of a publication are about one user.     *)
(***************************************************************************)
EXTENDS ServingReads

CONSTANT u

MCUserOf == [s \in Students |-> u]
=============================================================================
