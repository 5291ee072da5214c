--------------------------- MODULE ProcessingConfig ---------------------------
(***************************************************************************)
(* The part of microservices/processing/config/processing_config.yaml that *)
(* Features computes with and Processing counts with.                      *)
(***************************************************************************)
EXTENDS Naturals

CONSTANTS
  MinInteractions,  \* feature_aggregation.min_interactions
  TopK              \* similarity.top_k

ASSUME CountsAssumption == MinInteractions \in Nat /\ TopK \in Nat
=============================================================================
