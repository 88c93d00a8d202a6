------------------------- MODULE MCIngestionMetrics -------------------------
(* The reporter composed with the instance of MCIngestion.                 *)
EXTENDS MCIngestion, IngestionMetrics

(* One message per outcome: accepted or lost, duplicate, rejected.         *)
OutcomeMessages == {Sample, Misrouted}
=============================================================================
